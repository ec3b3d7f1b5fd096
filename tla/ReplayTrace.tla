------------------------------ MODULE ReplayTrace ------------------------------
(***************************************************************************)
(* replay-trace: the lines EnhancedTcpTransport writes while it retries,   *)
(* reconnects, is killed and is started again are read back one by one,    *)
(* and must give the requests, their answers and their attempts; then the  *)
(* exchanges become the registers, descriptions and operation reads of an  *)
(* artifact.  A line carries the request it was written for (of), which    *)
(* the reader does not look at: it is how the properties know the truth.   *)
(***************************************************************************)
EXTENDS Naturals, Sequences, SequencesExt, FiniteSetsExt

CONSTANTS MaxRequests, MaxAttempts,   \* bounds: requests in the trace, attempts of one
          MaxReconnects               \* reconnect_max_retries

TraceConstants == {MaxRequests, MaxAttempts, MaxReconnects} \subseteq Nat

(* A read of one register, of its description, and of the same register at *)
(* another destination.                                                    *)
Telegrams == {"register", "description", "elsewhere"}
Answers == {"active", "status_only", "empty_reply"}
None == "none"

VARIABLES
  seq, open, traced,   \* of the transport: its request counter, an open session, an
               \* open trace handle; without one no line is written
  doing,       \* "idle", "begin" (an attempt is due), "sent", "recovery"
  history,     \* the requests: telegram, attempts, early (those before the first
               \* SEND_PROTO, and those whose START was not written), sent, answer,
               \* failed, unmarked (an INIT the reader cannot tell from a new
               \* transport), reconnects
  silent, confused,   \* this transport has sent nothing yet; the trace of one that
               \* restarted the numbers lacks what the reader knows it by
  trace        \* what the reader made of the lines so far

vars == <<seq, open, traced, doing, history, silent, confused, trace>>

Fresh == [exchanges |-> <<>>, active |-> 0, offset |-> 0, prev |-> 0,
          recovering |-> FALSE, init |-> FALSE, precounted |-> FALSE]

Init ==
  /\ seq = 0 /\ open = FALSE /\ traced = FALSE /\ doing = "idle" /\ history = <<>>
  /\ trace = Fresh /\ silent = TRUE /\ confused = FALSE
-----------------------------------------------------------------------------
(* _parse_enhanced_trace_lines, a line at a time.  exchange_by_seq finds   *)
(* the last exchange of a number.                                          *)
Numbered(t, n) == {i \in DOMAIN t.exchanges : t.exchanges[i].seq = n}
Change(t, n, F(_)) ==
  IF Numbered(t, n) = {} THEN t
  ELSE [t EXCEPT !.exchanges[Max(Numbered(t, n))] = F(@)]
Marker(t) == [t EXCEPT !.init = FALSE]

ReadInit(t) ==
  IF t.recovering THEN [t EXCEPT !.recovering = FALSE, !.init = FALSE]
  ELSE [t EXCEPT !.init = TRUE]

Unanswered(t) == t.active # 0 /\ t.exchanges[t.active].response = None
ReadStart(t) ==
  IF ~t.init /\ Unanswered(t)
  THEN [t EXCEPT !.exchanges[t.active].attempts = @ + 1, !.precounted = TRUE] ELSE t

(* Mutant of Offset: a session of a concatenated trace is never told apart.*)
OffsetKept(t) == t.offset
(* No marker followed INIT: an independent session.                        *)
Offset(t) == IF t.init THEN t.offset + t.prev ELSE t.offset

ReadSend(t, line) ==
  LET n == line.seq + Offset(t)
      known == {i \in Numbered(t, n) : i = Max(Numbered(t, n))
                /\ t.exchanges[i].response = None /\ t.exchanges[i].telegram = line.telegram}
      base == [t EXCEPT !.offset = Offset(t), !.init = FALSE, !.prev = line.seq,
                        !.precounted = FALSE]
  IN IF known # {}
     THEN LET i == Max(known) IN
          [base EXCEPT !.exchanges[i].attempts = IF t.precounted THEN @ ELSE @ + 1,
                       !.exchanges[i].of = @ \cup {line.of}, !.active = i]
     ELSE [base EXCEPT !.exchanges = Append(@,
             [seq |-> n, telegram |-> line.telegram, response |-> None, answers |-> 0,
              attempts |-> 1, reconnects |-> 0, failed |-> FALSE, cause |-> None,
              of |-> {line.of}]),
             !.active = Len(t.exchanges) + 1]

ReadAnswer(t, line) ==
  Change(Marker(t), line.seq + t.offset,
         LAMBDA e : [e EXCEPT !.response = line.answer, !.answers = line.of])
ReadNack(t, line) ==
  Change(Marker(t), line.seq + t.offset, LAMBDA e : [e EXCEPT !.attempts = @ + 1, !.cause = "other"])
ReadRetry(t, line) ==
  Change(Marker(t), line.seq + t.offset, LAMBDA e : [e EXCEPT !.cause = line.cause])
ReadCounts(t, line, failed) ==
  Change(Marker(t), line.seq + t.offset,
         LAMBDA e : [e EXCEPT !.attempts = line.attempts, !.reconnects = line.reconnects,
                              !.cause = line.cause, !.failed = failed])
ReadLine(t, line) ==
  CASE line.kind = "INIT" -> ReadInit(t)
    [] line.kind = "START" -> ReadStart(t)
    [] line.kind = "SEND_PROTO" -> ReadSend(t, line)
    [] line.kind = "PARSED_PROTO" -> ReadAnswer(t, line)
    [] line.kind = "RETRY" -> ReadRetry(t, line)
    [] line.kind = "LOCAL_NACK_RETRY" -> ReadNack(t, line)
    [] line.kind = "RECOVERY" -> [ReadCounts(t, line, FALSE) EXCEPT !.recovering = TRUE]
    [] line.kind = "REQUEST_FAILED" -> [ReadCounts(t, line, TRUE) EXCEPT !.recovering = FALSE]
-----------------------------------------------------------------------------
(* What the transport writes.                                              *)
Now == history[Len(history)]
Line(kind) ==
  [kind |-> kind, seq |-> seq, of |-> Len(history), telegram |-> Now.telegram,
   answer |-> None, cause |-> "timeout", attempts |-> Now.attempts,
   reconnects |-> Now.reconnects]
Plain(kind) == [kind |-> kind]
Write(lines) == trace' = FoldLeft(ReadLine, trace, lines)
(* A marker before the first SEND_PROTO of a restarted transport.          *)
Marks == confused' = (confused \/ (silent /\ trace.exchanges # <<>>)) /\ UNCHANGED silent
NoMarks == UNCHANGED <<silent, confused>>
Update(F(_)) == history' = [history EXCEPT ![Len(history)] = F(@)]

(* close() drops the session and the trace handle, which _open_session and *)
(* the markers of recovery and failure open again.                         *)
Close == open' = FALSE /\ traced' = FALSE
Opened == open' = TRUE /\ traced' = TRUE
Unreached == open' = FALSE /\ traced' = TRUE    \* the connection failed, no INIT

(* Bound: there are requests to come; after the last nothing is written.   *)
Going == Len(history) < MaxRequests

(* session() of a transport, the first or one started after another ended, *)
(* which finds no adapter, or no answer to INIT.                           *)
Session ==
  /\ doing = "idle" /\ Going /\ ~open /\ NoMarks /\ UNCHANGED <<seq, doing, history>>
  /\ \/ (Opened \/ Close) /\ Write(<<Plain("INIT")>>)
     \/ Unreached /\ UNCHANGED trace
(* The session ends, or Ctrl-C comes in the middle of a request; or the    *)
(* program does, and the next one appends to the trace and counts from 1.  *)
Ends ==
  /\ doing # "idle" \/ (Going /\ (open \/ traced))
  /\ seq' \in {0, seq} /\ Close /\ doing' = "idle" /\ UNCHANGED <<history, trace>>
  /\ silent' = (silent \/ seq' = 0)
  /\ confused' = (confused \/ (seq' = 0 /\ trace.recovering))

Request ==
  /\ doing = "idle" /\ Going /\ doing' = "begin" /\ seq' = seq + 1
  /\ \E g \in Telegrams :
       history' = Append(history, [telegram |-> g, attempts |-> 0, early |-> 0, sent |-> FALSE,
                                   answer |-> None, failed |-> FALSE, unmarked |-> FALSE,
                                   reconnects |-> 0])
  /\ NoMarks /\ UNCHANGED <<open, traced, trace>>
(* The attempt hook of the caller raises, before START or a repetition.    *)
Refused ==
  /\ doing \in {"begin", "sent"} /\ doing' = "idle" /\ NoMarks
  /\ UNCHANGED <<seq, open, traced, history, trace>>

(* _start_arbitration: START, then a session if there is none, and its     *)
(* INIT.                                                                   *)
Starting == IF traced THEN <<Plain("START")>> ELSE <<>>
Opening == IF open THEN <<>> ELSE <<Plain("INIT")>>
Causes == IF Now.telegram = "register" THEN {"timeout", "other"} ELSE {"other"}
Retry(cause) == <<[Line("RETRY") EXCEPT !.cause = cause]>>
Begun(r) ==
  [r EXCEPT !.attempts = @ + 1, !.early = IF r.sent /\ traced THEN @ ELSE @ + 1]
Begin == doing = "begin" /\ Now.attempts < MaxAttempts /\ UNCHANGED seq

(* Granted, the telegram goes out.                                         *)
Granted ==
  /\ Begin /\ doing' = "sent" /\ Opened /\ silent' = FALSE /\ UNCHANGED confused
  /\ Update(LAMBDA r : [Begun(r) EXCEPT !.sent = TRUE, !.early = r.early,
                                        !.unmarked = @ \/ (r.sent /\ ~open)])
  /\ Write(Starting \o Opening \o <<Line("SEND_PROTO")>>)

(* Lost, to be repeated: refused, on a session that RESETTED may replace;  *)
(* or timed out.  A connection that does leaves no session; a blocked send,*)
(* or INIT without an answer, closes the trace before RETRY is written.    *)
Resets == {<<>>, <<Plain("INIT")>>}
LostOpen(reset, cause) == Opened /\ Marks /\ Write(Starting \o Opening \o reset \o Retry(cause))
LostUnreached(opening) == Unreached /\ Marks /\ Write(Starting \o opening \o Retry("timeout"))
LostUntold(reset) == Close /\ NoMarks /\ Write(Starting \o Opening \o reset)
Lost ==
  /\ Begin /\ Update(Begun) /\ UNCHANGED doing
  /\ \/ \E reset \in Resets, cause \in Causes : LostOpen(reset, cause)
     \/ \E opening \in {<<>>, Opening} : LostUnreached(opening)
     \/ \E reset \in Resets : LostUntold(reset)

(* The connection is lost.  The marker of a recovery, or of a failure,     *)
(* makes the reader forget the INITs just before it: they are left out.    *)
Dropped ==
  /\ Begin /\ MaxReconnects > 0 /\ Update(Begun) /\ doing' = "recovery" /\ Unreached /\ Marks
  /\ Write(Starting \o <<[Line("RECOVERY") EXCEPT !.attempts = @ + 1]>>)

Replies == IF Now.telegram = "register" THEN Answers ELSE {"active"}
Answered ==
  /\ doing = "sent" /\ doing' = "idle" /\ NoMarks /\ UNCHANGED <<seq, open, traced>>
  /\ \E a \in Replies : /\ Update(LAMBDA r : [r EXCEPT !.answer = a])
                        /\ Write(<<[Line("PARSED_PROTO") EXCEPT !.answer = a]>>)
(* A NACK repeats the telegram without a new arbitration.                  *)
Nacked ==
  /\ doing = "sent" /\ Now.attempts < MaxAttempts
  /\ Update(LAMBDA r : [r EXCEPT !.attempts = @ + 1])
  /\ Write(<<Line("LOCAL_NACK_RETRY")>>) /\ NoMarks /\ UNCHANGED <<seq, open, traced, doing>>
(* A failed attempt is repeated on this session, on the one RESETTED put   *)
(* in its place, or on none, with RETRY written or lost as in Lost.        *)
Retried ==
  /\ doing = "sent" /\ doing' = "begin" /\ NoMarks /\ UNCHANGED <<seq, history>>
  /\ \/ Opened /\ \E reset \in Resets, cause \in Causes :
                     Write(reset \o Retry(cause))
     \/ Unreached /\ Write(Retry("timeout"))
     \/ Close /\ \E reset \in Resets : Write(reset)
Recover ==
  /\ doing = "sent" /\ MaxReconnects > 0 /\ doing' = "recovery" /\ Unreached
  /\ Write(<<Line("RECOVERY")>>)
  /\ NoMarks /\ UNCHANGED <<seq, history>>
(* _recover_session: no connection, no answer to INIT, or a session.       *)
Reconnect ==
  /\ doing = "recovery" /\ Now.reconnects < MaxReconnects /\ NoMarks /\ UNCHANGED seq
  /\ \/ /\ Unreached /\ UNCHANGED <<doing, trace>>
        /\ Update(LAMBDA r : [r EXCEPT !.reconnects = @ + 1])
     \/ /\ Close /\ UNCHANGED doing /\ Write(<<Plain("INIT")>>)
        /\ Update(LAMBDA r : [r EXCEPT !.reconnects = @ + 1, !.unmarked = TRUE])
     \/ /\ Opened /\ doing' = "begin" /\ Write(<<Plain("INIT")>>)
        /\ Update(LAMBDA r : [r EXCEPT !.reconnects = @ + 1])
(* A terminal failure keeps the session, closes it, or ends on a RESETTED  *)
(* session that is not connected again; its line opens the trace.          *)
Failed ==
  /\ doing \in {"sent", "recovery", "begin"} /\ Now.attempts > 0 /\ doing' = "idle"
  /\ (open' \in {FALSE, open} /\ traced' = TRUE) \/ Close
  /\ Update(LAMBDA r : [r EXCEPT !.failed = TRUE])
  /\ \E c \in Causes : Write(<<[Line("REQUEST_FAILED") EXCEPT !.cause = c]>>)
  /\ Marks /\ UNCHANGED seq

Next ==
  \/ Session \/ Ends \/ Request \/ Refused \/ Granted \/ Lost \/ Dropped \/ Answered
  \/ Nacked \/ Retried \/ Recover \/ Reconnect \/ Failed

Spec == Init /\ [][Next]_vars
-----------------------------------------------------------------------------
(* replay_trace_to_artifact: exchanges of the first destination only.      *)
Elsewhere(e) == e.telegram = "elsewhere"
Kept(e) == Elsewhere(e) <=> Elsewhere(trace.exchanges[1])
OfRegister(e) == Kept(e) /\ e.telegram \in {"register", "elsewhere"}
State(e) == IF e.response # None THEN e.response
            ELSE IF e.cause = "other" THEN "transport_error" ELSE "timeout"
Rank == [active |-> 3, status_only |-> 2, empty_reply |-> 1, transport_error |-> 0, timeout |-> 0]

(* Mutant of Supersedes: the last reply always wins.                       *)
SupersedesAlways(new, old) == TRUE
Supersedes(new, old) ==
  \/ new = "active" \/ old \in {None, "timeout"}
  \/ old = "transport_error" /\ new \in {"status_only", "empty_reply"}
  \/ old \in Answers /\ Rank[new] > Rank[old]
Stored ==
  FoldLeft(LAMBDA old, e : IF OfRegister(e) /\ Supersedes(State(e), old) THEN State(e) ELSE old,
           None, trace.exchanges)
Present ==
  \E i \in DOMAIN trace.exchanges : LET e == trace.exchanges[i] IN
    OfRegister(e) /\ State(e) \in {"active", "empty_reply"}
(* A description goes to its register if that one has a codec; the reply   *)
(* need not have come after it.                                            *)
Described ==
  /\ Stored = "active"
  /\ \E i \in DOMAIN trace.exchanges : LET e == trace.exchanges[i] IN
       Kept(e) /\ e.telegram = "description" /\ e.response = "active"
-----------------------------------------------------------------------------
TypeOK ==
  /\ doing \in {"idle", "begin", "sent", "recovery"} /\ seq \in Nat
  /\ open \in BOOLEAN /\ traced \in BOOLEAN /\ (open => traced)
  /\ trace.active \in 0..Len(trace.exchanges) /\ Len(history) <= MaxRequests

Of(r) == {i \in DOMAIN trace.exchanges : r \in trace.exchanges[i].of}
Legible(r) == history[r].sent /\ ~history[r].unmarked /\ ~confused

(* Requests and exchanges are the same, one to one: no two requests, of    *)
(* one session, of several or of concatenated traces, become one exchange, *)
(* and retries, resets and reconnects do not split one - except where the  *)
(* lines do not tell (unmarked, confused).  The attempts counted are those *)
(* from the first telegram on; only one begun while the trace was closed,  *)
(* after a blocked send or an INIT without an answer, may be missing.      *)
Separate ==
  /\ ~confused => \A i \in DOMAIN trace.exchanges : Cardinality(trace.exchanges[i].of) = 1
  /\ \A r \in DOMAIN history : Legible(r) =>
       /\ Cardinality(Of(r)) = 1
       /\ history[r].answer # None => \A i \in Of(r) :
            trace.exchanges[i].attempts \in
              (history[r].attempts - history[r].early)..history[r].attempts

(* Whatever happened to the lines, an answer stays with the telegram it    *)
(* was received for, and the artifact keeps the best evidence received     *)
(* from the first destination: an active value survives every later        *)
(* failure and status, and a description reaches it even if it came first. *)
FirstIsHere == trace.exchanges # <<>> /\ trace.exchanges[1].telegram # "elsewhere"
Received(telegram) ==
  {history[r].answer : r \in {q \in DOMAIN history : history[q].telegram = telegram}} \ {None}
BestEvidence ==
  /\ \A i \in DOMAIN trace.exchanges :
       LET e == trace.exchanges[i] IN
       e.answers # 0 => e.answers \in e.of /\ history[e.answers].answer = e.response
  /\ FirstIsHere =>
       /\ Received("register") # {} =>
            Stored \in Received("register")
            /\ \A a \in Received("register") : Rank[a] <= Rank[Stored]
       /\ Present <=> Received("register") \cap {"active", "empty_reply"} # {}
       /\ Described <=> "active" \in Received("register") /\ Received("description") # {}

(* The artifact of a trace says what the transport did and received.       *)
ReplayTrue == TypeOK /\ Separate /\ BestEvidence

(* "REQUEST_FAILED marker remains authoritative": the attempts of a failed *)
(* request are those of its marker.  The START of the next request is      *)
(* counted to it as well.                                                  *)
FailureAuthoritative ==
  \A r \in DOMAIN history : history[r].failed /\ Legible(r) =>
    \A i \in Of(r) : trace.exchanges[i].attempts = history[r].attempts
=============================================================================
