----------------------------- MODULE ProtocolDumps -----------------------------
(***************************************************************************)
(* scan_vrc after the B524 scan: the timer programs of B555, the energy    *)
(* counters of B516 and the registers of B509, each a dump of its own in   *)
(* the artifact.  A dump asks one selector after another; what a reply     *)
(* says decides what is asked next.                                        *)
(***************************************************************************)
EXTENDS Naturals, Sequences, FiniteSets, FiniteSetsExt, SequencesExt

CONSTANTS Programs, Days,   \* counts: B555 programs (9), weekdays (7)
          MaxSlots,         \* bound: timer slots reported or supported
          Combos,           \* count: source and usage pairs of B516 (4)
          MaxRegister,      \* bound: B509 register numbers
          HostYear          \* the clock's year; a regulator may echo an earlier one

DumpConstants == {Programs, Days, MaxSlots, Combos, MaxRegister, HostYear} \subseteq Nat

Dumps == <<"b555", "b516", "b509">>

VARIABLES
  enabled,     \* dumps asked for
  telegrams,   \* the transport has send_proto
  ranges,      \* b509_ranges, from the moment they are looked at
  at,          \* position in Dumps
  stage,       \* "next", "reading", "dumped", "ended"
  work,        \* selectors still to be read by this dump
  entries,     \* selector -> "ok", "off" (a reply that says unavailable), "error",
               \* "exhausted" (TransportRecoveryExhausted: an error entry as well)
  config,      \* program -> max_slots its A3 reply allows
  slots,       \* <<program, day>> -> slots its A4 reply reports
  echoes,      \* the plausible years of the B516 total replies, in order
  reads, errors,   \* read_count, error_count
  stopped,     \* incomplete_reason of this dump
  incomplete,  \* incomplete_reason of the artifact; "none" while complete
  dumped       \* dumps in the artifact

device == <<config, slots, echoes>>
counted == <<reads, errors>>
vars == <<enabled, telegrams, ranges, at, stage, work, entries, device, counted, stopped,
          incomplete, dumped>>

(* parse_b509_range: bounds in either order.                               *)
Spans == {s \in (0..MaxRegister) \X (0..MaxRegister) : s[1] <= s[2]}
Empty == [s \in {} |-> "ok"]

(* The B524 scan returned; an incomplete one, or a transport without       *)
(* telegrams (DummyTransport), ends it.                                    *)
Init ==
  /\ enabled \in SUBSET ToSet(Dumps) /\ telegrams \in BOOLEAN
  /\ ranges = <<>>
  /\ at = 1 /\ incomplete \in {"none", "b524"}
  /\ stage = IF incomplete = "none" /\ telegrams THEN "next" ELSE "ended"
  /\ work = <<>> /\ entries = Empty /\ config = Empty /\ slots = Empty /\ echoes = <<>>
  /\ reads = 0 /\ errors = 0 /\ stopped = "none" /\ dumped = {}
-----------------------------------------------------------------------------
(* merge_b509_ranges.                                                      *)
Before(r, s) == r[1] < s[1] \/ (r[1] = s[1] /\ r[2] <= s[2])
Merge(merged, r) ==
  IF merged # <<>> /\ r[1] <= Last(merged)[2] + 1
  THEN Front(merged) \o << <<Last(merged)[1], Max({Last(merged)[2], r[2]})>> >>
  ELSE Append(merged, r)
Sorted(given) ==
  LET order == CHOOSE o \in Bijection(DOMAIN given, DOMAIN given) :
                 \A i, j \in DOMAIN given : i < j => Before(given[o[i]], given[o[j]])
  IN  [i \in DOMAIN given |-> given[order[i]]]
Merged(given) == FoldLeft(Merge, <<>>, Sorted(given))

Registers(given) == FlattenSeq([i \in DOMAIN Merged(given) |->
               LET r == Merged(given)[i] IN
               [k \in 1..(r[2] - r[1] + 1) |-> <<"b509", r[1] + k - 1>>]])
Totals == [c \in 1..Combos |-> <<"total", c>>]
(* _year_selectors: the reference year, then the one before.               *)
Years(year) == [i \in 1..(2 * Combos) |->
                  IF i <= Combos THEN <<"year", i, year>> ELSE <<"year", i - Combos, year - 1>>]

First(d) ==
  CASE d = "b555" -> [p \in 1..Programs |-> <<"config", p>>]
    [] d = "b516" -> Totals
    [] d = "b509" -> Registers(ranges')

Start ==
  /\ stage = "next" /\ at \in DOMAIN Dumps /\ Dumps[at] \in enabled
  /\ ranges' \in (IF Dumps[at] = "b509" THEN [1..2 -> Spans] ELSE {<<>>})
  /\ stage' = "reading" /\ work' = First(Dumps[at])
  /\ UNCHANGED <<enabled, telegrams, at, entries, device, counted, stopped, incomplete, dumped>>

Skip ==
  /\ stage = "next" /\ \/ at \notin DOMAIN Dumps
                       \/ at \in DOMAIN Dumps /\ Dumps[at] \notin enabled
  /\ IF at \in DOMAIN Dumps THEN at' = at + 1 /\ UNCHANGED stage
                            ELSE stage' = "ended" /\ UNCHANGED at
  /\ UNCHANGED <<enabled, telegrams, ranges, work, entries, device, counted, stopped, incomplete,
                 dumped>>
-----------------------------------------------------------------------------
Errors == {"error", "exhausted"}
Asked == Head(work)
Reading == stage = "reading" /\ work # <<>>

Note(outcome) ==
  /\ entries' = [s \in DOMAIN entries \cup {Asked} |-> IF s = Asked THEN outcome ELSE entries[s]]
  /\ reads' = reads + 1
  /\ errors' = IF outcome \in Errors THEN errors + 1 ELSE errors
Rest == UNCHANGED <<enabled, telegrams, ranges, at, stage, stopped, incomplete, dumped>>

(* A config (A3) or slots (A4) reply that makes the dump go on with this   *)
(* program; the day's timers (A5) are the reported ones it can have.       *)
ConfigRead(most) ==
  /\ Asked[1] = "config" /\ Note("ok")
  /\ config' = [p \in DOMAIN config \cup {Asked[2]} |-> IF p = Asked[2] THEN most ELSE config[p]]
  /\ work' = <<(<<"slots", Asked[2]>>)>> \o Tail(work)
  /\ UNCHANGED <<slots, echoes>>

(* Mutant of DaySlots: the reported slots are read, whatever fits.         *)
DaySlotsReported(reported, most) == reported
DaySlots(reported, most) == Min({reported, most})

SlotsRead(reported) ==
  LET p == Asked[2] IN
  /\ Asked[1] = "slots" /\ Note("ok")
  /\ slots' = [x \in DOMAIN slots \cup {<<p, d>> : d \in 1..Days} |->
                 IF x[1] = p THEN reported[x[2]] ELSE slots[x]]
  /\ work' = FlattenSeq([d \in 1..Days |->
                 [k \in 1..DaySlots(reported[d], config[p]) |-> <<"timer", p, d, k>>]])
             \o Tail(work)
  /\ UNCHANGED <<config, echoes>>

(* A total echoes the date it was counted at, when it is plausible; the    *)
(* years are asked after the last total, whatever the totals answered.     *)
(* _reference_date_from_totals: the first plausible echo, or the clock.    *)
Reference(years) == IF years = <<>> THEN HostYear ELSE Head(years)
Onward(years) == Tail(work) \o IF Asked = <<"total", Combos>> THEN Years(Reference(years)) ELSE <<>>
TotalRead(year) ==
  /\ Asked[1] = "total" /\ Note("ok")
  /\ echoes' = IF year = 0 THEN echoes ELSE Append(echoes, year)
  /\ work' = Onward(echoes')
  /\ UNCHANGED <<config, slots>>

(* Every other reply, and every failure but one: a timeout, a transport    *)
(* error (TransportRecoveryExhausted is one) or a reply that does not parse *)
(* is an error entry, and the next selector follows.                       *)
Plain(outcome) ==
  /\ \/ outcome \in Errors
     \/ outcome = "off" /\ Asked[1] \in {"config", "slots", "timer"}
     \/ outcome = "ok" /\ Asked[1] \in {"timer", "year", "b509"}
  /\ Note(outcome)
  /\ work' = IF Asked[1] = "total" THEN Onward(echoes) ELSE Tail(work)
  /\ UNCHANGED device

Answer ==
  /\ Reading /\ Rest
  /\ \/ \E most \in 0..MaxSlots : ConfigRead(most)
     \/ \E reported \in [1..Days -> 0..MaxSlots] : SlotsRead(reported)
     \/ \E year \in {0, HostYear - 1, HostYear} : TotalRead(year)
     \/ \E outcome \in {"ok", "off"} \cup Errors : Plain(outcome)

(* ERR: command not enabled leaves scan_vrc, and the artifact with it.     *)
NotEnabled ==
  /\ Reading /\ stage' = "lost"
  /\ UNCHANGED <<enabled, telegrams, ranges, at, work, entries, device, counted, stopped,
                 incomplete, dumped>>
(* Ctrl-C, while a reply is awaited or between two: the dump keeps what it*)
(* has.                                                                    *)
Interrupt ==
  /\ stage = "reading" /\ stage' = "dumped" /\ stopped' = "user_interrupt"
  /\ UNCHANGED <<enabled, telegrams, ranges, at, work, entries, device, counted, incomplete, dumped>>
Finish ==
  /\ stage = "reading" /\ work = <<>> /\ stage' = "dumped"
  /\ UNCHANGED <<enabled, telegrams, ranges, at, work, entries, device, counted, stopped,
                 incomplete, dumped>>

(* The next dump begins with nothing read.                                 *)
Fresh ==
  /\ work' = <<>> /\ entries' = Empty /\ config' = Empty /\ slots' = Empty /\ echoes' = <<>>
  /\ reads' = 0 /\ errors' = 0

(* The dump goes into the artifact; an incomplete one ends the scan.       *)
Attach ==
  /\ stage = "dumped" /\ dumped' = dumped \cup {Dumps[at]}
  /\ IF stopped = "none" THEN stage' = "next" /\ at' = at + 1 /\ UNCHANGED incomplete
     ELSE stage' = "ended" /\ UNCHANGED at
          /\ incomplete' = IF incomplete = "none" THEN Dumps[at] ELSE incomplete
  /\ Fresh /\ UNCHANGED <<enabled, telegrams, ranges, stopped>>

Next == Start \/ Skip \/ Answer \/ NotEnabled \/ Interrupt \/ Finish \/ Attach

Spec == Init /\ [][Next]_vars
-----------------------------------------------------------------------------
TypeOK ==
  /\ stage \in {"next", "reading", "dumped", "ended", "lost"} /\ at \in 1..4
  /\ dumped \subseteq enabled /\ reads \in Nat /\ errors \in 0..reads

(* What a complete dump asked, given the replies it got.                  *)
RegulatorYear == Head(Append(echoes, HostYear))
Wanted ==
  CASE Dumps[at] = "b555" ->
         {<<"config", p>> : p \in 1..Programs} \cup {<<"slots", p>> : p \in DOMAIN config}
         \cup UNION {{<<"timer", x[1], x[2], k>> :
                       k \in {i \in 1..MaxSlots : i <= slots[x] /\ i <= config[x[1]]}} :
                     x \in DOMAIN slots}
    [] Dumps[at] = "b516" ->
         {<<"total", c>> : c \in 1..Combos}
         \cup {<<"year", c, y>> : c \in 1..Combos, y \in {RegulatorYear, RegulatorYear - 1}}
    [] OTHER -> {<<"b509", r>> : r \in {n \in 0..MaxRegister :
                   \E i \in DOMAIN ranges : ranges[i][1] <= n /\ n <= ranges[i][2]}}

(* A dump asks each selector once, and unless the user stops it exactly the*)
(* ones its replies call for: no timer beyond what the program can have, no*)
(* yearly total of another year than the regulator's, no register twice.   *)
(* Its counters are its entries.  The artifact is complete only with every *)
(* dump asked for in it, and none follows an incomplete scan or dump.      *)
DumpsTrue ==
  /\ TypeOK
  /\ stage = "dumped" =>
       /\ reads = Cardinality(DOMAIN entries)
       /\ errors = Cardinality({s \in DOMAIN entries : entries[s] \in Errors})
       /\ IF stopped = "none" THEN DOMAIN entries = Wanted ELSE DOMAIN entries \subseteq Wanted
  /\ stage = "ended" /\ incomplete = "none" /\ telegrams => dumped = enabled
  /\ stage = "ended" /\ stopped # "none" => incomplete = Dumps[at]
  /\ incomplete = "b524" => dumped = {}

(* README: an exhausted elapsed budget, of a protocol telegram too, saves  *)
(* an incomplete artifact and the remaining selectors are not converted    *)
(* into generic errors.  In a dump it is such an error, and the dump is    *)
(* complete.                                                               *)
ExhaustionStops ==
  stage = "dumped" /\ stopped = "none" => \A s \in DOMAIN entries : entries[s] # "exhausted"
=============================================================================
