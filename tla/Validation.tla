----------------------------- MODULE Validation -----------------------------
(* The stages that look into the records of one dump, between the parser    *)
(* and the batcher (discogs/mod.rs message_validator, message_normalizer):  *)
(* what they pass on, what they count, and what the validator leaves on     *)
(* disk (discogs/rules.rs FlaggedRecordWriter) when the process dies and    *)
(* the dump is published again from its first record.                       *)
(*                                                                          *)
(* What the rules say of a record and the shape it gets are parameters      *)
(* here; Records gives them their meaning.                                  *)
EXTENDS QualityReport, FiniteSets

CONSTANTS
  Dumps,              \* set of [type, records]
  MaxPasses,          \* bound: how often a dump is published
  Read(_),            \* a record as the parser sends it, [id, data]
  SkipBy(_, _),       \* type, message: the first skip condition that holds, as a
                      \* sequence of at most one [reason, value]
  RepairBy(_, _),     \* type, message: what the filters leave of it, [fields, actions]
  ViolationsBy(_, _), \* type, message: the violations after the filters,
                      \* a sequence of [rule, severity, value]
  ShapeBy(_, _)       \* type, fields: the flat record with its canonical blocks

ASSUME DumpsAreLists == \A d \in Dumps : d.records \in Seq(ToSet(d.records))

ASSUME ViolationsAreLists ==
  \A d \in Dumps : \A i \in 1..Len(d.records) :
    LET violations == ViolationsBy(d.type, Read(d.records[i]))
    IN  violations \in Seq(ToSet(violations))

VARIABLES
  dump,       \* the dump that is processed
  validated,  \* whether rules are configured: then there is a validator
  pass,
  next,       \* the next record of the parser
  stage,      \* the validator: "run", "ending" after a failed send, "ended"
  checked,    \* between validator and normalizer
  receiving,  \* whether the normalizer still receives
  published,  \* what the normalizer has sent on in this pass
  report, written, buffer,   \* of the validator, in memory
  log, files, reportFile     \* on disk: JSON lines, captured records, report

volatile == <<next, stage, checked, receiving, published, report, written, buffer>>
onDisk == <<log, files, reportFile>>
vars == <<dump, validated, pass, volatile, onDisk>>

Fresh ==
  /\ next = 1 /\ stage = "run" /\ checked = <<>> /\ receiving = TRUE /\ published = <<>>
  /\ report = NewReport /\ written = {} /\ buffer = <<>>

Init ==
  /\ dump \in Dumps /\ validated \in BOOLEAN /\ pass = 1
  /\ Fresh
  /\ log = <<>> /\ files = [i \in {} |-> <<>>] /\ reportFile = NewReport

-----------------------------------------------------------------------------
(* FlaggedRecordWriter.                                                    *)

\* The files with one more, or one written over.
Over(f, id, fields) == [i \in DOMAIN f \cup {id} |-> IF i = id THEN fields ELSE f[i]]

\* The first capture of a record in this pass writes its file.
Capture(id, fields) ==
  /\ written' = written \cup {id}
  /\ files' = IF id \in written THEN files ELSE Over(files, id, fields)

Line(id, reason, value) == [id |-> id, rule |-> reason, value |-> value]

\* The lines of the violations of one record.
Lines(id, violations) ==
  [i \in DOMAIN violations |-> Line(id, violations[i].rule, violations[i].value)]

\* A violation that has the record captured, and not only logged.
Captures(violations) == \E v \in ToSet(violations) : v.severity \in {"error", "warning"}

\* A full buffer goes to the file; at the end flush does the same.
Spill ==
  /\ buffer # <<>> /\ stage # "ended"
  /\ log' = log \o buffer /\ buffer' = <<>>
  /\ UNCHANGED <<dump, validated, pass, next, stage, checked, receiving, published,
                 report, written, files, reportFile>>

-----------------------------------------------------------------------------
(* message_validator.                                                      *)

Message(i) == Read(dump.records[i])
Taken == Message(next)
Skip(message) == SkipBy(dump.type, message)
Repaired(message) == RepairBy(dump.type, message)
Violations(message) == ViolationsBy(dump.type, message)

CanValidate == validated /\ stage = "run" /\ next <= Len(dump.records)

SkipRecord ==
  /\ CanValidate /\ Skip(Taken) # <<>>
  /\ LET skip == Head(Skip(Taken))
     IN  /\ report' = RecordSkip(IncrementTotal(report), Taken.id, skip.reason)
         /\ buffer' = Append(buffer, Line(Taken.id, skip.reason, skip.value))
         /\ Capture(Taken.id, Taken.data)
  /\ next' = next + 1
  /\ UNCHANGED <<dump, validated, pass, stage, checked, receiving, published, log, reportFile>>

CheckRecord ==
  /\ CanValidate /\ Skip(Taken) = <<>>
  /\ report' = RecordViolations(
                 RecordFilterActions(IncrementTotal(report), Repaired(Taken).actions),
                 Violations(Taken))
  /\ buffer' = buffer \o Lines(Taken.id, Violations(Taken))
  /\ IF Captures(Violations(Taken)) THEN Capture(Taken.id, Repaired(Taken).fields)
                                    ELSE UNCHANGED <<written, files>>
  /\ checked' = IF receiving THEN Append(checked, [Taken EXCEPT !.data = Repaired(Taken).fields])
                ELSE checked
  /\ stage' = IF receiving THEN "run" ELSE "ending"
  /\ next' = next + 1
  /\ UNCHANGED <<dump, validated, pass, receiving, published, log, reportFile>>

\* Mutant: the report is written and the lines are left to the buffer.
EndValidationUnflushed ==
  /\ validated /\ stage \in {"run", "ending"}
  /\ stage' = "ended" /\ buffer' = <<>>
  /\ reportFile' = IF report.total = 0 THEN reportFile ELSE report
  /\ UNCHANGED <<dump, validated, pass, next, checked, receiving, published, report, written,
                 log, files>>

\* The input is over, at the end of the dump or because the parser failed, or
\* the normalizer is gone: flush and write_report, which leaves the file alone
\* when no record came.
EndValidation ==
  /\ validated /\ stage \in {"run", "ending"}
  /\ stage' = "ended"
  /\ log' = log \o buffer /\ buffer' = <<>>
  /\ reportFile' = IF report.total = 0 THEN reportFile ELSE report
  /\ UNCHANGED <<dump, validated, pass, next, checked, receiving, published, report, written,
                 files>>

-----------------------------------------------------------------------------
(* message_normalizer. The hash of a record is taken to be injective.      *)

Hash(fields) == fields

Publishable(message) ==
  LET shaped == ShapeBy(dump.type, message.data)
  IN  [id |-> message.id, data |-> shaped, sha256 |-> Hash(shaped)]

\* The normalizer's next message: from the validator, or from the parser itself.
Waiting == IF validated THEN checked # <<>> ELSE next <= Len(dump.records)
Received == IF validated THEN Head(checked) ELSE Taken

Receive ==
  /\ receiving /\ Waiting
  /\ IF validated THEN checked' = Tail(checked) /\ UNCHANGED next
                  ELSE next' = next + 1 /\ UNCHANGED checked
  /\ UNCHANGED <<dump, validated, pass, stage, report, written, buffer, onDisk>>

NormalizeRecordStep ==
  /\ Receive
  /\ published' = Append(published, Publishable(Received))
  /\ UNCHANGED receiving

\* The batcher is gone: the message is lost and the normalizer ends.
DownstreamDropped ==
  /\ Receive
  /\ receiving' = FALSE
  /\ UNCHANGED published

-----------------------------------------------------------------------------
\* The process dies, or the file failed: it is published again from its first
\* record, with what the writer had not flushed lost.
Republish ==
  /\ pass < MaxPasses /\ pass' = pass + 1
  /\ next' = 1 /\ stage' = "run" /\ checked' = <<>> /\ receiving' = TRUE /\ published' = <<>>
  /\ report' = NewReport /\ written' = {} /\ buffer' = <<>>
  /\ UNCHANGED <<dump, validated, onDisk>>

Next ==
  \/ SkipRecord \/ CheckRecord \/ EndValidation \/ Spill
  \/ NormalizeRecordStep \/ DownstreamDropped
  \/ Republish

Spec == Init /\ [][Next]_vars

-----------------------------------------------------------------------------
(* What becomes of a record.                                               *)

Skipped(i) == validated /\ Skip(Message(i)) # <<>>

\* Those of the first n records that are left out and those that are passed on: the
\* number of them is the place of the last one among the reports, or the messages.
SkippedUpTo(n) == {i \in 1..n : Skipped(i)}
KeptUpTo(n) == {i \in 1..n : ~ Skipped(i)}

\* The message that the normalizer is sent for a record.
Sent(i) ==
  IF validated THEN [Message(i) EXCEPT !.data = Repaired(Message(i)).fields] ELSE Message(i)

\* The lines that a record is worth, and what is captured of it, if anything.
LinesOf(i) ==
  IF Skipped(i)
    THEN {Line(Message(i).id, Head(Skip(Message(i))).reason, Head(Skip(Message(i))).value)}
    ELSE ToSet(Lines(Message(i).id, Violations(Message(i))))

CaptureOf(i) ==
  CASE Skipped(i) -> {Message(i).data}
    [] ~ Skipped(i) /\ Captures(Violations(Message(i))) -> {Repaired(Message(i)).fields}
    [] OTHER -> {}

\* The first record of its id that is captured.
FirstCaptured(i) ==
  /\ CaptureOf(i) # {}
  /\ \A j \in 1..(i - 1) : Message(j).id = Message(i).id => CaptureOf(j) = {}

\* The violations of the first n records that count under a key.
Counted(key, n) ==
  UNION {{i} \X {k \in DOMAIN Violations(Message(i)) : CountKey(Violations(Message(i))[k]) = key}
           : i \in KeptUpTo(n)}

Keys == UNION {{CountKey(v) : v \in ToSet(Violations(Message(i)))} : i \in 1..Len(dump.records)}

\* What a report has counted under a key.
CountOf(key, counts) == IF key \in DOMAIN counts THEN counts[key] ELSE 0

LinesUnder(lines, rule) == {k \in DOMAIN lines : lines[k].rule = rule}

-----------------------------------------------------------------------------
(* Properties.                                                             *)

\* The records that are not skipped are sent on repaired and shaped, in the order of
\* the dump and each once; until the normalizer is gone, all of them.
PublishedInOrder ==
  /\ Len(published) <= Cardinality(KeptUpTo(next - 1))
  /\ receiving /\ checked = <<>> => Len(published) = Cardinality(KeptUpTo(next - 1))
  /\ \A i \in KeptUpTo(next - 1) :
       Cardinality(KeptUpTo(i)) <= Len(published)
         => published[Cardinality(KeptUpTo(i))] = Publishable(Sent(i))

\* The report tells of every record of this pass, skips in order and violations
\* number by number.
Told(told) ==
  /\ told.total = next - 1
  /\ Len(told.skipped) = Cardinality(SkippedUpTo(next - 1))
  /\ \A i \in SkippedUpTo(next - 1) :
       told.skipped[Cardinality(SkippedUpTo(i))]
         = [id |-> Message(i).id, reason |-> Head(Skip(Message(i))).reason]
  /\ \A key \in Keys : CountOf(key, told.counts) = Cardinality(Counted(key, next - 1))

\* The lines explain every skip and every violation that the report counts.
Explained(lines, told) ==
  /\ \A i \in 1..(next - 1) : LinesOf(i) \subseteq ToSet(lines)
  /\ \A key \in Keys : CountOf(key, told.counts) <= Cardinality(LinesUnder(lines, key[1]))

\* Every id that is to be captured has its file, with the record of this pass that was
\* captured first under it.
CapturedFirst ==
  \A i \in 1..(next - 1) :
    FirstCaptured(i) => /\ Message(i).id \in DOMAIN files
                        /\ files[Message(i).id] \in CaptureOf(i)

\* Whatever crashes, failed sends and half-written passes came before: a record that
\* was taken is sent on, or the report names it, and when a validation has ended, what
\* is on disk bears out everything the report says (mod.rs:642-734, rules.rs:545-892).
NothingUnaccounted ==
  /\ PublishedInOrder
  /\ stage = "ended" /\ next > 1 =>
       Told(reportFile) /\ Explained(log, reportFile) /\ CapturedFirst
=============================================================================
