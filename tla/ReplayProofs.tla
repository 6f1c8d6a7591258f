---------------------------- MODULE ReplayProofs ----------------------------
(***************************************************************************)
(* Proofs about Replay, for files of any length made of any lines.         *)
(***************************************************************************)
EXTENDS Replay, TLAPS

-----------------------------------------------------------------------------
(* The inductive invariant: how far the reader has come, and what it has   *)
(* kept; and, once it has ended, what it ended at.                         *)

AnyLine == UNION {Lines[j] : j \in DOMAIN Lines}
Kept == {Parse(line) : line \in AnyLine}

Types ==
  /\ file \in Seq(AnyLine) /\ tail \in BOOLEAN
  /\ pc \in {"write", "parse", "done"}
  /\ i \in Nat \ {0} /\ i <= Len(file) + 1
  /\ parsed \in Seq(Kept) /\ dropped \in {0, 1}

\* What has been read is what was parsed, but for a last line taken off
Progress ==
  /\ Len(parsed) = i - 1 - dropped
  /\ \A j \in 1..Len(parsed) :
       Outcome(file[j]) = "record" /\ parsed[j] = Parse(file[j])
  /\ dropped = 1 =>
       i = Len(file) + 1 /\ file # <<>> /\ Outcome(file[Len(file)]) = "error"
  /\ pc = "write" => i = 1 /\ dropped = 0

Same == [j \in DOMAIN parsed |-> ToLine(parsed[j])] = SubSeq(file, 1, Len(file) - dropped)
HeadOK == parsed # <<>> /\ parsed[1].type = "meta"
SecondMeta == \E j \in 2..Len(parsed) : parsed[j].type = "meta"

\* The reasons to end, each with its verdict
Judged ==
  \/ file = <<>> /\ verdict = "invalid" /\ parsed = <<>>
  \/ /\ i < Len(file) /\ Outcome(file[i]) = "error" /\ verdict = "corrupt"
  \/ /\ i <= Len(file) /\ Outcome(file[i]) \in {"newer", "raised"} /\ verdict = Outcome(file[i])
  \/ /\ i = Len(file) + 1 /\ ~ HeadOK /\ verdict = "invalid"
  \/ /\ i = Len(file) + 1 /\ HeadOK /\ SecondMeta /\ verdict = "corrupt"
  \/ /\ i = Len(file) + 1 /\ HeadOK /\ ~ SecondMeta /\ Same /\ verdict = "pass"
  \/ /\ i = Len(file) + 1 /\ HeadOK /\ ~ SecondMeta /\ ~ Same /\ verdict = "fail"

IInv == Types /\ Progress /\ (pc = "done" => Judged)

-----------------------------------------------------------------------------
(* Lines and records *)

\* A line is a record, or one of three things it may be instead.
LEMMA Outcomes ==
  ASSUME NEW line
  PROVE  Outcome(line) \in {"record", "error", "newer", "raised"}
BY DEF Outcome

\* A record has the type of its line.
LEMMA ParseKeepsType ==
  ASSUME NEW line
  PROVE  Parse(line).type = line.type
BY DEF Parse, RecordOf

\* A line of a known type that names no field its type does not know, leaves out
\* optional ones only, spells no null for those, and holds what the fields accept, is
\* read and written back as it was.
Canonical(line) ==
  /\ line.type \in Known
  /\ line = Object(line.type, line.fields)
  /\ line.fields = [f \in DOMAIN line.fields |-> line.fields[f]]
  /\ DOMAIN line.fields \subseteq DOMAIN Fields[line.type]
  /\ \A f \in DOMAIN Fields[line.type] \ DOMAIN line.fields :
       f \in Optional /\ "null" \in Fields[line.type][f]
  /\ \A f \in DOMAIN line.fields :
       /\ line.fields[f] \in Fields[line.type][f]
       /\ f \in Optional => line.fields[f] # "null"
  /\ line.type = "meta" => Get(line.fields, "schema_version") = "two"

LEMMA RoundTrip ==
  ASSUME NEW line, Canonical(line)
  PROVE  Outcome(line) = "record" /\ ToLine(Parse(line)) = line
<1> DEFINE rec == RecordOf(line)
<1>1. line.json = "object" /\ line.type \in Known
  BY DEF Canonical, Object
<1>2. rec.type = line.type /\ DOMAIN rec.fields = DOMAIN Fields[line.type]
      /\ \A f \in DOMAIN Fields[line.type] : rec.fields[f] = Get(line.fields, f)
  BY DEF RecordOf
<1>3. \A f \in DOMAIN Fields[line.type] : rec.fields[f] \in Fields[line.type][f]
  BY <1>2 DEF Canonical, Get
<1>4. Outcome(line) = "record"
  <2>1. line.json \notin {"undecodable", "blank", "syntax", "value", "untyped"}
    BY <1>1
  <2>2. line.type \in Known
    BY <1>1
  <2>3. ~ (line.type = "meta" /\ Get(line.fields, "schema_version") \in Positive \ {"two"})
    BY DEF Canonical
  <2> QED
    BY <2>1, <2>2, <2>3, <1>3 DEF Outcome
<1> DEFINE kept == {g \in DOMAIN rec.fields : ~ (g \in Optional /\ rec.fields[g] = "null")}
<1>5. kept = DOMAIN line.fields
  BY <1>2 DEF Canonical, Get
<1>6. [f \in kept |-> rec.fields[f]] = line.fields
  <2>1. \A f \in DOMAIN line.fields : rec.fields[f] = line.fields[f]
    BY <1>2 DEF Canonical, Get
  <2>2. line.fields = [f \in DOMAIN line.fields |-> line.fields[f]]
    BY DEF Canonical
  <2> QED
    BY <1>5, <2>1, <2>2
<1>7. ToLine(Parse(line)) = Object(line.type, [f \in kept |-> rec.fields[f]])
  BY <1>1, <1>2 DEF ToLine, Parse
<1>8. line = Object(line.type, line.fields)
  BY DEF Canonical
<1> QED
  BY <1>4, <1>6, <1>7, <1>8

-----------------------------------------------------------------------------
(* The lines that the two programs write                                   *)

\* The fields that a marked line has, with its trigger span or without
LEMMA MarkedFields ==
  ASSUME NEW type, NEW fields, NEW trig \in BOOLEAN,
         fields = [f \in DOMAIN fields |-> fields[f]], "trigger_span" \notin DOMAIN fields
  PROVE  LET line == Marked(type, fields, trig)
         IN  /\ line = Object(type, line.fields) /\ line.type = type
             /\ DOMAIN line.fields =
                  DOMAIN fields \cup (IF trig THEN {"trigger_span"} ELSE {})
             /\ line.fields = [f \in DOMAIN line.fields |-> line.fields[f]]
             /\ \A f \in DOMAIN fields : line.fields[f] = fields[f]
             /\ trig => line.fields["trigger_span"] = "span"
BY DEF Marked, Object

\* What the capture box writes is canonical.
LEMMA BoxCanonical ==
  ASSUME NEW line \in BoxLines
  PROVE  Canonical(line)
<1>1. CASE line \in
  {Object("meta", [schema_version |-> "two", session_id |-> "text", start_iso |-> "text",
                   kit_profile_id |-> kit, user_id |-> "text", calibration_offset_ms |-> cal])
     : kit \in {"text", "null"}, cal \in {"null", "neg", "zero", "thousand"}}
  BY <1>1 DEF Canonical, Object, Known, Fields, MetaFields, Get, Optional, Text,
              Null, Number, Ints
<1>2. CASE line \in
  {Object("event", [t |-> "ten", note |-> n, velocity |-> "hundred", channel |-> c])
          : n \in {"zero", "hundred"}, c \in Nibble}
  BY <1>2 DEF Canonical, Object, Known, Fields, EventFields, Optional, Null, Nibble,
              NonNeg, SevenBit, Ints
<1>3. CASE line = Object("ctrl", [t |-> "ten", msg |-> "msg"])
  BY <1>3 DEF Canonical, Object, Known, Fields, CtrlFields, Optional, NonNeg, Ints
<1>4. CASE line \in
  {Marked("grid_start", [t |-> "ten", bpm |-> b, subdiv |-> "ten", downbeat_t |-> d], trig)
          : b \in {"hundred", "thousand"}, d \in {"zero", "thousand"}, trig \in BOOLEAN}
  <2>1. PICK b \in {"hundred", "thousand"}, d \in {"zero", "thousand"}, trig \in BOOLEAN :
          line = Marked("grid_start",
                        [t |-> "ten", bpm |-> b, subdiv |-> "ten", downbeat_t |-> d], trig)
    BY <1>4
  <2> DEFINE fields == [t |-> "ten", bpm |-> b, subdiv |-> "ten", downbeat_t |-> d]
  <2>2. /\ line = Object("grid_start", line.fields) /\ line.type = "grid_start"
        /\ DOMAIN line.fields = DOMAIN fields \cup (IF trig THEN {"trigger_span"} ELSE {})
        /\ line.fields = [f \in DOMAIN line.fields |-> line.fields[f]]
        /\ \A f \in DOMAIN fields : line.fields[f] = fields[f]
        /\ trig => line.fields["trigger_span"] = "span"
    BY <2>1, MarkedFields
  <2> QED
    BY <2>2 DEF Canonical, Known, Fields, GridFields, Optional, Null, Bpm, Positive,
                NonNeg, Ints
<1>5. CASE line \in {Marked(type, [t |-> "ten"], trig)
          : type \in {"grid_end", "bookmark", "enroll_end"}, trig \in BOOLEAN}
  <2>1. PICK type \in {"grid_end", "bookmark", "enroll_end"}, trig \in BOOLEAN :
          line = Marked(type, [t |-> "ten"], trig)
    BY <1>5
  <2> DEFINE fields == [t |-> "ten"]
  <2>2. /\ line = Object(type, line.fields) /\ line.type = type
        /\ DOMAIN line.fields = DOMAIN fields \cup (IF trig THEN {"trigger_span"} ELSE {})
        /\ line.fields = [f \in DOMAIN line.fields |-> line.fields[f]]
        /\ \A f \in DOMAIN fields : line.fields[f] = fields[f]
        /\ trig => line.fields["trigger_span"] = "span"
    BY <2>1, MarkedFields
  <2>3. Fields[type] = SpanFields /\ type \in Known /\ type # "meta"
    BY DEF Fields, Known
  <2> QED
    BY <2>2, <2>3 DEF Canonical, SpanFields, Optional, Null, NonNeg, Ints
<1>6. CASE line \in
  {Marked("enroll_start", [t |-> "ten", profile_ref |-> ref, bpm |-> "hundred",
                                subdiv |-> "two", downbeat_t |-> "ten"], trig)
          : ref \in {"text", "null"}, trig \in BOOLEAN}
  <2>1. PICK ref \in {"text", "null"}, trig \in BOOLEAN :
          line = Marked("enroll_start", [t |-> "ten", profile_ref |-> ref, bpm |-> "hundred",
                                         subdiv |-> "two", downbeat_t |-> "ten"], trig)
    BY <1>6
  <2> DEFINE fields == [t |-> "ten", profile_ref |-> ref, bpm |-> "hundred",
                        subdiv |-> "two", downbeat_t |-> "ten"]
  <2>2. /\ line = Object("enroll_start", line.fields) /\ line.type = "enroll_start"
        /\ DOMAIN line.fields = DOMAIN fields \cup (IF trig THEN {"trigger_span"} ELSE {})
        /\ line.fields = [f \in DOMAIN line.fields |-> line.fields[f]]
        /\ \A f \in DOMAIN fields : line.fields[f] = fields[f]
        /\ trig => line.fields["trigger_span"] = "span"
    BY <2>1, MarkedFields
  <2> QED
    BY <2>2 DEF Canonical, Known, Fields, EnrollFields, Optional, Null, Text, Bpm,
                Positive, NonNeg, Ints
<1>7. CASE line = Object("session_end", [t |-> "thousand"])
  BY <1>7 DEF Canonical, Object, Known, Fields, EndFields, Optional, NonNeg, Ints
<1> QED
  BY <1>1, <1>2, <1>3, <1>4, <1>5, <1>6, <1>7 DEF BoxLines

\* A record without an empty optional field is written as the object of its fields.
LEMMA WrittenWhole ==
  ASSUME NEW rec, rec.type \in Known,
         rec.fields = [f \in DOMAIN rec.fields |-> rec.fields[f]],
         \A f \in DOMAIN rec.fields : f \in Optional => rec.fields[f] # "null"
  PROVE  ToLine(rec) = Object(rec.type, rec.fields)
BY DEF ToLine, Object

\* What the host writes is canonical.
LEMMA HostCanonical ==
  ASSUME NEW rec \in HostRecords
  PROVE  Canonical(ToLine(rec))
<1>1. CASE rec \in {[type |-> "meta", fields |->
      [schema_version |-> "two", session_id |-> "text", start_iso |-> "text",
       kit_profile_id |-> "text", user_id |-> "text", calibration_offset_ms |-> cal]]
     : cal \in {"null", "half"}}
  <2>1. ToLine(rec) = Object(rec.type, rec.fields)
    BY <1>1, WrittenWhole DEF Known, Fields, Optional
  <2> QED
    BY <1>1, <2>1 DEF Canonical, Object, Known, Fields, MetaFields, Get, Optional, Text, Null,
                      Number, Ints
<1>2. CASE rec \in {[type |-> "event", fields |->
           [t |-> t, note |-> "hundred", velocity |-> v, channel |-> c]]
          : t \in {"zero", "thousand"}, v \in {"two", "hundred"}, c \in {"zero", "ten"}}
  <2>1. ToLine(rec) = Object(rec.type, rec.fields)
    BY <1>2, WrittenWhole DEF Known, Fields, Optional
  <2> QED
    BY <1>2, <2>1 DEF Canonical, Object, Known, Fields, EventFields, Optional, Null, Nibble,
                      NonNeg, SevenBit, Ints
<1>3. CASE rec \in {[type |-> "ctrl", fields |-> [t |-> "ten", msg |-> "msg"]],
                    [type |-> "session_end", fields |-> [t |-> "thousand"]]}
  <2>1. ToLine(rec) = Object(rec.type, rec.fields)
    BY <1>3, WrittenWhole DEF Known, Fields, Optional
  <2> QED
    BY <1>3, <2>1 DEF Canonical, Object, Known, Fields, CtrlFields, EndFields, Optional,
                      NonNeg, Ints
<1> QED
  BY <1>1, <1>2, <1>3 DEF HostRecords

\* Either program's lines survive the reader and the writer of the brain.
LEMMA WrittenSurvive ==
  ASSUME NEW line \in Written
  PROVE  Outcome(line) = "record" /\ ToLine(Parse(line)) = line
BY BoxCanonical, HostCanonical, RoundTrip DEF Written

-----------------------------------------------------------------------------
(* The invariant holds                                                     *)

\* The bounds of the lines as the model reads them
LEMMA LinesAreSets ==
  /\ Len(Lines) \in Nat /\ DOMAIN Lines = 1..Len(Lines)
  /\ \A k \in 1..Len(Lines) : Lines[k] \subseteq AnyLine
<1>1. Len(Lines) \in Nat /\ DOMAIN Lines = 1..Len(Lines)
  BY ReplayAssumption DEF AnyLine
<1>2. \A k \in DOMAIN Lines : Lines[k] \subseteq AnyLine
  BY DEF AnyLine
<1>3. \A k \in 1..Len(Lines) : k \in DOMAIN Lines
  BY <1>1
<1> QED
  BY <1>1, <1>2, <1>3

LEMMA Initially == Init => IInv
<1> SUFFICES ASSUME Init PROVE IInv
  OBVIOUS
<1>1. Len(<<>>) = 0 /\ <<>> \in Seq(AnyLine) /\ <<>> \in Seq(Kept)
  <2>1. \A S : <<>> \in Seq(S)
    OBVIOUS
  <2> QED
    BY <2>1
<1>2. Types
  <2>1. file \in Seq(AnyLine) /\ parsed \in Seq(Kept) /\ Len(file) = 0
    BY <1>1 DEF Init
  <2>2. tail \in BOOLEAN /\ pc \in {"write", "parse", "done"} /\ dropped \in {0, 1} /\ i = 1
    BY DEF Init
  <2> QED
    BY <2>1, <2>2 DEF Types
<1>3. Progress
  BY <1>1 DEF Init, Progress
<1> QED
  BY <1>2, <1>3 DEF Init, IInv

LEMMA AddLineKeeps == IInv /\ AddLine => IInv'
<1> SUFFICES ASSUME IInv, AddLine PROVE IInv'
  OBVIOUS
<1>1. PICK line \in Lines[Len(file) + 1] : file' = Append(file, line)
  BY DEF AddLine
<1>2. line \in AnyLine
  BY LinesAreSets DEF AddLine, IInv, Types
<1>3. Types'
  BY <1>1, <1>2 DEF AddLine, IInv, Types
<1>4. Progress'
  BY <1>1 DEF AddLine, IInv, Types, Progress
<1> QED
  BY <1>3, <1>4 DEF AddLine, IInv

LEMMA TearKeeps == IInv /\ Tear => IInv'
BY DEF Tear, IInv, Types, Progress

LEMMA OpenKeeps == IInv /\ Open => IInv'
<1> SUFFICES ASSUME IInv, Open PROVE IInv'
  OBVIOUS
<1>1. Types' /\ Progress'
  BY DEF Open, End, IInv, Types, Progress
<1>2. pc' = "done" => Judged'
  BY DEF Open, End, IInv, Types, Progress, Judged
<1> QED
  BY <1>1, <1>2 DEF IInv

LEMMA ParseLineKeeps == IInv /\ ParseLine => IInv'
<1> SUFFICES ASSUME IInv, ParseLine PROVE IInv'
  OBVIOUS
<1>1. file[i] \in AnyLine /\ Parse(file[i]) \in Kept
  BY DEF ParseLine, IInv, Types, Kept
<1>2. dropped = 0
  BY DEF ParseLine, IInv, Types, Progress
<1>3. Types'
  BY <1>1, <1>2 DEF ParseLine, IInv, Types
<1>4. Progress'
  <2>1. /\ Len(parsed) = i - 1 /\ parsed' = Append(parsed, Parse(file[i]))
        /\ Len(parsed') = i /\ i' = i + 1 /\ dropped' = 0 /\ file' = file
    BY <1>2 DEF ParseLine, IInv, Types, Progress
  <2>2. \A j \in 1..Len(parsed') :
          Outcome(file[j]) = "record" /\ parsed'[j] = Parse(file[j])
    BY <2>1 DEF ParseLine, IInv, Types, Progress
  <2> QED
    BY <2>1, <2>2 DEF ParseLine, IInv, Types, Progress
<1> QED
  BY <1>3, <1>4 DEF ParseLine, IInv

LEMMA ParseFailsKeeps == IInv /\ ParseFails => IInv'
<1> SUFFICES ASSUME IInv, ParseFails PROVE IInv'
  OBVIOUS
<1>1. dropped = 0
  BY DEF ParseFails, IInv, Types, Progress
<1>2. Outcome(file[i]) \in {"error", "newer", "raised"}
  BY Outcomes DEF ParseFails
<1>3. CASE Outcome(file[i]) # "error"
  BY <1>2, <1>3 DEF ParseFails, End, IInv, Types, Progress, Judged
<1>4. CASE Outcome(file[i]) = "error" /\ Last
  <2>1. /\ dropped' = 1 /\ i' = i + 1 /\ i = Len(file)
        /\ UNCHANGED <<file, tail, parsed, pc, verdict>> /\ pc = "parse"
    BY <1>1, <1>4 DEF ParseFails, Last
  <2> QED
    BY <1>1, <1>4, <2>1 DEF IInv, Types, Progress
<1>5. CASE Outcome(file[i]) = "error" /\ ~ Last
  <2>1. /\ pc' = "done" /\ verdict' = "corrupt" /\ i < Len(file)
        /\ UNCHANGED <<file, tail, parsed, i, dropped>>
    BY <1>5 DEF ParseFails, Last, End, IInv, Types
  <2> QED
    BY <1>5, <2>1 DEF IInv, Types, Progress, Judged
<1> QED
  BY <1>3, <1>4, <1>5

LEMMA CompareKeeps == IInv /\ Compare => IInv'
<1> SUFFICES ASSUME IInv, Compare PROVE IInv'
  OBVIOUS
<1>1. /\ pc' = "done" /\ i = Len(file) + 1
      /\ UNCHANGED <<file, tail, i, parsed, dropped>>
  BY DEF Compare, End, IInv, Types
<1>2. Types' /\ Progress'
  BY <1>1 DEF IInv, Types, Progress
<1>3. Same' = Same /\ HeadOK' = HeadOK /\ SecondMeta' = SecondMeta
  BY <1>1 DEF Same, HeadOK, SecondMeta
<1>4. CASE ~ HeadOK
  <2>1. verdict' = "invalid"
    BY <1>4 DEF Compare, End, HeadOK
  <2> QED
    BY <1>1, <1>2, <1>3, <1>4, <2>1 DEF IInv, Judged
<1>5. CASE HeadOK /\ SecondMeta
  <2>1. verdict' = "corrupt"
    BY <1>5 DEF Compare, End, HeadOK, SecondMeta
  <2> QED
    BY <1>1, <1>2, <1>3, <1>5, <2>1 DEF IInv, Judged
<1>6. CASE HeadOK /\ ~ SecondMeta
  <2>1. verdict' = IF Same THEN "pass" ELSE "fail"
    BY <1>6 DEF Compare, End, HeadOK, SecondMeta, Same
  <2> QED
    BY <1>1, <1>2, <1>3, <1>6, <2>1 DEF IInv, Judged
<1> QED
  BY <1>4, <1>5, <1>6

\* Whatever the next step is
LEMMA StepKeeps == IInv /\ [Next]_vars => IInv'
<1>1. ASSUME IInv, UNCHANGED vars PROVE IInv'
  BY <1>1 DEF vars, IInv, Types, Progress, Judged, Same, HeadOK, SecondMeta
<1> QED
  BY <1>1, AddLineKeeps, TearKeeps, OpenKeeps, ParseLineKeeps, ParseFailsKeeps,
     CompareKeeps DEF Next

\* At any moment the reader has parsed the lines before i, each as its record, and has
\* taken off at most the last line; a verdict has its reason in the file.
THEOREM Inductive == Spec => []IInv
BY Initially, StepKeeps, PTL DEF Spec

-----------------------------------------------------------------------------
(* The gate                                                                *)

\* Where every line is one that the programs write, and the first alone is a meta
\* line, there is nothing to refuse.
LEMMA GoodFilesPass ==
  ASSUME IInv, pc = "done", file # <<>>,
         \A j \in DOMAIN file : file[j] \in Written /\ (file[j].type = "meta" <=> j = 1)
  PROVE  verdict = "pass" /\ dropped = 0
<1>1. /\ Len(file) \in Nat \ {0} /\ DOMAIN file = 1..Len(file)
      /\ Len(parsed) \in Nat /\ DOMAIN parsed = 1..Len(parsed)
      /\ i \in Nat \ {0} /\ i <= Len(file) + 1
  BY DEF IInv, Types
<1>2. \A j \in 1..Len(file) : Outcome(file[j]) = "record" /\ ToLine(Parse(file[j])) = file[j]
  BY <1>1, WrittenSurvive
<1>3. dropped = 0
  BY <1>1, <1>2 DEF IInv, Types, Progress
<1>4. i = Len(file) + 1
  BY <1>1, <1>2 DEF IInv, Judged
<1>5. Len(parsed) = Len(file)
  BY <1>1, <1>3, <1>4 DEF IInv, Progress
<1>6. \A j \in 1..Len(file) : parsed[j] = Parse(file[j]) /\ parsed[j].type = file[j].type
  BY <1>5, ParseKeepsType DEF IInv, Progress
<1>7. HeadOK /\ ~ SecondMeta
  BY <1>1, <1>5, <1>6 DEF HeadOK, SecondMeta
<1>8. Same
  <2>1. SubSeq(file, 1, Len(file) - dropped) = file
    BY <1>1, <1>3 DEF IInv, Types
  <2>2. [j \in DOMAIN parsed |-> ToLine(parsed[j])] = [j \in 1..Len(file) |-> file[j]]
    BY <1>1, <1>2, <1>5, <1>6
  <2>3. file = [j \in 1..Len(file) |-> file[j]]
    BY <1>1 DEF IInv, Types
  <2> QED
    BY <2>1, <2>2, <2>3 DEF Same
<1> QED
  BY <1>1, <1>2, <1>3, <1>4, <1>7, <1>8 DEF IInv, Judged

\* What passes has been written back line for line.
LEMMA PassMeansSame ==
  ASSUME IInv, pc = "done", verdict = "pass"
  PROVE  \A j \in DOMAIN parsed :
           /\ j \in DOMAIN file /\ Outcome(file[j]) = "record"
           /\ parsed[j] = Parse(file[j]) /\ ToLine(parsed[j]) = file[j]
<1>1. i = Len(file) + 1 /\ Same
  BY DEF IInv, Judged
<1>2. /\ Len(file) \in Nat /\ DOMAIN file = 1..Len(file)
      /\ Len(parsed) \in Nat /\ DOMAIN parsed = 1..Len(parsed)
      /\ dropped \in {0, 1} /\ Len(parsed) = Len(file) - dropped
  BY <1>1 DEF IInv, Types, Progress
<1>3. \A j \in 1..Len(parsed) : SubSeq(file, 1, Len(file) - dropped)[j] = file[j]
  BY <1>2 DEF IInv, Types
<1> QED
  BY <1>1, <1>2, <1>3 DEF Same, IInv, Progress

\* A line that comes back the same has had no field of a known record left out.
LEMMA NothingUnseen ==
  ASSUME NEW line, Outcome(line) = "record", ToLine(Parse(line)) = line
  PROVE  /\ line.type \in Known => DOMAIN line.fields \subseteq DOMAIN Parse(line).fields
         /\ \A f \in DOMAIN line.fields : Parse(line).fields[f] = line.fields[f]
<1>1. CASE line.type \notin Known
  BY <1>1 DEF Parse
<1>2. CASE line.type \in Known
  <2> DEFINE rec == RecordOf(line)
             kept == {g \in DOMAIN rec.fields : ~ (g \in Optional /\ rec.fields[g] = "null")}
  <2>1. Parse(line) = rec /\ rec.type = line.type
    BY <1>2 DEF Parse, RecordOf
  <2>2. line.fields = [f \in kept |-> rec.fields[f]]
    BY <1>2, <2>1 DEF ToLine, Object
  <2> QED
    BY <2>1, <2>2
<1> QED
  BY <1>1, <1>2

\* The replay gate tells the truth: what either program writes passes whole, and what
\* passes holds no field of a known record that the analysis does not see.
THEOREM GateTells == Spec => []ReplayTells
<1>1. ASSUME IInv PROVE ReplayTells
  <2>1. ASSUME pc = "done", verdict = "pass", NEW j \in DOMAIN parsed
        PROVE  /\ file[j].type \in Known =>
                    DOMAIN file[j].fields \subseteq DOMAIN parsed[j].fields
               /\ \A f \in DOMAIN file[j].fields : parsed[j].fields[f] = file[j].fields[f]
    BY <1>1, <2>1, PassMeansSame, NothingUnseen
  <2> QED
    BY <1>1, <2>1, GoodFilesPass DEF ReplayTells
<1> QED
  BY <1>1, Inductive, PTL

-----------------------------------------------------------------------------
(* The reader of the other modules                                         *)

LineKind(line) ==
  CASE Outcome(line) = "error" -> "junk"
    [] Outcome(line) = "record" /\ line.type = "meta" -> "meta"
    [] OTHER -> "event"

Complete == [j \in 1..Len(file) |-> [kind |-> LineKind(file[j])]]

\* The torn tail is the first thing to go.
LEMMA ImageComplete ==
  ASSUME Types
  PROVE  Reader!Complete(Image) = Complete
<1> DEFINE lines == [j \in DOMAIN file |-> [kind |-> LineKind(file[j])]]
           K == {"junk", "meta", "event"}
<1>1. Len(file) \in Nat /\ DOMAIN file = 1..Len(file)
  BY DEF Types
<1>2. \A line : LineKind(line) \in K
  BY DEF LineKind
<1>3. lines \in Seq([kind : K]) /\ Len(lines) = Len(file) /\ lines = Complete
  BY <1>1, <1>2 DEF Complete
<1>4. Image = IF tail THEN Append(lines, [kind |-> "part"]) ELSE lines
  BY DEF Image, LineKind
<1> HIDE DEF lines
<1>5. CASE tail
  <2> DEFINE all == Append(lines, [kind |-> "part"])
  <2>1. all # <<>> /\ Len(all) = Len(lines) + 1 /\ all[Len(all)].kind = "part"
    BY <1>3
  <2>2. SubSeq(all, 1, Len(all) - 1) = lines
    BY <1>3, <2>1
  <2> QED
    BY <1>3, <1>4, <1>5, <2>1, <2>2 DEF Reader!Complete
<1>6. CASE ~ tail
  <2>1. ASSUME lines # <<>> PROVE lines[Len(lines)].kind # "part"
    <3>1. Len(lines) \in 1..Len(lines)
      BY <1>3, <2>1
    <3>2. lines[Len(lines)] = [kind |-> LineKind(file[Len(lines)])]
      BY <1>3, <3>1 DEF Complete
    <3> QED
      BY <1>2, <3>2
  <2> QED
    BY <1>3, <1>4, <1>6, <2>1 DEF Reader!Complete
<1> QED
  BY <1>5, <1>6

\* A last line that does not parse is the next.
LEMMA ImageParsed ==
  ASSUME Types
  PROVE  Reader!Parsed(Image) =
           [j \in 1..(Len(file)
                      - (IF file # <<>> /\ Outcome(file[Len(file)]) = "error" THEN 1 ELSE 0))
              |-> [kind |-> LineKind(file[j])]]
<1> DEFINE K == {"junk", "meta", "event"}
<1>1. Len(file) \in Nat /\ DOMAIN file = 1..Len(file) /\ (file = <<>> <=> Len(file) = 0)
  BY DEF Types
<1>2. \A line : LineKind(line) \in K /\ (LineKind(line) = "junk" <=> Outcome(line) = "error")
  BY DEF LineKind
<1>3. /\ Complete \in Seq([kind : K]) /\ Len(Complete) = Len(file)
      /\ \A j \in 1..Len(file) : Complete[j].kind = LineKind(file[j])
  BY <1>1, <1>2 DEF Complete
<1>4. Reader!Parsed(Image) =
        IF Complete # <<>> /\ Complete[Len(Complete)].kind = "junk"
          THEN SubSeq(Complete, 1, Len(Complete) - 1) ELSE Complete
  BY ImageComplete DEF Reader!Parsed
<1>5. CASE file # <<>> /\ Outcome(file[Len(file)]) = "error"
  <2>1. Complete # <<>> /\ Complete[Len(Complete)].kind = "junk"
    BY <1>1, <1>2, <1>3, <1>5
  <2>2. SubSeq(Complete, 1, Len(Complete) - 1)
          = [j \in 1..(Len(file) - 1) |-> [kind |-> LineKind(file[j])]]
    BY <1>1, <1>3, <1>5 DEF Complete
  <2> QED
    BY <1>4, <1>5, <2>1, <2>2
<1>6. CASE ~ (file # <<>> /\ Outcome(file[Len(file)]) = "error")
  <2>1. ~ (Complete # <<>> /\ Complete[Len(Complete)].kind = "junk")
    BY <1>1, <1>2, <1>3, <1>6
  <2>2. Len(file) - 0 = Len(file)
    BY <1>1
  <2> QED
    BY <1>4, <1>6, <2>1, <2>2 DEF Complete
<1> QED
  BY <1>5, <1>6

\* The verdict that LogReader gives, in terms of what has been parsed
LEMMA SameVerdict ==
  ASSUME IInv, pc = "done", Readable
  PROVE  /\ Reader!Verdict(Image) = IF verdict \in {"pass", "fail"} THEN "ok" ELSE verdict
         /\ verdict \in {"pass", "fail"} => Len(parsed) = Len(Reader!Parsed(Image))
<1> DEFINE Agrees ==
             /\ Reader!Verdict(Image) = IF verdict \in {"pass", "fail"} THEN "ok" ELSE verdict
             /\ verdict \in {"pass", "fail"} => Len(parsed) = Len(Reader!Parsed(Image))
<1> SUFFICES Agrees
  OBVIOUS
<1> DEFINE torn == file # <<>> /\ Outcome(file[Len(file)]) = "error"
           n == Len(file) - (IF torn THEN 1 ELSE 0)
           seen == [j \in 1..n |-> [kind |-> LineKind(file[j])]]
<1>1. Reader!Parsed(Image) = seen
  BY ImageParsed DEF IInv
<1>2. /\ Len(file) \in Nat /\ DOMAIN file = 1..Len(file) /\ (file = <<>> <=> Len(file) = 0)
      /\ n \in Nat /\ n <= Len(file)
      /\ i \in Nat \ {0} /\ i <= Len(file) + 1 /\ dropped \in {0, 1}
      /\ Len(parsed) = i - 1 - dropped /\ Len(parsed) \in Nat
      /\ DOMAIN parsed = 1..Len(parsed) /\ (parsed = <<>> <=> Len(parsed) = 0)
  BY DEF IInv, Types, Progress
<1>3. DOMAIN seen = 1..n /\ Len(seen) = n /\ (seen = <<>> <=> n = 0)
      /\ \A j \in 1..n : seen[j].kind = LineKind(file[j])
  BY <1>2
<1>4. \A j \in 1..n : /\ seen[j].kind = "junk" <=> Outcome(file[j]) = "error"
                      /\ seen[j].kind = "meta" <=>
                           Outcome(file[j]) = "record" /\ file[j].type = "meta"
  BY <1>3 DEF LineKind
<1>5. Reader!Verdict(Image) =
        IF \E j \in 1..n : seen[j].kind = "junk" THEN "corrupt"
        ELSE IF n = 0 \/ seen[1].kind # "meta" THEN "invalid"
        ELSE IF \E j \in 2..n : seen[j].kind = "meta" THEN "corrupt"
        ELSE "ok"
  <2> HIDE DEF seen
  <2> QED
    BY <1>1, <1>3 DEF Reader!Verdict
<1>10. /\ Len(file) \in Nat /\ i \in Nat /\ i <= Len(file) + 1 /\ dropped \in {0, 1}
       /\ Len(parsed) = i - 1 - dropped /\ DOMAIN file = 1..Len(file)
       /\ file # <<>> => Len(file) # 0
  BY <1>2
<1>11. n = IF torn THEN Len(file) - 1 ELSE Len(file)
  BY <1>10
<1> HIDE DEF seen, n, torn
<1>6. CASE file = <<>>
  <2>1. n = 0
    BY <1>2, <1>6
  <2>2. ~ HeadOK
    BY <1>2, <1>6 DEF HeadOK, IInv, Progress
  <2>3. verdict = "invalid"
    BY <1>2, <1>6, <2>2 DEF IInv, Judged
  <2> QED
    BY <1>2, <1>5, <2>1, <2>3
<1>7. CASE i < Len(file)
  <2>1. Outcome(file[i]) = "error" /\ verdict = "corrupt"
    BY <1>2, <1>7 DEF IInv, Judged, Readable
  <2>2. i \in 1..n
    BY <1>2, <1>7 DEF n
  <2> QED
    BY <1>4, <1>5, <2>1, <2>2
<1>8. CASE file # <<>> /\ i = Len(file) + 1
  <2>1. \A j \in 1..Len(parsed) :
          Outcome(file[j]) = "record" /\ parsed[j].type = file[j].type
    BY ParseKeepsType DEF IInv, Progress
  <2>2. Len(parsed) = n
    <3>1. CASE dropped = 1
      BY <1>8, <1>10, <1>11, <3>1 DEF IInv, Progress, torn
    <3>2. CASE dropped = 0
      <4>1. Len(parsed) = Len(file)
        BY <1>8, <1>10, <3>2
      <4>2. Len(file) \in 1..Len(parsed)
        BY <1>8, <1>10, <4>1
      <4>3. Outcome(file[Len(file)]) = "record"
        BY <2>1, <4>2
      <4>4. ~ torn
        BY <4>3 DEF torn
      <4> QED
        BY <1>11, <4>1, <4>4
    <3> QED
      BY <1>2, <3>1, <3>2
  <2>3. \A j \in 1..n : /\ seen[j].kind # "junk"
                        /\ seen[j].kind = "meta" <=> parsed[j].type = "meta"
    BY <1>4, <2>1, <2>2
  <2>4. HeadOK <=> n # 0 /\ seen[1].kind = "meta"
    BY <1>2, <2>2, <2>3 DEF HeadOK
  <2>5. SecondMeta <=> \E j \in 2..n : seen[j].kind = "meta"
    BY <1>2, <2>2, <2>3 DEF SecondMeta
  <2>6. \/ ~ HeadOK /\ verdict = "invalid"
        \/ HeadOK /\ SecondMeta /\ verdict = "corrupt"
        \/ HeadOK /\ ~ SecondMeta /\ verdict \in {"pass", "fail"}
    <3>1. ~ (i < Len(file)) /\ ~ (i <= Len(file)) /\ file # <<>>
      BY <1>8, <1>10
    <3> QED
      BY <3>1 DEF IInv, Judged
  <2>7. CASE ~ HeadOK
    BY <1>5, <2>3, <2>4, <2>6, <2>7
  <2>8. CASE HeadOK /\ SecondMeta
    BY <1>5, <2>3, <2>4, <2>5, <2>6, <2>8
  <2>9. CASE HeadOK /\ ~ SecondMeta
    BY <1>1, <1>3, <1>5, <2>2, <2>3, <2>4, <2>5, <2>6, <2>9
  <2> QED
    BY <2>7, <2>8, <2>9
<1>9. CASE file # <<>> /\ i = Len(file)
  <2>1. ~ (i < Len(file)) /\ i # Len(file) + 1 /\ file # <<>>
    BY <1>9, <1>10
  <2> i \in DOMAIN file
    BY <1>9, <1>10
  <2>2. Outcome(file[i]) \in {"record", "error"}
    BY <2>1 DEF Readable
  <2>3. Outcome(file[i]) \in {"newer", "raised"}
    BY <2>1 DEF IInv, Judged
  <2> QED
    BY <2>2, <2>3
<1>12. i < Len(file) \/ i = Len(file) \/ i = Len(file) + 1
  <2>1. Len(file) \in Nat /\ i \in Nat /\ i <= Len(file) + 1
    BY <1>10
  <2> QED
    BY <2>1
<1> HIDE DEF Agrees
<1> QED
  BY <1>6, <1>7, <1>8, <1>9, <1>12

\* Wherever every line is a record or does not parse, the reader comes to the verdict of
\* LogReader, and leaves out exactly what LogReader leaves out.
THEOREM GateAgrees == Spec => []ReaderAgrees
<1>1. ASSUME IInv PROVE ReaderAgrees
  BY <1>1, SameVerdict DEF ReaderAgrees
<1> QED
  BY <1>1, Inductive, PTL
=============================================================================
