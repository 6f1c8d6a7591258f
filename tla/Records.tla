------------------------------ MODULE Records ------------------------------
(***************************************************************************)
(* The records of a session log and their lines: engine/records.py, and    *)
(* the firmware's serialize.cpp, which must write the same lines.          *)
(*                                                                         *)
(* A line is what the reader can tell of it: its "json" is "object", or    *)
(* what else it is; "fields" maps each field of the object to the class of *)
(* its value; "spelled" says that the object is in canonical spelling (key *)
(* order, separators, numbers), "padded" that it stands between blanks or  *)
(* carriage returns.  A value is one of the classes below.                 *)
(***************************************************************************)
EXTENDS Naturals

Ints == {"neg", "zero", "two", "ten", "hundred", "thousand"}  \* < 0, 0, 1..2, 3..15, 16..127, more
NonNeg == Ints \ {"neg"}
Positive == NonNeg \ {"zero"}
SevenBit == NonNeg \ {"thousand"}
Nibble == {"zero", "two", "ten"}
Number == Ints \cup {"half"}                                   \* "half": a float, above 0
Bpm == Positive \cup {"half"}
Text == {"text"}                                               \* not empty
Null == {"null"}                                               \* also an absent field: obj.get
Values == Number \cup Text \cup Null
            \cup {"true", "nan", "empty", "span", "pair", "msg", "bare"}

\* What __post_init__ accepts of each field.  "span" is [t0, t1] with 0 <= t0 <= t1,
\* "msg" an object with a type, no time and flat values; "pair" and "bare" are a
\* list and an object that are not.
MetaFields == [schema_version |-> {"two"}, session_id |-> Text, start_iso |-> Text,
               kit_profile_id |-> Text \cup Null, user_id |-> Text,
               calibration_offset_ms |-> Number \cup Null]
EventFields == [t |-> NonNeg, note |-> SevenBit, velocity |-> SevenBit, channel |-> Nibble \cup Null]
CtrlFields == [t |-> NonNeg, msg |-> {"msg"}]
SpanFields == [t |-> NonNeg, trigger_span |-> {"span"} \cup Null]
GridFields == [t |-> NonNeg, bpm |-> Bpm, subdiv |-> Positive, downbeat_t |-> NonNeg,
               trigger_span |-> {"span"} \cup Null]

\* mutant: schema 1, in which an enrollment had a name
EnrollFieldsV1 == [t |-> NonNeg, profile_ref |-> Text, bpm |-> Bpm, subdiv |-> Positive,
                   downbeat_t |-> NonNeg, trigger_span |-> {"span"} \cup Null]

EnrollFields == [t |-> NonNeg, profile_ref |-> Text \cup Null, bpm |-> Bpm, subdiv |-> Positive,
                 downbeat_t |-> NonNeg, trigger_span |-> {"span"} \cup Null]
EndFields == [t |-> NonNeg]

Fields == [meta |-> MetaFields, event |-> EventFields, ctrl |-> CtrlFields,
           grid_start |-> GridFields, grid_end |-> SpanFields, bookmark |-> SpanFields,
           enroll_start |-> EnrollFields, enroll_end |-> SpanFields, session_end |-> EndFields]
Known == DOMAIN Fields

Object(type, fields) ==
  [json |-> "object", type |-> type, fields |-> fields, spelled |-> TRUE, padded |-> FALSE]

-----------------------------------------------------------------------------
(* parse_line *)

\* obj.get
Get(fields, f) == IF f \in DOMAIN fields THEN fields[f] ELSE "null"

\* The record of a line: the fields its type knows, and no other
RecordOf(line) ==
  [type |-> line.type, fields |-> [f \in DOMAIN Fields[line.type] |-> Get(line.fields, f)]]

\* "record"; "error" for RecordError; "newer" for SchemaVersionError; "raised" for an
\* exception that is not a RecordError: json.loads decodes the bytes before it reads
Outcome(line) ==
  CASE line.json = "undecodable" -> "raised"
    [] line.json \in {"blank", "syntax", "value", "untyped"} -> "error"
    [] line.json = "object" /\ line.type \notin Known -> "record"
    [] line.json = "object" /\ line.type = "meta"
         /\ Get(line.fields, "schema_version") \in Positive \ {"two"} -> "newer"
    [] OTHER -> IF \A f \in DOMAIN Fields[line.type] :
                     RecordOf(line).fields[f] \in Fields[line.type][f]
                  THEN "record" ELSE "error"

\* An unknown type keeps its line, less the blanks around it
Parse(line) ==
  IF line.type \in Known THEN RecordOf(line)
  ELSE [type |-> line.type, fields |-> line.fields, raw |-> [line EXCEPT !.padded = FALSE]]

-----------------------------------------------------------------------------
(* to_line *)

Optional == {"channel", "trigger_span"}

ToLine(rec) ==
  IF rec.type \notin Known THEN rec.raw
  ELSE Object(rec.type, [f \in {g \in DOMAIN rec.fields : ~ (g \in Optional /\ rec.fields[g] = "null")}
                           |-> rec.fields[f]])

-----------------------------------------------------------------------------
(* The records that the two programs construct, and their lines *)

\* stamp() and new_session_meta() on the host: no declarations there
HostRecords ==
  {[type |-> "meta", fields |->
      [schema_version |-> "two", session_id |-> "text", start_iso |-> "text",
       kit_profile_id |-> "text", user_id |-> "text", calibration_offset_ms |-> cal]]
     : cal \in {"null", "half"}}
  \cup {[type |-> "event", fields |->
           [t |-> t, note |-> "hundred", velocity |-> v, channel |-> c]]
          : t \in {"zero", "thousand"}, v \in {"two", "hundred"}, c \in {"zero", "ten"}}
  \cup {[type |-> "ctrl", fields |-> [t |-> "ten", msg |-> "msg"]],
        [type |-> "session_end", fields |-> [t |-> "thousand"]]}

\* meta_line and record_line: an empty profile id or reference is written as null, a
\* calibration is an integer, a trigger span is left out when there is none
Marked(type, fields, trig) ==
  Object(type, IF trig THEN [f \in DOMAIN fields \cup {"trigger_span"} |->
                               IF f = "trigger_span" THEN "span" ELSE fields[f]]
                       ELSE fields)

BoxLines ==
  {Object("meta", [schema_version |-> "two", session_id |-> "text", start_iso |-> "text",
                   kit_profile_id |-> kit, user_id |-> "text", calibration_offset_ms |-> cal])
     : kit \in {"text", "null"}, cal \in {"null", "neg", "zero", "thousand"}}
  \cup {Object("event", [t |-> "ten", note |-> n, velocity |-> "hundred", channel |-> c])
          : n \in {"zero", "hundred"}, c \in Nibble}
  \cup {Object("ctrl", [t |-> "ten", msg |-> "msg"])}
  \cup {Marked("grid_start", [t |-> "ten", bpm |-> b, subdiv |-> "ten", downbeat_t |-> d], trig)
          : b \in {"hundred", "thousand"}, d \in {"zero", "thousand"}, trig \in BOOLEAN}
  \cup {Marked(type, [t |-> "ten"], trig)
          : type \in {"grid_end", "bookmark", "enroll_end"}, trig \in BOOLEAN}
  \cup {Marked("enroll_start", [t |-> "ten", profile_ref |-> ref, bpm |-> "hundred",
                                subdiv |-> "two", downbeat_t |-> "ten"], trig)
          : ref \in {"text", "null"}, trig \in BOOLEAN}
  \cup {Object("session_end", [t |-> "thousand"])}

Written == BoxLines \cup {ToLine(r) : r \in HostRecords}
=============================================================================
