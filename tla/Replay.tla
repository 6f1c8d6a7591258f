------------------------------- MODULE Replay -------------------------------
(***************************************************************************)
(* read_log (io/logfile.py), line by line, and edrum replay (cli/main.py), *)
(* which writes every record again and compares the bytes.  The file is    *)
(* one that somebody has written: this host, the capture box, a later      *)
(* program, or any of them and then a failing card.                        *)
(***************************************************************************)
EXTENDS Records, Sequences

CONSTANT Lines  \* Lines[i]: the lines that may be the file's i-th

ASSUME ReplayAssumption == Lines \in Seq(SUBSET UNION {Lines[j] : j \in DOMAIN Lines})

VARIABLES
  file,     \* the complete lines
  tail,     \* something follows the last line end
  pc,       \* "write", "parse", "done"
  i,        \* the line to be parsed
  parsed,   \* records so far
  dropped,  \* lines that recovery has taken off
  verdict   \* what the command ends with, or "none"

vars == <<file, tail, pc, i, parsed, dropped, verdict>>

Init ==
  /\ file = <<>> /\ tail = FALSE /\ pc = "write"
  /\ i = 1 /\ parsed = <<>> /\ dropped = 0 /\ verdict = "none"

AddLine ==
  /\ pc = "write" /\ Len(file) < Len(Lines) /\ ~ tail
  /\ \E line \in Lines[Len(file) + 1] : file' = Append(file, line)
  /\ UNCHANGED <<tail, pc, i, parsed, dropped, verdict>>

Tear ==
  /\ pc = "write" /\ tail' = TRUE
  /\ UNCHANGED <<file, pc, i, parsed, dropped, verdict>>

End(v) == pc' = "done" /\ verdict' = v

\* An empty file is refused before it is split into lines
Open ==
  /\ pc = "write"
  /\ IF file = <<>> /\ ~ tail THEN End("invalid") ELSE pc' = "parse" /\ UNCHANGED verdict
  /\ UNCHANGED <<file, tail, i, parsed, dropped>>

Last == i = Len(file)

ParseLine ==
  /\ pc = "parse" /\ i <= Len(file) /\ Outcome(file[i]) = "record"
  /\ parsed' = Append(parsed, Parse(file[i])) /\ i' = i + 1
  /\ UNCHANGED <<file, tail, pc, dropped, verdict>>

\* mutant: recovery takes damage off wherever it is
ParseFailsLenient ==
  /\ pc = "parse" /\ i <= Len(file) /\ Outcome(file[i]) # "record"
  /\ IF Outcome(file[i]) # "error" THEN End(Outcome(file[i])) /\ UNCHANGED <<i, dropped>>
     ELSE dropped' = dropped + 1 /\ i' = i + 1 /\ UNCHANGED <<pc, verdict>>
  /\ UNCHANGED <<file, tail, parsed>>

\* Refused, torn, or damaged
ParseFails ==
  /\ pc = "parse" /\ i <= Len(file) /\ Outcome(file[i]) # "record"
  /\ CASE Outcome(file[i]) # "error" -> End(Outcome(file[i])) /\ UNCHANGED <<i, dropped>>
       [] Outcome(file[i]) = "error" /\ Last ->
            dropped' = dropped + 1 /\ i' = i + 1 /\ UNCHANGED <<pc, verdict>>
       [] OTHER -> End("corrupt") /\ UNCHANGED <<i, dropped>>
  /\ UNCHANGED <<file, tail, parsed>>

\* The checks behind the loop, and cmd_replay's comparison with what was not dropped
Compare ==
  /\ pc = "parse" /\ i > Len(file)
  /\ End(CASE parsed = <<>> -> "invalid"
           [] parsed # <<>> /\ parsed[1].type # "meta" -> "invalid"
           [] parsed # <<>> /\ parsed[1].type = "meta"
                /\ \E j \in 2..Len(parsed) : parsed[j].type = "meta" -> "corrupt"
           [] OTHER -> IF [j \in DOMAIN parsed |-> ToLine(parsed[j])]
                            = SubSeq(file, 1, Len(file) - dropped)
                         THEN "pass" ELSE "fail")
  /\ UNCHANGED <<file, tail, i, parsed, dropped>>

Next == AddLine \/ Tear \/ Open \/ ParseLine \/ ParseFails \/ Compare

Spec == Init /\ [][Next]_vars

-----------------------------------------------------------------------------
\* The file as LogReader, the reader of the other modules, has it
Image ==
  LET Kind(line) == CASE Outcome(line) = "error" -> "junk"
                      [] Outcome(line) = "record" /\ line.type = "meta" -> "meta"
                      [] OTHER -> "event"
      lines == [j \in DOMAIN file |-> [kind |-> Kind(file[j])]]
  IN  IF tail THEN Append(lines, [kind |-> "part"]) ELSE lines

Reader == INSTANCE LogReader

Readable == \A j \in DOMAIN file : Outcome(file[j]) \in {"record", "error"}

\* The replay gate tells the truth.  Whatever either program writes passes, torn tail
\* or not, although the lines are built in two languages; and a file that passes holds
\* no field of a known record that the analysis does not see.
ReplayTells ==
  pc = "done" =>
    /\ (/\ file # <<>> /\ \A j \in DOMAIN file : file[j] \in Written /\ (file[j].type = "meta" <=> j = 1))
         => verdict = "pass" /\ dropped = 0
    /\ verdict = "pass" =>
         \A j \in DOMAIN parsed :
           /\ file[j].type \in Known => DOMAIN file[j].fields \subseteq DOMAIN parsed[j].fields
           /\ \A f \in DOMAIN file[j].fields : parsed[j].fields[f] = file[j].fields[f]

\* The reader comes to the verdict that LogReader gives, whichever lines are bad and
\* wherever they are, and drops exactly what LogReader leaves out.
ReaderAgrees ==
  pc = "done" /\ Readable =>
    /\ Reader!Verdict(Image) = IF verdict \in {"pass", "fail"} THEN "ok" ELSE verdict
    /\ verdict \in {"pass", "fail"} => Len(parsed) = Len(Reader!Parsed(Image))

\* logfile.py: "a torn trailing line (no LF, or unparseable final line) is dropped"
BadTailIsDropped ==
  LET Good(j) == Outcome(file[j]) = "record" /\ (file[j].type = "meta" <=> j = 1)
  IN  /\ pc = "done" /\ Len(file) > 1 /\ Outcome(file[Len(file)]) \in {"error", "raised"}
      /\ \A j \in 1..(Len(file) - 1) : Good(j)
      => verdict \in {"pass", "fail"} /\ dropped = 1
=============================================================================
