----------------------------- MODULE LogReader -----------------------------
(***************************************************************************)
(* read_log (io/logfile.py): what the brain makes of the bytes of a log    *)
(* file.  A file is the sequence of its lines.  "part" is a piece without  *)
(* line end, which only matters when it is the last thing in the file;     *)
(* "junk" is a complete line that does not parse, because a record was     *)
(* written behind such a piece.                                            *)
(***************************************************************************)
EXTENDS Naturals, Sequences

\* How a line, or the rest of a line, joins what a file already ends with
Joined(lines, line) ==
  IF lines # <<>> /\ lines[Len(lines)].kind = "part"
    THEN [lines EXCEPT ![Len(lines)] =
            IF line.kind = "part" THEN @ ELSE [line EXCEPT !.kind = "junk"]]
    ELSE Append(lines, line)

\* data.split(b"\n"), less the torn tail that pop() takes off
Complete(lines) ==
  IF lines # <<>> /\ lines[Len(lines)].kind = "part"
    THEN SubSeq(lines, 1, Len(lines) - 1)
    ELSE lines

\* A final line that does not parse is a torn tail too
Parsed(lines) ==
  LET c == Complete(lines)
  IN  IF c # <<>> /\ c[Len(c)].kind = "junk" THEN SubSeq(c, 1, Len(c) - 1) ELSE c

Verdict(lines) ==
  LET p == Parsed(lines)
  IN  IF \E i \in DOMAIN p : p[i].kind = "junk" THEN "corrupt"
      ELSE IF p = <<>> \/ p[1].kind # "meta" THEN "invalid"
      ELSE IF \E i \in 2..Len(p) : p[i].kind = "meta" THEN "corrupt"
      ELSE "ok"

\* lr.records: everything after line 1
Records(lines) == Tail(Parsed(lines))
=============================================================================
