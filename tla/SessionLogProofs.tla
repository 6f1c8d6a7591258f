-------------------------- MODULE SessionLogProofs --------------------------
(***************************************************************************)
(* Proofs about SessionLog, for any capacity of the ring, any sync         *)
(* interval and latch, any number of sessions, and any number of faults    *)
(* and losses of power.                                                    *)
(***************************************************************************)
EXTENDS SessionLog, TLAPS

-----------------------------------------------------------------------------
(* The inductive invariant *)

Rec == [kind : {"start", "body", "end"}, sid : 1..MaxSessions, t : Time]
FileType == [sid : 1..MaxSessions, lines : Seq(Line), durable : Seq(Line), clean : BOOLEAN]

\* Where handle() has a file open
Busy == {"syncOld", "closeOld", "meta", "syncMeta", "append", "syncDue", "syncEnd",
         "closeEnd", "closeDead"}

Types ==
  /\ files \in Seq(FileType)
  /\ open \in BOOLEAN /\ failed \in BOOLEAN /\ live \in BOOLEAN /\ dropped \in BOOLEAN
  /\ consec \in 0..Latch /\ unsynced \in Nat /\ faults \in Nat
  /\ cur \in Rec \cup {NoLine} /\ step \in Busy \cup {"idle", "create"}
  /\ q \in Seq(Rec) /\ Len(q) <= N
  /\ session \in 0..MaxSessions /\ mark \in Time
  /\ live => session > 0

WriterOK ==
  /\ open => files # <<>>
  /\ step \in Busy => open
  /\ step = "create" => ~ open
  /\ step \in {"syncOld", "closeOld", "create", "meta"} => cur.kind = "start"
  /\ step = "append" => cur.kind \in {"body", "end"}
  /\ step \in {"syncEnd", "closeEnd"} => cur.kind = "end"
  /\ open /\ step # "closeDead" => consec < Latch
  /\ failed => ~ open
  /\ cur.kind = "start" => cur.t = 0
  /\ \A k \in DOMAIN q : q[k].kind = "start" => q[k].t = 0

\* A file that every append has succeeded on: a meta line, records, and at most at
\* the end, where power was lost, a piece of one of these
Shaped(lines) ==
  \A k \in DOMAIN lines :
    /\ lines[k].kind \in (IF k = 1 THEN {"meta", "part"} ELSE {"body", "end", "part"})
    /\ lines[k].kind = "part" => k = Len(lines)

Numbered(lines, sid) ==
  \A k \in DOMAIN lines :
    k > 1 => /\ lines[k].sid = sid /\ lines[k].t = k - 1
             /\ lines[k].kind = "end" => k = Len(lines)

\* What has been synced is the beginning of what has been written
Prefix(durable, lines) ==
  Len(durable) <= Len(lines) /\ \A k \in DOMAIN durable : durable[k] = lines[k]

FilesOK ==
  \A i \in DOMAIN files :
    files[i].clean =>
      /\ Prefix(files[i].durable, files[i].lines)
      /\ Shaped(files[i].lines)
      /\ ~ dropped => Numbered(files[i].lines, files[i].sid)

\* What the next line will be appended to
NewestOK ==
  open /\ files[Newest].clean =>
    /\ \A k \in DOMAIN files[Newest].lines :
         /\ files[Newest].lines[k].kind # "part"
         /\ files[Newest].lines[k].kind = "end" => step \in {"syncEnd", "closeEnd"}
    /\ step = "meta" <=> files[Newest].lines = <<>>

\* cur is the last record that was taken from the ring, so that it tells how far the
\* newest file has come; with the card at fault the file may be of an older session
Tracking == open \/ step = "create" \/ faults = 0

Positioned ==
  /\ ~ dropped /\ (open \/ (faults = 0 /\ cur.kind # "none"))
       /\ step \notin {"syncOld", "closeOld", "create"} =>
         /\ files # <<>>
         /\ files[Newest].clean =>
              /\ files[Newest].sid = cur.sid
              /\ Len(files[Newest].lines) =
                   (IF step \in {"append", "meta"} THEN cur.t ELSE cur.t + 1)
  /\ faults = 0 /\ ~ dropped /\ ~ open /\ step = "idle" => cur.kind \in {"none", "end"}

Follows(a, b) ==
  b.kind = "start" \/ (a.kind \notin {"none", "end"} /\ b.sid = a.sid /\ b.t = a.t + 1)

Last == IF q = <<>> THEN cur ELSE q[Len(q)]

\* Nothing is missing between the last record taken and the last one pushed
Chained ==
  ~ dropped =>
    /\ \A k \in DOMAIN q : k + 1 \in DOMAIN q => Follows(q[k], q[k + 1])
    /\ q # <<>> /\ Tracking => Follows(cur, q[1])
    /\ (live \/ mark > 0) /\ (q # <<>> \/ Tracking) =>
         /\ Last.kind # "none" /\ Last.sid = session /\ Last.t = mark
         /\ live => Last.kind # "end"

Faultless ==
  faults = 0 => /\ \A i \in DOMAIN files : files[i].clean
                /\ consec = 0 /\ step # "closeDead"

IInv == Types /\ WriterOK /\ FilesOK /\ NewestOK /\ Positioned /\ Chained /\ Faultless

-----------------------------------------------------------------------------
(* Lines and files *)

\* A line that has lost its end, or been glued to a piece, is still a line.
LEMMA LineOfKind ==
  ASSUME NEW line \in Line, NEW kind \in Kinds
  PROVE  /\ [line EXCEPT !.kind = kind] \in Line
         /\ [line EXCEPT !.kind = kind].kind = kind
         /\ [line EXCEPT !.kind = kind].sid = line.sid
         /\ [line EXCEPT !.kind = kind].t = line.t
BY DEF Line

\* Whatever part of a line reaches the card, what is there is a sequence of lines.
LEMMA JoinedType ==
  ASSUME NEW lines \in Seq(Line), NEW line \in Line
  PROVE  Joined(lines, line) \in Seq(Line)
<1>1. CASE lines # <<>> /\ lines[Len(lines)].kind = "part"
  <2>1. Len(lines) \in DOMAIN lines
    BY <1>1
  <2>2. lines[Len(lines)] \in Line
    BY <2>1
  <2>3. "junk" \in Kinds
    BY DEF Kinds
  <2>4. [line EXCEPT !.kind = "junk"] \in Line
    BY <2>3, LineOfKind
  <2> DEFINE new == IF line.kind = "part" THEN lines[Len(lines)]
                    ELSE [line EXCEPT !.kind = "junk"]
  <2>5. new \in Line
    BY <2>2, <2>4
  <2>6. Joined(lines, line) = [lines EXCEPT ![Len(lines)] = new]
    BY <1>1 DEF Joined
  <2> HIDE DEF new
  <2> QED
    BY <2>1, <2>5, <2>6
<1>2. CASE ~ (lines # <<>> /\ lines[Len(lines)].kind = "part")
  BY <1>2 DEF Joined
<1> QED
  BY <1>1, <1>2

\* The newest file is replaced by another.
LEMMA NewestReplaced ==
  ASSUME files \in Seq(FileType), files # <<>>, NEW g \in FileType,
         files' = [files EXCEPT ![Newest] = g]
  PROVE  /\ files' \in Seq(FileType)
         /\ Newest \in DOMAIN files /\ Newest' = Newest /\ DOMAIN files' = DOMAIN files
         /\ files'[Newest] = g
         /\ \A i \in DOMAIN files : i # Newest => files'[i] = files[i]
BY DEF Newest

\* What storage_.sync() and storage_.close() make of the card: more is durable.
Settled ==
  /\ files' \in Seq(FileType)
  /\ Newest' = Newest /\ DOMAIN files' = DOMAIN files
  /\ \A i \in DOMAIN files : /\ files'[i].lines = files[i].lines
                             /\ files'[i].sid = files[i].sid
                             /\ files'[i].clean = files[i].clean
  /\ FilesOK'
  /\ faults' \in Nat /\ (faults' = 0 => faults = 0)

LEMMA SettledByCall ==
  ASSUME Types, FilesOK, files # <<>>, UNCHANGED dropped,
         (NoFault /\ MakeDurable) \/ (Fault /\ UNCHANGED files)
  PROVE  Settled
<1>1. CASE Fault /\ UNCHANGED files
  BY <1>1 DEF Settled, FilesOK, Types, Fault, Newest
<1>2. CASE NoFault /\ MakeDurable
  <2> DEFINE f == files[Newest]
             g == [f EXCEPT !.durable = f.lines]
  <2>1. Newest \in DOMAIN files /\ f \in FileType
    BY DEF Types, Newest
  <2>2. /\ g \in FileType /\ g.durable = f.lines
        /\ g.lines = f.lines /\ g.sid = f.sid /\ g.clean = f.clean
    BY <2>1 DEF FileType
  <2>3. files' = [files EXCEPT ![Newest] = g]
    BY <1>2, <2>1 DEF MakeDurable
  <2> HIDE DEF f, g
  <2>4. /\ files' \in Seq(FileType)
        /\ Newest' = Newest /\ DOMAIN files' = DOMAIN files
        /\ files'[Newest] = g
        /\ \A i \in DOMAIN files : i # Newest => files'[i] = files[i]
    BY <2>2, <2>3, NewestReplaced DEF Types
  <2>5. Prefix(g.durable, g.lines)
    BY <2>2 DEF Prefix, FileType
  <2>6. FilesOK'
    BY <2>1, <2>2, <2>4, <2>5 DEF FilesOK, f
  <2> QED
    BY <1>2, <2>1, <2>2, <2>4, <2>6 DEF Settled, NoFault, Types, f
<1> QED
  BY <1>1, <1>2

LEMMA SettledByNone ==
  ASSUME Types, FilesOK, UNCHANGED dropped, UNCHANGED cardVars
  PROVE  Settled
BY DEF Settled, FilesOK, Types, cardVars, Newest

\* One more line, of the kind and number that are due, leaves a good file good.
LEMMA OneMoreLine ==
  ASSUME NEW lines \in Seq(Line), NEW durable \in Seq(Line), NEW sid, NEW line \in Line,
         Prefix(durable, lines), Shaped(lines),
         \A k \in DOMAIN lines : lines[k].kind \notin {"part", "end"},
         line.kind \in IF lines = <<>> THEN {"meta"} ELSE {"body", "end"}
  PROVE  /\ Prefix(durable, Append(lines, line)) /\ Shaped(Append(lines, line))
         /\ Numbered(lines, sid)
              /\ (lines # <<>> => line.sid = sid /\ line.t = Len(lines)) =>
            Numbered(Append(lines, line), sid)
<1> DEFINE more == Append(lines, line)
<1>1. /\ Len(more) = Len(lines) + 1 /\ DOMAIN more = 1..(Len(lines) + 1)
      /\ DOMAIN lines = 1..Len(lines) /\ Len(lines) \in Nat
      /\ more[Len(lines) + 1] = line
      /\ \A k \in DOMAIN lines : more[k] = lines[k]
  OBVIOUS
<1>2. DOMAIN durable = 1..Len(durable) /\ Len(durable) \in Nat
  OBVIOUS
<1>3. lines = <<>> <=> Len(lines) = 0
  OBVIOUS
<1> HIDE DEF more
<1>4. Prefix(durable, more)
  BY <1>1, <1>2 DEF Prefix
<1>5. Shaped(more)
  BY <1>1, <1>3 DEF Shaped
<1>6. Numbered(lines, sid) /\ (lines # <<>> => line.sid = sid /\ line.t = Len(lines)) =>
        Numbered(more, sid)
  BY <1>1, <1>3 DEF Numbered
<1> QED
  BY <1>4, <1>5, <1>6 DEF more

\* What an append that succeeds makes of the card
Grown(line) ==
  /\ files' \in Seq(FileType)
  /\ Newest' = Newest /\ DOMAIN files' = DOMAIN files
  /\ \A i \in DOMAIN files : i # Newest => files'[i] = files[i]
  /\ files'[Newest].sid = files[Newest].sid
  /\ files'[Newest].clean = files[Newest].clean
  /\ files'[Newest].durable = files[Newest].durable
  /\ files[Newest].clean =>
       files'[Newest].lines = Append(files[Newest].lines, line)
  /\ faults' = faults

\* The newest file is there while one is open.
LEMMA NewestThere ==
  ASSUME Types, WriterOK, open
  PROVE  /\ files # <<>> /\ Newest \in DOMAIN files /\ files[Newest] \in FileType
         /\ files[Newest].lines \in Seq(Line) /\ files[Newest].durable \in Seq(Line)
         /\ files[Newest].clean \in BOOLEAN
<1>1. files # <<>> /\ files \in Seq(FileType)
  BY DEF Types, WriterOK
<1>2. Newest \in DOMAIN files /\ files[Newest] \in FileType
  BY <1>1 DEF Newest
<1> QED
  BY <1>1, <1>2 DEF FileType

LEMMA GrownByAppend ==
  ASSUME Types, WriterOK, NewestOK, open, NEW line \in Line, AppendOk(line)
  PROVE  Grown(line)
<1> DEFINE f == files[Newest]
           l == Joined(f.lines, line)
           g == [f EXCEPT !.lines = l]
<1>1. files # <<>> /\ Newest \in DOMAIN files /\ f \in FileType /\ f.lines \in Seq(Line)
  BY NewestThere
<1>2. l \in Seq(Line)
  BY <1>1, JoinedType
<1>3. files' = [files EXCEPT ![Newest] = g]
  BY <1>1 DEF AppendOk
<1>4. f.clean => l = Append(f.lines, line)
  <2>1. f.clean /\ f.lines # <<>> => f.lines[Len(f.lines)].kind # "part"
    <3> SUFFICES ASSUME f.clean, f.lines # <<>> PROVE f.lines[Len(f.lines)].kind # "part"
      OBVIOUS
    <3>1. Len(f.lines) \in DOMAIN f.lines
      BY <1>1
    <3> QED
      BY <3>1 DEF NewestOK
  <2> QED
    BY <2>1 DEF Joined
<1> HIDE DEF l
<1>5. /\ g \in FileType /\ g.lines = l
      /\ g.sid = f.sid /\ g.clean = f.clean /\ g.durable = f.durable
  BY <1>1, <1>2 DEF FileType
<1> HIDE DEF g
<1>6. /\ files' \in Seq(FileType)
      /\ Newest' = Newest /\ DOMAIN files' = DOMAIN files
      /\ files'[Newest] = g
      /\ \A i \in DOMAIN files : i # Newest => files'[i] = files[i]
  BY <1>1, <1>3, <1>5, NewestReplaced DEF Types
<1> QED
  BY <1>4, <1>5, <1>6 DEF Grown, AppendOk, NoFault

\* What an append that fails makes of it
Spoilt ==
  /\ files' \in Seq(FileType)
  /\ Newest' = Newest /\ DOMAIN files' = DOMAIN files
  /\ \A i \in DOMAIN files : i # Newest => files'[i] = files[i]
  /\ files'[Newest].clean = FALSE
  /\ faults' \in Nat \ {0}

LEMMA SpoiltByAppend ==
  ASSUME Types, WriterOK, open, NEW line \in Line, AppendFails(line)
  PROVE  Spoilt
<1> DEFINE f == files[Newest]
           l == Joined(f.lines, [line EXCEPT !.kind = "part"])
           g == [f EXCEPT !.clean = FALSE]
           h == [f EXCEPT !.clean = FALSE, !.lines = l]
<1>1. files # <<>> /\ Newest \in DOMAIN files /\ f \in FileType /\ f.lines \in Seq(Line)
  BY NewestThere
<1>2. "part" \in Kinds
  BY DEF Kinds
<1>3. [line EXCEPT !.kind = "part"] \in Line
  BY <1>2, LineOfKind
<1>4. l \in Seq(Line)
  BY <1>1, <1>3, JoinedType
<1>5. files' = [files EXCEPT ![Newest] = g] \/ files' = [files EXCEPT ![Newest] = h]
  BY <1>1 DEF AppendFails
<1> HIDE DEF l
<1>6. g \in FileType /\ g.clean = FALSE /\ h \in FileType /\ h.clean = FALSE
  BY <1>1, <1>4 DEF FileType
<1> HIDE DEF g, h
<1>7. faults' \in Nat \ {0}
  BY DEF AppendFails, Fault, Types
<1>8. ASSUME NEW r \in FileType, r.clean = FALSE, files' = [files EXCEPT ![Newest] = r]
      PROVE  Spoilt
  <2>1. /\ files' \in Seq(FileType)
        /\ Newest' = Newest /\ DOMAIN files' = DOMAIN files
        /\ files'[Newest] = r
        /\ \A i \in DOMAIN files : i # Newest => files'[i] = files[i]
    BY <1>1, <1>8, NewestReplaced DEF Types
  <2> QED
    BY <1>7, <1>8, <2>1 DEF Spoilt
<1> QED
  BY <1>5, <1>6, <1>8

-----------------------------------------------------------------------------
(* The writer's calls *)

\* What a storage call has nothing to do with
Aside == UNCHANGED <<protoVars, fifoVars, session, dropped, crashes>>

\* No call brings a file back that is not the current one.
LEMMA ChainedKept ==
  ASSUME Chained, Aside, UNCHANGED cur, Tracking' => Tracking
  PROVE  Chained'
BY DEF Chained, Aside, protoVars, fifoVars, Last

LEMMA GoodAppend ==
  ASSUME IInv, Aside, open, step \in {"meta", "append"}, NEW line \in Line,
         line = (IF step = "meta" THEN MetaLine(cur.sid) ELSE cur),
         Grown(line), consec' = 0, unsynced' \in Nat, UNCHANGED <<open, failed, cur>>,
         step' \in (IF step = "meta" THEN {"syncMeta"}
                    ELSE IF cur.kind = "end" THEN {"syncEnd"} ELSE {"idle", "syncDue"})
  PROVE  IInv'
<1>1. /\ files # <<>> /\ Newest \in DOMAIN files /\ files[Newest] \in FileType
      /\ files[Newest].lines \in Seq(Line) /\ files[Newest].durable \in Seq(Line)
  BY NewestThere DEF IInv
<1>2. Types'
  BY WriterAssumption DEF IInv, Types, Grown, Aside, protoVars, fifoVars, Busy
<1>3. WriterOK'
  <2>1. files' # <<>>
    BY <1>1 DEF Grown, Newest
  <2> QED
    BY <2>1, WriterAssumption DEF IInv, WriterOK, Busy, Aside, fifoVars
<1> DEFINE f == files[Newest]
<1>4. ASSUME f.clean
      PROVE  /\ Prefix(f.durable, f.lines) /\ Shaped(f.lines)
             /\ ~ dropped => Numbered(f.lines, f.sid)
             /\ \A k \in DOMAIN f.lines : f.lines[k].kind \notin {"part", "end"}
             /\ line.kind \in IF f.lines = <<>> THEN {"meta"} ELSE {"body", "end"}
             /\ ~ dropped /\ step = "append" => line.sid = f.sid /\ line.t = Len(f.lines)
             /\ step = "meta" <=> f.lines = <<>>
  <2>1. Prefix(f.durable, f.lines) /\ Shaped(f.lines)
        /\ (~ dropped => Numbered(f.lines, f.sid))
    BY <1>1, <1>4 DEF IInv, FilesOK
  <2>2. /\ \A k \in DOMAIN f.lines : f.lines[k].kind \notin {"part", "end"}
        /\ step = "meta" <=> f.lines = <<>>
    BY <1>1, <1>4 DEF IInv, NewestOK
  <2>3. line.kind \in IF f.lines = <<>> THEN {"meta"} ELSE {"body", "end"}
    BY <2>2 DEF IInv, WriterOK, MetaLine
  <2>4. ~ dropped /\ step = "append" => line.sid = f.sid /\ line.t = Len(f.lines)
    BY <1>4 DEF IInv, Positioned
  <2> QED
    BY <2>1, <2>2, <2>3, <2>4
<1>5. ASSUME f.clean
      PROVE  /\ Prefix(f.durable, Append(f.lines, line))
             /\ Shaped(Append(f.lines, line))
             /\ ~ dropped => Numbered(Append(f.lines, line), f.sid)
  BY <1>1, <1>4, <1>5, OneMoreLine
<1>6. FilesOK'
  BY <1>1, <1>5 DEF IInv, FilesOK, Grown, Aside
<1>7. NewestOK'
  <2>0. Append(f.lines, line) # <<>> /\ step' # "meta"
    BY <1>1
  <2> SUFFICES ASSUME f.clean, NEW k \in DOMAIN Append(f.lines, line)
               PROVE  /\ Append(f.lines, line)[k].kind # "part"
                      /\ Append(f.lines, line)[k].kind = "end" => step' = "syncEnd"
    BY <1>1, <2>0 DEF NewestOK, Grown
  <2>1. CASE k \in DOMAIN f.lines
    BY <1>1, <1>4, <2>1
  <2>2. CASE k = Len(f.lines) + 1
    BY <1>1, <1>4, <2>2 DEF MetaLine
  <2> QED
    BY <1>1, <2>1, <2>2
<1>8. Positioned'
  <2> SUFFICES ASSUME ~ dropped, f.clean
               PROVE  f.sid = cur.sid /\ Len(Append(f.lines, line)) = cur.t + 1
    BY <1>1, <1>3 DEF Positioned, Grown, Aside, WriterOK
  <2>1. f.sid = cur.sid /\ Len(f.lines) = cur.t
    BY DEF IInv, Positioned
  <2> QED
    BY <1>1, <2>1
<1>9. Chained'
  BY ChainedKept DEF IInv, Tracking, Grown
<1>10. Faultless'
  BY <1>1 DEF IInv, Faultless, Grown
<1> QED
  BY <1>2, <1>3, <1>6, <1>7, <1>8, <1>9, <1>10 DEF IInv

LEMMA BadAppend ==
  ASSUME IInv, Aside, open, step \in {"meta", "append"},
         Spoilt, consec' = consec + 1, UNCHANGED <<open, failed, cur, unsynced>>,
         step' \in {"closeDead", "syncMeta", "syncEnd", "idle", "syncDue"},
         consec' >= Latch => step' = "closeDead",
         step' = "syncEnd" => cur.kind = "end"
  PROVE  IInv'
<1>1. files # <<>> /\ Newest \in DOMAIN files
  BY NewestThere DEF IInv
<1>2. Types'
  BY WriterAssumption DEF IInv, Types, WriterOK, Spoilt, Aside, protoVars, fifoVars, Busy
<1>3. WriterOK'
  <2>1. files' # <<>>
    BY <1>1 DEF Spoilt, Newest
  <2>2. consec \in Nat
    BY DEF IInv, Types
  <2> QED
    BY <2>1, <2>2, WriterAssumption DEF IInv, WriterOK, Busy, Aside, fifoVars
<1>4. FilesOK'
  BY <1>1 DEF IInv, FilesOK, Spoilt, Aside
<1>5. NewestOK'
  BY <1>1 DEF NewestOK, Spoilt
<1>6. Positioned'
  BY <1>1, <1>3 DEF Positioned, Spoilt, WriterOK
<1>7. Chained'
  BY ChainedKept DEF IInv, Tracking, Spoilt
<1>8. Faultless'
  BY DEF Faultless, Spoilt
<1> QED
  BY <1>2, <1>3, <1>4, <1>5, <1>6, <1>7, <1>8 DEF IInv

LEMMA AppendMetaInv ==
  ASSUME IInv, Aside, AppendMeta
  PROVE  IInv'
<1>1. step = "meta" /\ open /\ cur \in Rec
  BY DEF AppendMeta, IInv, WriterOK, Busy, Types, NoLine
<1> DEFINE line == MetaLine(cur.sid)
<1>2. line \in Line
  BY <1>1, LogAssumption DEF MetaLine, Line, Kinds, Rec
<1>3. UNCHANGED <<open, failed, cur>>
  BY DEF AppendMeta, AppendLine
<1>4. CASE AppendOk(line) /\ consec' = 0 /\ unsynced' = unsynced + 1
  <2>1. Grown(line)
    BY <1>1, <1>2, <1>4, GrownByAppend DEF IInv
  <2>2. step' = "syncMeta" /\ unsynced' \in Nat
    BY <1>4, WriterAssumption DEF AppendMeta, AppendLine, IInv, Types
  <2> QED
    BY <1>1, <1>2, <1>3, <1>4, <2>1, <2>2, GoodAppend
<1>5. CASE AppendFails(line) /\ consec' = consec + 1 /\ UNCHANGED unsynced
  <2>1. Spoilt
    BY <1>1, <1>2, <1>5, SpoiltByAppend DEF IInv
  <2>2. step' \in {"closeDead", "syncMeta"} /\ (consec' >= Latch => step' = "closeDead")
    BY DEF AppendMeta, AppendLine
  <2> QED
    BY <1>1, <1>3, <1>5, <2>1, <2>2, BadAppend
<1> QED
  BY <1>4, <1>5 DEF AppendMeta, AppendLine

LEMMA AppendRecordInv ==
  ASSUME IInv, Aside, AppendRecord
  PROVE  IInv'
<1>1. step = "append" /\ open /\ cur \in Rec
  BY DEF AppendRecord, IInv, WriterOK, Busy, Types, NoLine
<1>2. cur \in Line
  BY <1>1, LogAssumption DEF Line, Kinds, Rec
<1>3. UNCHANGED <<open, failed, cur>>
  BY DEF AppendRecord, AppendLine
<1>4. step' \in (IF consec' >= Latch THEN {"closeDead"}
                 ELSE IF cur.kind = "end" THEN {"syncEnd"} ELSE {"idle", "syncDue"})
  BY DEF AppendRecord, AppendLine, Due
<1>5. CASE AppendOk(cur) /\ consec' = 0 /\ unsynced' = unsynced + 1
  <2>1. Grown(cur)
    BY <1>1, <1>2, <1>5, GrownByAppend DEF IInv
  <2>2. ~ (consec' >= Latch) /\ unsynced' \in Nat
    BY <1>5, WriterAssumption DEF IInv, Types
  <2> QED
    BY <1>1, <1>2, <1>3, <1>4, <1>5, <2>1, <2>2, GoodAppend
<1>6. CASE AppendFails(cur) /\ consec' = consec + 1 /\ UNCHANGED unsynced
  <2>1. Spoilt
    BY <1>1, <1>2, <1>6, SpoiltByAppend DEF IInv
  <2> QED
    BY <1>1, <1>3, <1>4, <1>6, <2>1, BadAppend
<1> QED
  BY <1>5, <1>6 DEF AppendRecord, AppendLine

\* A sync moves the writer on; the file stays open.
LEMMA SyncInv ==
  ASSUME IInv, Aside, open, Settled, unsynced' \in Nat,
         UNCHANGED <<open, failed, consec, cur>>,
         \/ step = "syncOld" /\ step' = "closeOld"
         \/ step \in {"syncMeta", "syncDue"} /\ step' = "idle"
         \/ step = "idle" /\ step' = "syncDue"
         \/ step = "syncEnd" /\ step' = "closeEnd"
  PROVE  IInv'
<1>1. files # <<>> /\ Newest \in DOMAIN files /\ files' # <<>>
  <2>1. files # <<>> /\ Newest \in DOMAIN files
    BY NewestThere DEF IInv
  <2> QED
    BY <2>1 DEF Settled
<1>2. Types'
  BY DEF IInv, Types, Settled, Aside, protoVars, fifoVars, Busy
<1>3. WriterOK'
  BY <1>1 DEF IInv, WriterOK, Busy, Aside, fifoVars
<1>4. NewestOK'
  BY <1>1 DEF IInv, NewestOK, Settled
<1>5. Positioned'
  BY <1>1 DEF IInv, Positioned, Settled, Aside
<1>6. Chained'
  BY ChainedKept DEF IInv, Tracking, Settled
<1>7. Faultless'
  BY <1>1 DEF IInv, Faultless, Settled
<1> QED
  BY <1>2, <1>3, <1>4, <1>5, <1>6, <1>7 DEF IInv, Settled

\* A close leaves no file open; only at the end of a session, or with the card given
\* up, is nothing opened next.
LEMMA CloseInv ==
  ASSUME IInv, Aside, Settled, open' = FALSE, UNCHANGED <<consec, unsynced, cur>>,
         \/ step = "closeOld" /\ step' = "create" /\ UNCHANGED failed
         \/ step = "closeEnd" /\ step' = "idle" /\ UNCHANGED failed
         \/ step = "closeDead" /\ step' = "idle" /\ failed' = TRUE
  PROVE  IInv'
<1>1. open
  BY DEF IInv, WriterOK, Busy
<1>2. files # <<>> /\ Newest \in DOMAIN files /\ files' # <<>>
  <2>1. files # <<>> /\ Newest \in DOMAIN files
    BY <1>1, NewestThere DEF IInv
  <2> QED
    BY <2>1 DEF Settled
<1>3. Types'
  BY DEF IInv, Types, Settled, Aside, protoVars, fifoVars, Busy
<1>4. WriterOK'
  BY <1>2 DEF IInv, WriterOK, Busy, Aside, fifoVars
<1>5. NewestOK'
  BY DEF NewestOK
<1>6. Positioned'
  BY <1>1, <1>2 DEF IInv, Positioned, Faultless, WriterOK, Settled, Aside
<1>7. Chained'
  BY <1>1, ChainedKept DEF IInv, Tracking, Settled
<1>8. Faultless'
  BY <1>2 DEF IInv, Faultless, Settled
<1> QED
  BY <1>3, <1>4, <1>5, <1>6, <1>7, <1>8 DEF IInv, Settled

\* A call that syncs or has nothing to sync settles the card.
LEMMA SettledBySync ==
  ASSUME IInv, Aside, open, NEW next, Sync(next) \/ ForcedSync(next)
  PROVE  /\ Settled /\ unsynced' \in Nat /\ step' = next
         /\ UNCHANGED <<open, failed, consec, cur>>
<1>1. Types /\ FilesOK /\ files # <<>> /\ UNCHANGED dropped
  BY DEF IInv, WriterOK, Aside
<1>2. CASE Sync(next)
  <2>1. (NoFault /\ MakeDurable) \/ (Fault /\ UNCHANGED files)
    BY <1>2 DEF Sync
  <2>2. Settled
    BY <1>1, <2>1, SettledByCall
  <2> QED
    BY <1>1, <1>2, <2>2 DEF Sync, Types
<1>3. CASE UNCHANGED <<cardVars, open, failed, consec, unsynced, cur>> /\ step' = next
  <2>1. Settled
    BY <1>1, <1>3, SettledByNone
  <2> QED
    BY <1>1, <1>3, <2>1 DEF Types
<1> QED
  BY <1>2, <1>3 DEF ForcedSync

LEMMA SettledByClose ==
  ASSUME IInv, Aside, open, NEW next, Close(next)
  PROVE  Settled /\ step' = next /\ open' = FALSE /\ UNCHANGED <<consec, unsynced, cur>>
<1>1. Types /\ FilesOK /\ files # <<>> /\ UNCHANGED dropped
  BY DEF IInv, WriterOK, Aside
<1>2. Settled
  BY <1>1, SettledByCall DEF Close
<1> QED
  BY <1>2 DEF Close

\* The new file is empty, and the record it is for is the one in hand.
LEMMA CreateInv ==
  ASSUME IInv, Aside, Create
  PROVE  IInv'
<1>0. /\ step = "create" /\ ~ open /\ cur \in Rec /\ cur.kind = "start" /\ cur.t = 0
      /\ cur.sid \in 1..MaxSessions /\ consec' = 0 /\ UNCHANGED cur
  BY DEF IInv, Types, WriterOK, Create, NoLine, Rec
<1>1. CASE /\ NoFault
           /\ files' = Append(files, [sid |-> cur.sid, lines |-> <<>>,
                                      durable |-> <<>>, clean |-> TRUE])
           /\ open' = TRUE /\ failed' = FALSE /\ unsynced' = 0 /\ step' = "meta"
  <2> DEFINE new == [sid |-> cur.sid, lines |-> <<>>, durable |-> <<>>, clean |-> TRUE]
  <2>1. new \in FileType
    BY <1>0 DEF FileType
  <2>2. files \in Seq(FileType)
    BY DEF IInv, Types
  <2>3. /\ new.sid = cur.sid /\ new.lines = <<>> /\ new.durable = <<>> /\ new.clean = TRUE
    OBVIOUS
  <2>4. files' = Append(files, new)
    BY <1>1
  <2> HIDE DEF new
  <2>5. /\ files' \in Seq(FileType) /\ files' # <<>>
        /\ Newest' = Newest + 1 /\ Newest \in Nat
        /\ DOMAIN files = 1..Newest /\ DOMAIN files' = 1..(Newest + 1)
        /\ files'[Newest'] = new
        /\ \A i \in DOMAIN files : files'[i] = files[i]
    BY <2>1, <2>2, <2>4 DEF Newest
  <2>6. Types'
    <3>1. open' \in BOOLEAN /\ failed' \in BOOLEAN /\ unsynced' \in Nat
      BY <1>1
    <3>2. consec' \in 0..Latch /\ step' \in Busy \cup {"idle", "create"}
      BY <1>0, <1>1, WriterAssumption DEF Busy
    <3>3. faults' \in Nat
      BY <1>1 DEF IInv, Types, NoFault
    <3> QED
      BY <1>0, <2>5, <3>1, <3>2, <3>3 DEF IInv, Types, Aside, protoVars, fifoVars
  <2>7. WriterOK'
    BY <1>0, <1>1, <2>5, WriterAssumption DEF IInv, WriterOK, Busy, Aside, fifoVars
  <2>8. Prefix(<<>>, <<>>) /\ Shaped(<<>>) /\ Numbered(<<>>, cur.sid)
    BY DEF Prefix, Shaped, Numbered
  <2>9. FilesOK'
    <3> SUFFICES ASSUME NEW i \in DOMAIN files', files'[i].clean
                 PROVE  /\ Prefix(files'[i].durable, files'[i].lines)
                        /\ Shaped(files'[i].lines)
                        /\ ~ dropped => Numbered(files'[i].lines, files'[i].sid)
      BY DEF FilesOK, Aside
    <3>1. CASE i \in DOMAIN files
      BY <2>5, <3>1 DEF IInv, FilesOK
    <3>2. CASE i = Newest'
      BY <2>3, <2>5, <2>8, <3>2
    <3> QED
      BY <2>5, <3>1, <3>2
  <2>10. NewestOK'
    BY <1>1, <2>3, <2>5 DEF NewestOK
  <2>11. Positioned'
    BY <1>0, <1>1, <2>3, <2>5 DEF Positioned
  <2>12. Chained'
    BY <1>0, ChainedKept DEF IInv, Tracking
  <2>13. Faultless'
    <3> SUFFICES ASSUME faults' = 0, NEW i \in DOMAIN files'
                 PROVE  files'[i].clean
      BY <1>0, <1>1 DEF Faultless
    <3>1. CASE i \in DOMAIN files
      BY <1>1, <2>5, <3>1 DEF IInv, Faultless, NoFault
    <3>2. CASE i = Newest'
      BY <2>3, <2>5, <3>2
    <3> QED
      BY <2>5, <3>1, <3>2
  <2> QED
    BY <2>6, <2>7, <2>9, <2>10, <2>11, <2>12, <2>13 DEF IInv
<1>2. CASE Fault /\ failed' = TRUE /\ step' = "idle" /\ UNCHANGED <<files, open, unsynced>>
  <2>1. faults' \in Nat \ {0}
    BY <1>2 DEF Fault, IInv, Types
  <2>2. Types'
    BY <1>0, <1>2, <2>1, WriterAssumption
    DEF IInv, Types, Aside, protoVars, fifoVars, Busy
  <2>3. WriterOK'
    BY <1>0, <1>2, WriterAssumption DEF IInv, WriterOK, Busy, Aside, fifoVars
  <2>4. FilesOK'
    BY <1>2 DEF IInv, FilesOK, Aside
  <2>5. NewestOK' /\ Positioned' /\ Faultless'
    BY <1>0, <1>2, <2>1 DEF NewestOK, Positioned, Faultless
  <2>6. Chained'
    BY <1>0, <1>2, <2>1, ChainedKept DEF IInv, Tracking
  <2> QED
    BY <2>2, <2>3, <2>4, <2>5, <2>6 DEF IInv
<1> QED
  BY <1>1, <1>2 DEF Create

\* Every storage call, and the sync that comes due with time
LEMMA StoreInv ==
  ASSUME IInv, Aside, StorageCall \/ Idle
  PROVE  IInv'
<1>1. step \in Busy => open
  BY DEF IInv, WriterOK
<1>2. CASE SyncOld
  BY <1>1, <1>2, SettledBySync, SyncInv DEF SyncOld, Busy
<1>3. CASE CloseOld
  BY <1>1, <1>3, SettledByClose, CloseInv DEF CloseOld, Busy
<1>4. CASE Create
  BY <1>4, CreateInv
<1>5. CASE AppendMeta
  BY <1>5, AppendMetaInv
<1>6. CASE SyncMeta
  BY <1>1, <1>6, SettledBySync, SyncInv DEF SyncMeta, Busy
<1>7. CASE AppendRecord
  BY <1>7, AppendRecordInv
<1>8. CASE SyncDue
  BY <1>1, <1>8, SettledBySync, SyncInv DEF SyncDue, Busy
<1>9. CASE SyncEnd
  BY <1>1, <1>9, SettledBySync, SyncInv DEF SyncEnd, Busy
<1>10. CASE CloseEnd
  BY <1>1, <1>10, SettledByClose, CloseInv DEF CloseEnd, Busy
<1>11. CASE CloseDead
  BY <1>1, <1>11, SettledByClose, CloseInv DEF CloseDead, Busy
<1>12. CASE Idle
  <2>1. UNCHANGED <<cardVars, open, failed, consec, unsynced, cur>>
    BY <1>12 DEF Idle
  <2>2. Settled
    BY <2>1, SettledByNone DEF IInv, Aside
  <2> QED
    BY <1>12, <2>1, <2>2, SyncInv DEF Idle, IInv, Types
<1> QED
  BY <1>2, <1>3, <1>4, <1>5, <1>6, <1>7, <1>8, <1>9, <1>10, <1>11, <1>12 DEF StorageCall

-----------------------------------------------------------------------------
(* The ring's two ends *)

\* A sequence without elements is the empty one.
LEMMA EmptyByLen ==
  ASSUME NEW S, NEW s \in Seq(S)
  PROVE  s = <<>> <=> Len(s) = 0
OBVIOUS

\* handle() takes up the next record: the one that follows, if nothing is missing.
LEMMA DrainInv ==
  ASSUME IInv, Drain
  PROVE  IInv'
<1> DEFINE rec == Head(q)
<1>1. /\ step = "idle" /\ q # <<>> /\ q' = Tail(q) /\ q \in Seq(Rec)
      /\ UNCHANGED <<cardVars, open, failed, consec, unsynced>>
      /\ UNCHANGED <<protoVars, session, dropped, crashes>>
  BY DEF Drain, Take, Handle, IInv, Types
<1>2. /\ rec = q[1] /\ rec \in Rec /\ q' \in Seq(Rec) /\ Len(q') = Len(q) - 1
      /\ Len(q) \in Nat \ {0} /\ 1 \in DOMAIN q /\ DOMAIN q = 1..Len(q)
      /\ DOMAIN q' = 1..Len(q')
      /\ \A k \in DOMAIN q' : k + 1 \in DOMAIN q /\ q'[k] = q[k + 1]
      /\ q' = <<>> <=> Len(q) = 1
  <2>1. Len(q) \in Nat \ {0} /\ DOMAIN q = 1..Len(q)
    BY <1>1
  <2>2. q' \in Seq(Rec) /\ Len(q') = Len(q) - 1
    BY <1>1, <2>1
  <2>3. DOMAIN q' = 1..Len(q') /\ (q' = <<>> <=> Len(q') = 0)
    <3>1. DOMAIN q' = 1..Len(q')
      BY <2>2
    <3>2. q' = <<>> <=> Len(q') = 0
      BY <2>2, EmptyByLen
    <3> QED
      BY <3>1, <3>2
  <2>4. rec = q[1] /\ rec \in Rec
    BY <1>1, <2>1
  <2>5. \A k \in DOMAIN q' : k + 1 \in DOMAIN q /\ q'[k] = q[k + 1]
    BY <1>1, <2>1, <2>2, <2>3
  <2> QED
    BY <2>1, <2>2, <2>3, <2>4, <2>5
<1> HIDE DEF rec
<1>3. FilesOK' /\ Faultless'
  <2>1. step' # "closeDead"
    BY <1>1 DEF Drain, Handle
  <2> QED
    BY <1>1, <2>1 DEF IInv, FilesOK, Faultless, cardVars
<1>4. \/ rec.kind = "start" /\ open /\ step' = "syncOld" /\ cur' = rec
      \/ rec.kind = "start" /\ ~ open /\ step' = "create" /\ cur' = rec
      \/ rec.kind # "start" /\ open /\ step' = "append" /\ cur' = rec
      \/ rec.kind # "start" /\ ~ open /\ step' = "idle" /\ cur' = cur
  BY <1>1 DEF Drain, Handle, rec
<1>5. Types'
  BY <1>1, <1>2, <1>4, LogAssumption DEF IInv, Types, cardVars, protoVars, Busy
<1>6. WriterOK'
  <2>1. \A k \in DOMAIN q' : q'[k].kind = "start" => q'[k].t = 0
    BY <1>2 DEF IInv, WriterOK
  <2>2. rec.kind \in {"start", "body", "end"} /\ (rec.kind = "start" => rec.t = 0)
    BY <1>2 DEF IInv, WriterOK, Rec
  <2> QED
    BY <1>1, <1>4, <2>1, <2>2 DEF IInv, WriterOK, cardVars, Busy
<1>7. NewestOK'
  BY <1>1, <1>4 DEF IInv, NewestOK, cardVars, Newest
\* With nothing lost, a record without a file cannot be.
<1>8. ~ dropped /\ faults = 0 => ~ (rec.kind # "start" /\ ~ open)
  BY <1>1, <1>2 DEF IInv, Positioned, Chained, Follows, Tracking
<1>9. Positioned'
  <2>1. CASE rec.kind = "start"
    BY <1>1, <1>4, <2>1 DEF Positioned
  <2>2. CASE rec.kind # "start" /\ open
    <3>1. step' = "append" /\ cur' = rec /\ open'
      BY <1>1, <1>4, <2>2
    <3>2. ~ dropped => rec.sid = cur.sid /\ rec.t = cur.t + 1
      BY <1>1, <1>2, <2>2 DEF IInv, Chained, Follows, Tracking
    <3> QED
      BY <1>1, <2>2, <3>1, <3>2 DEF IInv, Positioned, cardVars, Newest
  <2>3. CASE rec.kind # "start" /\ ~ open
    BY <1>1, <1>4, <1>8, <2>3 DEF Positioned, cardVars
  <2> QED
    BY <2>1, <2>2, <2>3
<1>10. Chained'
  <2> SUFFICES ASSUME ~ dropped PROVE Chained'
    BY <1>1 DEF Chained
  <2>1. \A k \in DOMAIN q' : k + 1 \in DOMAIN q' => Follows(q'[k], q'[k + 1])
    <3> SUFFICES ASSUME NEW k \in DOMAIN q', k + 1 \in DOMAIN q'
                 PROVE  Follows(q'[k], q'[k + 1])
      OBVIOUS
    <3>1. q'[k] = q[k + 1] /\ q'[k + 1] = q[(k + 1) + 1]
          /\ k + 1 \in DOMAIN q /\ (k + 1) + 1 \in DOMAIN q
      BY <1>2
    <3> QED
      BY <3>1 DEF IInv, Chained
  <2>2. q' # <<>> => Follows(q[1], q'[1])
    <3> SUFFICES ASSUME q' # <<>> PROVE Follows(q[1], q'[1])
      OBVIOUS
    <3>1. 1 \in DOMAIN q' /\ 1 + 1 \in DOMAIN q /\ q'[1] = q[1 + 1]
      BY <1>2
    <3> QED
      BY <1>2, <3>1 DEF IInv, Chained
  <2>3. CASE cur' = rec
    <3>1. Last' = Last
      BY <1>1, <1>2, <2>3 DEF Last
    <3>2. (live \/ mark > 0) =>
            /\ Last.kind # "none" /\ Last.sid = session /\ Last.t = mark
            /\ live => Last.kind # "end"
      BY <1>1 DEF IInv, Chained
    <3>3. UNCHANGED <<live, mark, session, dropped>>
      BY <1>1 DEF protoVars
    <3> HIDE DEF Last
    <3> QED
      BY <1>2, <2>1, <2>2, <2>3, <3>1, <3>2, <3>3 DEF Chained, Follows
  <2>4. CASE rec.kind # "start" /\ ~ open /\ step' = "idle" /\ cur' = cur
    <3>1. ~ Tracking'
      BY <1>1, <1>8, <2>4 DEF Tracking, cardVars
    <3>2. q' # <<>> => Last' = Last
      BY <1>1, <1>2 DEF Last
    <3>3. (live \/ mark > 0) =>
            /\ Last.kind # "none" /\ Last.sid = session /\ Last.t = mark
            /\ live => Last.kind # "end"
      BY <1>1 DEF IInv, Chained
    <3>4. UNCHANGED <<live, mark, session, dropped>>
      BY <1>1 DEF protoVars
    <3> HIDE DEF Last
    <3> QED
      BY <2>1, <3>1, <3>2, <3>3, <3>4 DEF Chained
  <2> QED
    BY <1>4, <2>3, <2>4
<1> QED
  BY <1>3, <1>5, <1>6, <1>7, <1>9, <1>10 DEF IInv

\* What the state machine hands over follows what it handed over before.
LEMMA AcceptInv ==
  ASSUME IInv, NEW rec \in Rec, q' = Append(q, rec), Len(q) < N,
         UNCHANGED <<logVars, dropped, crashes>>,
         rec.kind = "start" => rec.t = 0,
         rec.kind # "start" => live /\ rec.sid = session /\ rec.t = mark + 1,
         live' \in BOOLEAN, live' => rec.kind # "end",
         mark' = rec.t, session' = rec.sid
  PROVE  IInv'
<1>1. q \in Seq(Rec) /\ UNCHANGED <<cardVars, writerVars, dropped, crashes>>
  BY DEF IInv, Types, logVars
<1>2. /\ q' \in Seq(Rec) /\ Len(q') = Len(q) + 1 /\ q' # <<>>
      /\ Len(q) \in Nat /\ DOMAIN q = 1..Len(q) /\ DOMAIN q' = 1..Len(q')
      /\ q'[Len(q')] = rec
      /\ \A k \in DOMAIN q : q'[k] = q[k]
      /\ q = <<>> <=> Len(q) = 0
  BY <1>1
<1>3. Types'
  <2>1. session' \in 1..MaxSessions /\ mark' \in Time
    BY DEF Rec
  <2>2. Len(q') <= N
    BY <1>2, LogAssumption
  <2> QED
    BY <1>1, <1>2, <2>1, <2>2, LogAssumption DEF IInv, Types, cardVars, writerVars
<1>4. WriterOK'
  BY <1>1, <1>2 DEF IInv, WriterOK, cardVars, writerVars
<1>5. FilesOK' /\ NewestOK' /\ Positioned' /\ Faultless'
  BY <1>1 DEF IInv, FilesOK, NewestOK, Positioned, Faultless, cardVars, writerVars, Newest
<1>6. Chained'
  <2> SUFFICES ASSUME ~ dropped PROVE Chained'
    BY <1>1 DEF Chained
  <2>1. Tracking' <=> Tracking
    BY <1>1 DEF Tracking, cardVars, writerVars
  <2>2. rec.kind # "start" /\ (q # <<>> \/ Tracking) => Follows(Last, rec)
    BY DEF IInv, Chained, Follows
  <2>3. rec.kind = "start" => Follows(Last, rec)
    BY DEF Follows
  <2>4. \A k \in DOMAIN q' : k + 1 \in DOMAIN q' => Follows(q'[k], q'[k + 1])
    <3> SUFFICES ASSUME NEW k \in DOMAIN q', k + 1 \in DOMAIN q'
                 PROVE  Follows(q'[k], q'[k + 1])
      OBVIOUS
    <3>1. CASE k + 1 \in DOMAIN q
      BY <1>2, <3>1 DEF IInv, Chained
    <3>2. CASE k = Len(q)
      <4>1. q # <<>> /\ q'[k] = q[Len(q)] /\ q'[k + 1] = rec
        BY <1>2, <3>2
      <4>2. Follows(Last, rec)
        BY <2>2, <2>3, <4>1
      <4> QED
        BY <4>1, <4>2 DEF Last
    <3> QED
      BY <1>2, <3>1, <3>2
  <2>5. Tracking => Follows(cur, q'[1])
    <3> SUFFICES ASSUME Tracking PROVE Follows(cur, q'[1])
      OBVIOUS
    <3>1. CASE q = <<>>
      <4>1. Follows(Last, rec) /\ Last = cur /\ q'[1] = rec
        BY <1>2, <2>2, <2>3, <3>1 DEF Last
      <4> QED
        BY <4>1
    <3>2. CASE q # <<>>
      BY <1>2, <3>2 DEF IInv, Chained
    <3> QED
      BY <3>1, <3>2
  <2>6. Last' = rec /\ rec.kind # "none" /\ cur' = cur
    BY <1>1, <1>2 DEF Last, Rec, writerVars
  <2> HIDE DEF Last
  <2> QED
    BY <2>1, <2>4, <2>5, <2>6 DEF Chained
<1> QED
  BY <1>3, <1>4, <1>5, <1>6 DEF IInv

\* A record that is refused leaves a gap, which nothing is promised across.
LEMMA RefuseInv ==
  ASSUME IInv, UNCHANGED q, UNCHANGED <<logVars, crashes>>, dropped' = TRUE,
         live' \in BOOLEAN, mark' \in Time, session' \in 0..MaxSessions,
         live' => session' > 0
  PROVE  IInv'
<1>1. UNCHANGED <<cardVars, writerVars, q>>
  BY DEF logVars
<1>2. dropped' \in BOOLEAN
  OBVIOUS
<1>3. Types'
  BY <1>1, <1>2 DEF IInv, Types, cardVars, writerVars
<1>4. WriterOK'
  BY <1>1 DEF IInv, WriterOK, cardVars, writerVars
<1>5. FilesOK' /\ NewestOK' /\ Faultless'
  BY <1>1 DEF IInv, FilesOK, NewestOK, Faultless, cardVars, writerVars, Newest
<1>6. Positioned' /\ Chained'
  BY DEF Positioned, Chained
<1> QED
  BY <1>3, <1>4, <1>5, <1>6 DEF IInv

LEMMA PushInv ==
  ASSUME IInv, Push
  PROVE  IInv'
<1> DEFINE rec == [kind |-> sent'.kind, sid |-> session', t |-> sent'.t]
<1>1. live \in BOOLEAN /\ mark \in Time /\ session \in 0..MaxSessions
      /\ (live => session > 0)
  BY DEF IInv, Types
<1>2. /\ rec \in Rec
      /\ rec.kind = "start" => rec.t = 0
      /\ rec.kind # "start" => live /\ rec.sid = session /\ rec.t = mark + 1
      /\ live' \in BOOLEAN /\ (live' => rec.kind # "end")
      /\ mark' = rec.t /\ session' = rec.sid
  <2>1. CASE Begin /\ session < MaxSessions /\ session' = session + 1
    <3>1. live' = TRUE /\ mark' = 0 /\ sent' = [kind |-> "start", t |-> 0]
      BY <2>1 DEF Begin
    <3>2. live' \in BOOLEAN
      BY <3>1
    <3>3. session' \in 1..MaxSessions
      BY <1>1, <2>1, LogAssumption
    <3>4. rec = [kind |-> "start", sid |-> session', t |-> 0]
      BY <3>1
    <3> HIDE DEF rec
    <3> QED
      BY <3>1, <3>2, <3>3, <3>4, LogAssumption DEF Rec
  <2>2. CASE Record /\ mark' = mark + 1 /\ UNCHANGED session
    <3>1. live /\ live' = live /\ mark' \in Time /\ sent' = [kind |-> "body", t |-> mark']
      BY <2>2 DEF Record
    <3>2. session \in 1..MaxSessions
      BY <1>1, <3>1, LogAssumption
    <3>3. rec = [kind |-> "body", sid |-> session, t |-> mark']
      BY <2>2, <3>1
    <3> HIDE DEF rec
    <3> QED
      BY <1>1, <2>2, <3>1, <3>2, <3>3 DEF Rec
  <2>3. CASE End /\ mark' = mark + 1 /\ UNCHANGED session
    <3>1. live /\ live' = FALSE /\ mark' \in Time /\ sent' = [kind |-> "end", t |-> mark']
      BY <2>3 DEF End
    <3>2. session \in 1..MaxSessions
      BY <1>1, <3>1, LogAssumption
    <3>3. rec = [kind |-> "end", sid |-> session, t |-> mark']
      BY <2>3, <3>1
    <3>4. live' \in BOOLEAN
      BY <3>1
    <3> HIDE DEF rec
    <3> QED
      BY <1>1, <2>3, <3>1, <3>2, <3>3, <3>4 DEF Rec
  <2> QED
    BY <2>1, <2>2, <2>3 DEF Push, Emit
<1>3. UNCHANGED <<logVars, crashes>>
  BY DEF Push
<1>4. CASE Accept(rec) /\ UNCHANGED dropped
  <2>1. q' = Append(q, rec) /\ Len(q) < N
    BY <1>4 DEF Accept
  <2> HIDE DEF rec
  <2> QED
    BY <1>2, <1>3, <1>4, <2>1, AcceptInv
<1>5. CASE Refuse /\ dropped' = TRUE
  <2>1. UNCHANGED q
    BY <1>5 DEF Refuse
  <2>2. mark' \in Time /\ session' \in 1..MaxSessions
    <3> HIDE DEF rec
    <3> QED
      BY <1>2 DEF Rec
  <2>3. session' \in 0..MaxSessions /\ session' > 0
    BY <2>2, LogAssumption
  <2> QED
    BY <1>2, <1>3, <1>5, <2>1, <2>2, <2>3, RefuseInv
<1> QED
  BY <1>4, <1>5 DEF Push

-----------------------------------------------------------------------------
(* Loss of power *)

\* A cut is the beginning of the file, but for a last line that may be a piece.
LEMMA CutIsBeginning ==
  ASSUME NEW f \in FileType, NEW c \in Cuts(f)
  PROVE  /\ c \in Seq(Line)
         /\ Prefix(f.durable, f.lines) =>
              /\ Len(c) <= Len(f.lines)
              /\ \A k \in DOMAIN c :
                   /\ c[k].sid = f.lines[k].sid /\ c[k].t = f.lines[k].t
                   /\ c[k].kind # f.lines[k].kind =>
                        c[k].kind = "part" /\ k = Len(c)
<1>1. f.lines \in Seq(Line) /\ f.durable \in Seq(Line)
      /\ Len(f.lines) \in Nat /\ Len(f.durable) \in Nat
  BY DEF FileType
<1>2. CASE c = f.durable
  BY <1>1, <1>2 DEF Prefix
<1>3. CASE \E k \in Len(f.durable)..Len(f.lines) : c = SubSeq(f.lines, 1, k)
  BY <1>1, <1>3
<1>4. CASE \E k \in (Len(f.durable) + 1)..Len(f.lines) :
             c = Append(SubSeq(f.lines, 1, k - 1), [f.lines[k] EXCEPT !.kind = "part"])
  <2>1. PICK k \in (Len(f.durable) + 1)..Len(f.lines) :
          c = Append(SubSeq(f.lines, 1, k - 1), [f.lines[k] EXCEPT !.kind = "part"])
    BY <1>4
  <2> DEFINE piece == [f.lines[k] EXCEPT !.kind = "part"]
             whole == SubSeq(f.lines, 1, k - 1)
  <2>2. f.lines[k] \in Line /\ k \in Nat \ {0} /\ k <= Len(f.lines)
    BY <1>1
  <2>3. "part" \in Kinds
    BY DEF Kinds
  <2>4. /\ piece \in Line /\ piece.kind = "part"
        /\ piece.sid = f.lines[k].sid /\ piece.t = f.lines[k].t
    BY <2>2, <2>3, LineOfKind
  <2>5. /\ whole \in Seq(Line) /\ Len(whole) = k - 1
        /\ \A j \in 1..(k - 1) : whole[j] = f.lines[j]
    BY <1>1, <2>2
  <2>6. c = Append(whole, piece)
    BY <2>1
  <2> HIDE DEF piece, whole
  <2>7. /\ c \in Seq(Line) /\ Len(c) = k /\ DOMAIN c = 1..k
        /\ c[k] = piece /\ \A j \in 1..(k - 1) : c[j] = f.lines[j]
    BY <2>2, <2>4, <2>5, <2>6
  <2> QED
    BY <2>2, <2>4, <2>7
<1> QED
  BY <1>2, <1>3, <1>4 DEF Cuts

LEMMA PowerLossInv ==
  ASSUME IInv, PowerLoss
  PROVE  IInv'
<1>1. /\ live' = FALSE /\ mark' = 0 /\ q' = <<>> /\ open' = FALSE /\ failed' = FALSE
      /\ consec' = 0 /\ unsynced' = 0 /\ cur' = NoLine /\ step' = "idle"
      /\ UNCHANGED <<faults, session, dropped>>
  BY DEF PowerLoss
<1>2. PICK left \in [DOMAIN files -> UNION {Cuts(files[i]) : i \in DOMAIN files}] :
        /\ \A i \in DOMAIN files : left[i] \in Cuts(files[i])
        /\ files' = [i \in DOMAIN files |->
                       [files[i] EXCEPT !.lines = left[i], !.durable = left[i]]]
  BY DEF PowerLoss
<1>3. files \in Seq(FileType)
  BY DEF IInv, Types
<1>4. DOMAIN files' = DOMAIN files /\ DOMAIN files = 1..Len(files) /\ Len(files) \in Nat
  <2>1. DOMAIN files' = DOMAIN files
    BY <1>2, Zenon
  <2> QED
    BY <1>3, <2>1
<1>5. ASSUME NEW i \in DOMAIN files
      PROVE  /\ files[i] \in FileType /\ files'[i] \in FileType
             /\ files'[i].lines = left[i] /\ files'[i].durable = left[i]
             /\ files'[i].sid = files[i].sid /\ files'[i].clean = files[i].clean
  <2>1. files[i] \in FileType
    BY <1>3
  <2>2. left[i] \in Seq(Line)
    BY <1>2, <2>1, CutIsBeginning
  <2>3. files'[i] = [files[i] EXCEPT !.lines = left[i], !.durable = left[i]]
    BY <1>2
  <2> QED
    BY <2>1, <2>2, <2>3 DEF FileType
<1>6. files' \in Seq(FileType)
  <2>1. files' = [i \in 1..Len(files) |-> files'[i]]
    BY <1>2, <1>4
  <2> QED
    BY <1>4, <1>5, <2>1
<1>7. Types'
  <2>1. live' \in BOOLEAN /\ open' \in BOOLEAN /\ failed' \in BOOLEAN /\ ~ live'
    BY <1>1
  <2>2. /\ consec' \in 0..Latch /\ unsynced' \in Nat /\ mark' \in Time
        /\ q' \in Seq(Rec) /\ Len(q') <= N
    BY <1>1, WriterAssumption, LogAssumption
  <2> QED
    BY <1>1, <1>6, <2>1, <2>2 DEF IInv, Types
<1>8. WriterOK'
  BY <1>1 DEF WriterOK, NoLine, Busy
<1>9. FilesOK'
  <2> SUFFICES ASSUME NEW i \in DOMAIN files, files[i].clean
               PROVE  /\ Prefix(left[i], left[i]) /\ Shaped(left[i])
                      /\ ~ dropped => Numbered(left[i], files[i].sid)
    BY <1>1, <1>4, <1>5 DEF FilesOK
  <2> DEFINE f == files[i]
             c == left[i]
  <2>1. f \in FileType /\ c \in Cuts(f)
    BY <1>2, <1>5
  <2>2. /\ Prefix(f.durable, f.lines) /\ Shaped(f.lines)
        /\ ~ dropped => Numbered(f.lines, f.sid)
    BY DEF IInv, FilesOK
  <2>3. f.lines \in Seq(Line)
    BY <2>1 DEF FileType
  <2> HIDE DEF f, c
  <2>4. /\ c \in Seq(Line) /\ Len(c) <= Len(f.lines)
        /\ \A k \in DOMAIN c : /\ c[k].sid = f.lines[k].sid /\ c[k].t = f.lines[k].t
                               /\ c[k].kind # f.lines[k].kind =>
                                    c[k].kind = "part" /\ k = Len(c)
    BY <2>1, <2>2, CutIsBeginning
  <2>5. /\ DOMAIN c = 1..Len(c) /\ DOMAIN f.lines = 1..Len(f.lines)
        /\ Len(c) \in Nat /\ Len(f.lines) \in Nat
    BY <2>3, <2>4
  <2>6. Prefix(c, c)
    BY <2>5 DEF Prefix
  <2>7. Shaped(c)
    BY <2>2, <2>4, <2>5 DEF Shaped
  <2>8. ~ dropped => Numbered(c, f.sid)
    BY <2>2, <2>4, <2>5 DEF Numbered
  <2> QED
    BY <2>6, <2>7, <2>8 DEF f, c
<1>10. NewestOK' /\ Positioned'
  BY <1>1 DEF NewestOK, Positioned, NoLine
<1>11. Chained'
  BY <1>1 DEF Chained
<1>12. Faultless'
  BY <1>1, <1>4, <1>5 DEF IInv, Faultless
<1> QED
  BY <1>7, <1>8, <1>9, <1>10, <1>11, <1>12 DEF IInv

-----------------------------------------------------------------------------
(* The theorems *)

LEMMA InitInv == Init => IInv
<1> SUFFICES ASSUME Init PROVE IInv
  OBVIOUS
<1>1. /\ live = FALSE /\ mark = 0 /\ q = <<>> /\ files = <<>> /\ faults = 0
      /\ open = FALSE /\ failed = FALSE /\ consec = 0 /\ unsynced = 0
      /\ cur = NoLine /\ step = "idle" /\ session = 0 /\ dropped = FALSE
  BY DEF Init, ProtoInit, FifoInit, LogInit, WriterInit
<1>2. /\ live \in BOOLEAN /\ open \in BOOLEAN /\ failed \in BOOLEAN /\ dropped \in BOOLEAN
      /\ ~ live /\ ~ open /\ ~ failed
  BY <1>1
<1>3. Types
  <2>1. files \in Seq(FileType) /\ q \in Seq(Rec) /\ Len(q) <= N
    BY <1>1, LogAssumption
  <2>2. /\ consec \in 0..Latch /\ unsynced \in Nat /\ faults \in Nat
        /\ session \in 0..MaxSessions /\ mark \in Time
    BY <1>1, WriterAssumption, LogAssumption
  <2> QED
    BY <1>1, <1>2, <2>1, <2>2 DEF Types
<1>4. WriterOK /\ FilesOK /\ NewestOK /\ Positioned /\ Chained /\ Faultless
  BY <1>1, <1>2 DEF WriterOK, FilesOK, NewestOK, Positioned, Chained, Faultless, NoLine, Busy
<1> QED
  BY <1>3, <1>4 DEF IInv

LEMMA NextInv == IInv /\ [Next]_vars => IInv'
<1> SUFFICES ASSUME IInv, [Next]_vars PROVE IInv'
  OBVIOUS
<1>1. CASE Push
  BY <1>1, PushInv
<1>2. CASE Drain
  BY <1>2, DrainInv
<1>3. CASE Rest
  BY <1>3, StoreInv DEF Rest, Aside
<1>4. CASE Store
  BY <1>4, StoreInv DEF Store, Aside
<1>5. CASE PowerLoss
  BY <1>5, PowerLossInv
<1>6. CASE UNCHANGED vars
  BY <1>6 DEF vars, protoVars, fifoVars, logVars, cardVars, writerVars, IInv, Types,
              WriterOK, FilesOK, NewestOK, Positioned, Chained, Faultless, Last, Tracking,
              Newest
<1> QED
  BY <1>1, <1>2, <1>3, <1>4, <1>5, <1>6 DEF Next, StorageTask

\* Whatever the card, the power and the ring do, in whatever order, the writer and
\* its files stay as IInv says.
THEOREM Invariance == Spec => []IInv
<1>1. Init => IInv
  BY InitInv
<1>2. IInv /\ [Next]_vars => IInv'
  BY NextInv
<1> QED
  BY <1>1, <1>2, PTL DEF Spec

\* The writer's fields and what is on the card keep their types; the count of failed
\* appends stops at the latch.
THEOREM TypeCorrect == Spec => []TypeOK
<1>1. IInv => TypeOK
  <2> SUFFICES ASSUME IInv PROVE TypeOK
    OBVIOUS
  <2>1. ASSUME NEW i \in DOMAIN files
        PROVE  /\ files[i].sid \in 1..MaxSessions /\ files[i].clean \in BOOLEAN
               /\ \A k \in DOMAIN files[i].lines : files[i].lines[k] \in Line
    <3>1. files[i] \in FileType
      BY DEF IInv, Types
    <3>2. files[i].lines \in Seq(Line)
      BY <3>1 DEF FileType
    <3>3. \A k \in DOMAIN files[i].lines : files[i].lines[k] \in Line
      BY <3>2
    <3> QED
      BY <3>1, <3>3 DEF FileType
  <2>2. {open, failed, live, dropped} \subseteq BOOLEAN
    BY Zenon DEF IInv, Types
  <2>3. cur \in Line
    BY LogAssumption DEF IInv, Types, Rec, NoLine, Line, Kinds
  <2> QED
    BY <2>1, <2>2, <2>3 DEF IInv, Types, TypeOK
<1> QED
  BY <1>1, Invariance, PTL

\* Lines as the writer leaves them, with a meta line first, are a session log.
LEMMA ShapedIsLog ==
  ASSUME NEW lines \in Seq(Line), Shaped(lines), lines # <<>>, lines[1].kind = "meta"
  PROVE  Verdict(lines) = "ok"
<1> DEFINE c == Complete(lines)
<1>1. Len(lines) \in Nat \ {0} /\ DOMAIN lines = 1..Len(lines)
  BY EmptyByLen
<1>2. /\ c \in Seq(Line) /\ Len(c) \in Nat \ {0} /\ Len(c) <= Len(lines)
      /\ DOMAIN c = 1..Len(c)
      /\ \A k \in DOMAIN c : c[k] = lines[k] /\ lines[k].kind # "part"
  <2>1. CASE lines[Len(lines)].kind = "part"
    <3>1. Len(lines) # 1
      BY <2>1
    <3>2. c = SubSeq(lines, 1, Len(lines) - 1)
      BY <2>1 DEF Complete
    <3>3. /\ c \in Seq(Line) /\ Len(c) = Len(lines) - 1 /\ DOMAIN c = 1..Len(c)
          /\ \A k \in DOMAIN c : c[k] = lines[k]
      BY <1>1, <3>1, <3>2
    <3> HIDE DEF c
    <3> QED
      BY <1>1, <3>1, <3>3 DEF Shaped
  <2>2. CASE lines[Len(lines)].kind # "part"
    BY <1>1, <2>2 DEF Complete, Shaped
  <2> QED
    BY <2>1, <2>2
<1> HIDE DEF c
<1>3. \A k \in DOMAIN c : /\ c[k].kind \in {"meta", "body", "end"}
                          /\ c[k].kind = "meta" <=> k = 1
  BY <1>1, <1>2 DEF Shaped
<1>4. Parsed(lines) = c
  <2>1. Len(c) \in DOMAIN c
    BY <1>2
  <2>2. c[Len(c)].kind # "junk"
    BY <1>3, <2>1
  <2> QED
    BY <2>2 DEF Parsed, c
<1>5. c # <<>> /\ c[1].kind = "meta"
  BY <1>2, <1>3, EmptyByLen
<1>6. \A i \in 2..Len(c) : c[i].kind # "meta"
  BY <1>2, <1>3
<1>7. ~ \E i \in DOMAIN c : c[i].kind = "junk"
  BY <1>3
<1> QED
  BY <1>4, <1>5, <1>6, <1>7 DEF Verdict

\* Crash recovery: any file that no append has failed on, and whose meta line is safe,
\* is read as a session log, however often power is lost and wherever.
THEOREM Recovery == Spec => []CleanLogsRecover
<1>1. IInv => CleanLogsRecover
  <2> SUFFICES ASSUME IInv, NEW i \in DOMAIN files, files[i].clean,
                      files[i].durable # <<>>, files[i].durable[1].kind = "meta"
               PROVE  Verdict(files[i].lines) = "ok"
    BY DEF CleanLogsRecover
  <2> DEFINE f == files[i]
  <2>1. f \in FileType
    BY DEF IInv, Types
  <2>2. f.lines \in Seq(Line) /\ f.durable \in Seq(Line)
    BY <2>1 DEF FileType
  <2>3. Prefix(f.durable, f.lines) /\ Shaped(f.lines)
    BY DEF IInv, FilesOK
  <2>4. 1 \in DOMAIN f.durable /\ 1 <= Len(f.durable) /\ Len(f.durable) \in Nat
    BY <2>2, EmptyByLen
  <2>5. f.lines # <<>> /\ f.lines[1].kind = "meta"
    BY <2>2, <2>3, <2>4, EmptyByLen DEF Prefix
  <2> QED
    BY <2>2, <2>3, <2>5, ShapedIsLog
<1> QED
  BY <1>1, Invariance, PTL

\* A file is of one session and has its records in order without a gap, as long as
\* the ring has refused nothing.
THEOREM OneSession == Spec => []LogsHoldOneSession
<1>1. IInv => LogsHoldOneSession
  <2> SUFFICES ASSUME IInv, NEW i \in DOMAIN files, ~ dropped, files[i].clean,
                      NEW k \in 2..Len(Complete(files[i].lines))
               PROVE  /\ files[i].lines[k].sid = files[i].sid
                      /\ files[i].lines[k].t = k - 1
                      /\ files[i].lines[k].kind = "end" => k = Len(files[i].lines)
    BY DEF LogsHoldOneSession
  <2> DEFINE f == files[i]
  <2>1. f \in FileType
    BY DEF IInv, Types
  <2>2. f.lines \in Seq(Line)
    BY <2>1 DEF FileType
  <2>3. Numbered(f.lines, f.sid)
    BY DEF IInv, FilesOK
  <2>4. Len(Complete(f.lines)) \in Nat /\ Len(Complete(f.lines)) <= Len(f.lines)
    BY <2>2, EmptyByLen DEF Complete
  <2>5. k \in DOMAIN f.lines /\ k > 1
    BY <2>2, <2>4
  <2> QED
    BY <2>3, <2>5 DEF Numbered
<1> QED
  BY <1>1, Invariance, PTL

\* Once the storage task has caught up, without a refusal or a fault, the newest file
\* holds the whole session so far.
THEOREM NothingLost == Spec => []CaughtUpMeansComplete
<1>1. IInv => CaughtUpMeansComplete
  <2> SUFFICES ASSUME IInv, live \/ mark > 0, ~ dropped, faults = 0, q = <<>>, step = "idle"
               PROVE  files[Newest].sid = session /\ Len(files[Newest].lines) = mark + 1
    BY DEF CaughtUpMeansComplete
  <2>1. cur.kind # "none" /\ cur.sid = session /\ cur.t = mark
    BY DEF IInv, Chained, Last, Tracking
  <2>2. files # <<>>
    BY <2>1 DEF IInv, Positioned
  <2>3. Newest \in DOMAIN files
    BY <2>2, EmptyByLen DEF IInv, Types, Newest
  <2>4. files[Newest].clean
    BY <2>3 DEF IInv, Faultless
  <2> QED
    BY <2>1, <2>4 DEF IInv, Positioned
<1> QED
  BY <1>1, Invariance, PTL

\* While it is latched the writer makes no call of the card but to create a file for
\* the next session.
THEOREM LatchHolds == Spec => FailSoft
<1>1. IInv /\ [Next]_vars => [failed /\ failed' => UNCHANGED files]_vars
  <2> SUFFICES ASSUME IInv, Next, failed, failed' PROVE UNCHANGED files
    OBVIOUS
  <2>1. ~ open /\ step \notin Busy
    BY DEF IInv, WriterOK
  <2>2. CASE Push
    BY <2>2 DEF Push, logVars, cardVars
  <2>3. CASE Drain
    BY <2>3 DEF Drain, Handle, cardVars
  <2>4. CASE Rest
    BY <2>4 DEF Rest, Idle, cardVars
  <2>5. CASE Store
    <3>1. Create
      BY <2>1, <2>5 DEF Store, StorageCall, SyncOld, CloseOld, AppendMeta, SyncMeta,
                        AppendRecord, SyncDue, SyncEnd, CloseEnd, CloseDead, Busy
    <3> QED
      BY <3>1 DEF Create
  <2>6. CASE PowerLoss
    BY <2>6 DEF PowerLoss
  <2> QED
    BY <2>2, <2>3, <2>4, <2>5, <2>6 DEF Next, StorageTask
<1> QED
  BY <1>1, Invariance, PTL DEF Spec, FailSoft
=============================================================================
