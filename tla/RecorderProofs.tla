--------------------------- MODULE RecorderProofs ---------------------------
(***************************************************************************)
(* Proofs about Recorder, for any number of messages, of Ctrl-C and of     *)
(* flushes that find the disk full, at any moments.                        *)
(***************************************************************************)
EXTENDS Recorder, FiniteSetTheorems, SequenceTheorems, TLAPS

-----------------------------------------------------------------------------
(* The inductive invariant *)

Stamps == [kind : {"event"}, n : Nat \ {0}, t : Nat]
Lines == [kind : {"meta", "event", "end"}, n : Nat, t : Nat]

\* Where the main thread can be
Steps == [open |-> {"create", "flush"}, run |-> {"get", "append", "flush"},
          drain |-> {"stop", "get", "append", "flush"},
          close |-> {"end_t", "end", "flush", "port"}, done |-> {"end_t"}, dead |-> {"end_t"}]

MidiTypes == clock \in Nat /\ stamped \in Nat /\ hand \in Stamps \cup {None} /\ queue \in Seq(Stamps)
FileTypes == buf \in Seq(Lines) /\ disk \in Seq(Lines) /\ torn \in BOOLEAN /\ last_t \in Nat
MainTypes ==
  /\ stop \in BOOLEAN /\ mode \in DOMAIN Steps /\ pc \in Steps[mode]
  /\ got \in Stamps \cup {None} /\ end_t \in Nat
HistTypes ==
  /\ breaks \in Nat /\ faults \in Nat
  /\ seen \in [stamped : Nat, queued : Nat, mode : DOMAIN Steps]
Types == MidiTypes /\ FileTypes /\ MainTypes /\ HistTypes

\* The lines of the session, those that are not out yet included
file == disk \o buf
Held == {queue[i] : i \in DOMAIN queue}
Waiting == ({got, hand} \cup Held) \ {None}

Where ==
  /\ got # None <=> pc = "append"
  /\ pc = "flush" => buf # <<>>
  /\ torn => buf # <<>>
  /\ mode \in {"open", "run"} => ~ stop
  /\ pc = "create" => file = <<>>
  /\ pc # "create" /\ mode # "dead" => file # <<>>
  /\ pc = "end" => last_t <= end_t
  /\ pc = "port" \/ mode = "done" => buf = <<>>
  /\ last_t <= clock /\ end_t <= clock

\* The records on their way are in order
Prior(a, b) == a.n < b.n /\ a.t <= b.t
OnTheWay ==
  /\ \A x \in Waiting : x.t <= clock /\ x.n <= stamped
  /\ hand # None => hand.n = stamped /\ \A x \in ({got} \cup Held) \ {None} : Prior(x, hand)
  /\ got # None => \A x \in Held : Prior(got, x)
  /\ \A i, j \in DOMAIN queue : i < j => Prior(queue[i], queue[j])

\* The lines are in order, and before what is on its way
Ended == file[Len(file)].kind = "end"
Filed ==
  /\ \A i \in DOMAIN file : /\ file[i].kind = "meta" <=> i = 1
                            /\ file[i].t <= last_t
                            /\ file[i].kind = "event" => file[i].n <= stamped
  /\ \A i, j \in DOMAIN file :
       i < j => /\ file[i].t <= file[j].t /\ file[i].kind # "end"
                /\ file[i].kind = "event" /\ file[j].kind = "event" => file[i].n < file[j].n
AtEnd == mode = "done" \/ (mode = "close" /\ pc \in {"flush", "port"})
Closing ==
  /\ file # <<>> /\ Ended => AtEnd \/ mode = "dead"
  /\ AtEnd => Ended
Ahead ==
  /\ \A i \in DOMAIN file : file[i].kind = "event" => \A x \in Waiting : file[i].n < x.n
  /\ mode \in {"open", "run", "drain"} => \A x \in Waiting : last_t <= x.t

\* What one Ctrl-C costs
Filing == {file[i].n : i \in {j \in DOMAIN file : file[j].kind = "event"}}
Having == Filing \cup {x.n : x \in ({got} \cup Held) \ {None}}
Cost ==
  faults = 0 =>
    /\ breaks = 0 => mode \in {"open", "run"} /\ 1..Queued \subseteq Having
    /\ breaks = 1 =>
         \/ mode = "dead" /\ seen.mode # "run"
         \/ mode = "drain" /\ \E x : 1..seen.queued \ Having \subseteq {x}
         \/ mode \in {"close", "done"} /\ \E x : 1..seen.queued \ Filing \subseteq {x}

IInv == Types /\ Where /\ OnTheWay /\ Filed /\ Closing /\ Ahead /\ Cost

-----------------------------------------------------------------------------
(* Lines and queues *)

LEMMA Regrouped ==
  ASSUME NEW S, NEW r \in Seq(S), NEW s \in Seq(S), NEW t \in Seq(S)
  PROVE  (r \o s) \o t = r \o (s \o t)
  BY ConcatAssociative

\* A line behind the others
LEMMA Written ==
  ASSUME Types, NEW line \in Lines, buf' = Append(buf, line), UNCHANGED disk
  PROVE  /\ file \in Seq(Lines) /\ file' = Append(file, line)
         /\ buf' \in Seq(Lines) /\ buf' # <<>>
<1>1. disk \in Seq(Lines) /\ buf \in Seq(Lines)
  BY DEF Types, FileTypes
<1>2. buf' \in Seq(Lines) /\ buf' # <<>> /\ buf' = buf \o <<line>> /\ <<line>> \in Seq(Lines)
  BY <1>1, AppendProperties, AppendIsConcat
<1>3. file \in Seq(Lines)
  BY <1>1, ConcatProperties DEF file
<1>4. file' = disk \o (buf \o <<line>>)
  BY <1>2 DEF file
<1>5. file' = file \o <<line>>
  BY <1>1, <1>2, <1>4, ConcatAssociative DEF file
<1> QED BY <1>2, <1>3, <1>5, AppendIsConcat

LEMMA FileTyped ==
  ASSUME Types
  PROVE  /\ file \in Seq(Lines) /\ DOMAIN file = 1..Len(file) /\ Len(file) \in Nat
         /\ file # <<>> <=> Len(file) > 0
         /\ Len(disk) \in Nat /\ Len(disk) <= Len(file)
         /\ \A i \in 1..Len(disk) : disk[i] = file[i]
         /\ buf = <<>> => file = disk
         /\ \A i \in DOMAIN file : file[i] \in Lines /\ file[i].n \in Nat /\ file[i].t \in Nat
<1>1. disk \in Seq(Lines) /\ buf \in Seq(Lines)
  BY DEF Types, FileTypes
<1>2. /\ file \in Seq(Lines) /\ Len(file) = Len(disk) + Len(buf)
      /\ \A i \in 1..(Len(disk) + Len(buf)) :
            file[i] = IF i <= Len(disk) THEN disk[i] ELSE buf[i - Len(disk)]
  BY <1>1, ConcatProperties DEF file
<1>3. Len(disk) \in Nat /\ Len(buf) \in Nat
  BY <1>1
<1>4. \A i \in 1..Len(disk) : disk[i] = file[i]
  BY <1>2, <1>3
<1>5. buf = <<>> => file = disk
  BY <1>1, ConcatEmptySeq DEF file
<1>6. \A i \in DOMAIN file : file[i] \in Lines
  BY <1>2
<1> QED BY <1>2, <1>3, <1>4, <1>5, <1>6 DEF Lines

\* What is flushed, in whole or in part, is the same lines
LEMMA Flushed ==
  ASSUME Types, disk' = disk \o buf, buf' = <<>>
  PROVE  file' = file /\ disk' \in Seq(Lines) /\ buf' \in Seq(Lines)
<1>1. disk \in Seq(Lines) /\ buf \in Seq(Lines)
  BY DEF Types, FileTypes
<1>2. disk \o buf \in Seq(Lines)
  BY <1>1, ConcatProperties
<1>3. (disk \o buf) \o <<>> = disk \o buf
  BY <1>2, ConcatEmptySeq
<1> QED BY <1>2, <1>3, EmptySeq DEF file

LEMMA Pieces ==
  ASSUME NEW S, NEW s \in Seq(S), NEW k \in 0..Len(s)
  PROVE  /\ SubSeq(s, 1, k) \in Seq(S)
         /\ SubSeq(s, k + 1, Len(s)) \in Seq(S) /\ Len(SubSeq(s, k + 1, Len(s))) = Len(s) - k
         /\ SubSeq(s, 1, k) \o SubSeq(s, k + 1, Len(s)) = s
<1>1. Len(s) \in Nat /\ k \in Nat /\ k <= Len(s)
  BY LenProperties
<1>2. SubSeq(s, 1, k) \in Seq(S)
  <2>1. 1 \in Int /\ k \in Int /\ \A i \in 1..k : s[i] \in S
    BY <1>1
  <2> QED BY <2>1, SubSeqProperties
<1>3. SubSeq(s, k + 1, Len(s)) \in Seq(S) /\ Len(SubSeq(s, k + 1, Len(s))) = Len(s) - k
  <2>1. k + 1 \in Int /\ Len(s) \in Int /\ \A i \in (k + 1)..Len(s) : s[i] \in S
    BY <1>1
  <2>2. IF k + 1 <= Len(s) THEN Len(s) - (k + 1) + 1 = Len(s) - k ELSE Len(s) - k = 0
    BY <1>1
  <2> QED BY <2>1, <2>2, SubSeqProperties
<1>4. SubSeq(s, 1, k) \o SubSeq(s, k + 1, Len(s)) = s
  <2>1. 1 \in 1..(Len(s) + 1) /\ k \in (1 - 1)..Len(s) /\ Len(s) \in k..Len(s)
    BY <1>1
  <2>2. SubSeq(s, 1, k) \o SubSeq(s, k + 1, Len(s)) = SubSeq(s, 1, Len(s))
    BY <1>1, <2>1, ConcatAdjacentSubSeq
  <2> QED BY <1>1, <2>2, SubSeqFull
<1> QED BY <1>2, <1>3, <1>4

LEMMA PartlyFlushed ==
  ASSUME Types, buf # <<>>, NEW k \in 0..(Len(buf) - 1)
  PROVE  disk' = disk \o SubSeq(buf, 1, k) /\ buf' = SubSeq(buf, k + 1, Len(buf)) =>
           file' = file /\ disk' \in Seq(Lines) /\ buf' \in Seq(Lines) /\ buf' # <<>>
<1> DEFINE b == SubSeq(buf, 1, k)
           c == SubSeq(buf, k + 1, Len(buf))
<1>1. disk \in Seq(Lines) /\ buf \in Seq(Lines)
  BY DEF Types, FileTypes
<1>2. k \in 0..Len(buf)
  BY <1>1
<1>3. Len(buf) - k > 0
  BY <1>1
<1>4. b \in Seq(Lines) /\ c \in Seq(Lines) /\ Len(c) = Len(buf) - k
  BY <1>1, <1>2, Pieces
<1>5. b \o c = buf
  BY <1>1, <1>2, Pieces
<1>6. c # <<>>
  <2>1. Len(<<>>) = 0
    BY EmptySeq
  <2>2. Len(c) > 0
    BY <1>3, <1>4
  <2> HIDE DEF c
  <2> QED BY <2>1, <2>2
<1> HIDE DEF b, c
<1>7. (disk \o b) \o c = disk \o (b \o c)
  BY <1>1, <1>4, Regrouped
<1>8. disk \o b \in Seq(Lines)
  BY <1>1, <1>4, ConcatProperties
<1>9. disk' = disk \o b /\ buf' = c =>
        file' = file /\ disk' \in Seq(Lines) /\ buf' \in Seq(Lines) /\ buf' # <<>>
  BY <1>4, <1>5, <1>6, <1>7, <1>8 DEF file
<1> QED BY <1>9 DEF b, c

\* The queue with one more, and with one fewer
LEMMA Queues ==
  ASSUME NEW s \in Seq(Stamps), NEW x \in Stamps
  PROVE  /\ Append(s, x) \in Seq(Stamps) /\ DOMAIN s = 1..Len(s) /\ Len(s) \in Nat
         /\ DOMAIN Append(s, x) = 1..(Len(s) + 1) /\ Append(s, x)[Len(s) + 1] = x
         /\ \A i \in 1..Len(s) : Append(s, x)[i] = s[i]
  BY AppendProperties, LenProperties

LEMMA Heads ==
  ASSUME NEW s \in Seq(Stamps), s # <<>>
  PROVE  /\ Head(s) \in Stamps /\ Tail(s) \in Seq(Stamps) /\ Head(s) = s[1]
         /\ DOMAIN s = 1..Len(s) /\ Len(s) \in Nat \ {0} /\ DOMAIN Tail(s) = 1..(Len(s) - 1)
         /\ \A i \in 1..(Len(s) - 1) : Tail(s)[i] = s[i + 1]
<1>1. Head(s) \in Stamps /\ Tail(s) \in Seq(Stamps) /\ Len(Tail(s)) = Len(s) - 1
      /\ \A i \in 1..Len(Tail(s)) : Tail(s)[i] = s[i + 1]
  BY HeadTailProperties
<1>2. Head(s) = s[1] /\ DOMAIN s = 1..Len(s) /\ Len(s) \in Nat \ {0}
  BY EmptySeq, LenProperties
<1>3. DOMAIN Tail(s) = 1..(Len(s) - 1)
  BY <1>1, LenProperties
<1> QED BY <1>1, <1>2, <1>3

LEMMA Kinds ==
  /\ \A x \in Stamps : x # None /\ x.kind = "event" /\ x.n \in Nat \ {0} /\ x.t \in Nat /\ x \in Lines
  /\ Meta \in Lines /\ Meta.kind = "meta" /\ Meta.t = 0 /\ None \notin Stamps
  /\ \A t \in Nat : [kind |-> "end", n |-> 0, t |-> t] \in Lines
  BY DEF Stamps, Lines, None, Meta

LEMMA WaitingTyped ==
  ASSUME Types
  PROVE  Held \subseteq Stamps /\ Waiting \subseteq Stamps
  BY DEF Types, MidiTypes, MainTypes, Waiting, Held

LEMMA QueuedTyped ==
  ASSUME Types, OnTheWay
  PROVE  /\ Queued \in Nat /\ Queued <= stamped
         /\ hand = None => Queued = stamped
         /\ hand # None => hand \in Stamps /\ Queued = stamped - 1 /\ hand.n = Queued + 1
  BY Kinds DEF Types, MidiTypes, OnTheWay, Queued

-----------------------------------------------------------------------------
(* The clock and the MIDI thread *)

LEMMA IInvInit == Init => IInv
<1> SUFFICES ASSUME Init PROVE IInv
  OBVIOUS
<1>1. /\ <<>> \in Seq(Lines) /\ <<>> \in Seq(Stamps) /\ DOMAIN <<>> = {}
      /\ <<>> \o <<>> = <<>>
  BY EmptySeq, ConcatEmptySeq
<1>2. file = <<>> /\ DOMAIN file = {} /\ Held = {} /\ Waiting = {} /\ Queued = 0
  BY <1>1 DEF Init, file, Held, Waiting, Queued
<1>3. Types
  BY <1>1 DEF Init, Types, MidiTypes, FileTypes, MainTypes, HistTypes, Steps
<1>4. Where /\ OnTheWay
  BY <1>1, <1>2 DEF Init, Where, OnTheWay
<1>5. Filed /\ Closing /\ Ahead
  BY <1>2 DEF Init, Filed, Closing, Ahead, AtEnd
<1>6. Cost
  BY <1>2 DEF Init, Cost
<1> QED BY <1>3, <1>4, <1>5, <1>6 DEF IInv

\* What the other threads do to the main thread's part
LEMMA Aside ==
  ASSUME IInv, UNCHANGED fileVars, UNCHANGED mainVars, UNCHANGED histVars,
         clock' \in Nat, clock <= clock', stamped' \in Nat, stamped <= stamped',
         MidiTypes', OnTheWay', Held \subseteq Held', Queued' = Queued \/ Queued' \in {x.n : x \in Held'},
         \A x \in Waiting' : \/ x \in Waiting
                             \/ /\ \A i \in DOMAIN file : file[i].kind = "event" => file[i].n < x.n
                                /\ last_t <= x.t,
         Queued' \in Nat, Queued' <= Queued + 1
  PROVE  IInv'
<1>1. /\ file' = file /\ UNCHANGED <<mode, pc, got, stop, end_t, buf, torn, disk, last_t>>
      /\ UNCHANGED <<breaks, faults, seen>>
  BY DEF fileVars, mainVars, histVars, file
<1>2. Types'
  BY <1>1 DEF IInv, Types, FileTypes, MainTypes, HistTypes
<1>3. Where'
  <2>1. last_t <= clock' /\ end_t <= clock'
    BY DEF IInv, Where, Types, MidiTypes, FileTypes, MainTypes
  <2> QED BY <1>1, <2>1 DEF IInv, Where
<1>4. Filed'
  <2>1. \A i \in DOMAIN file : file[i].kind = "event" => file[i].n <= stamped'
    <3> SUFFICES ASSUME NEW i \in DOMAIN file, file[i].kind = "event" PROVE file[i].n <= stamped'
      OBVIOUS
    <3>1. file[i] \in Lines /\ file[i].n <= stamped
      BY FileTyped DEF IInv, Filed
    <3> QED BY <3>1 DEF Lines, IInv, Types, MidiTypes
  <2> QED BY <1>1, <2>1 DEF IInv, Filed
<1>5. Closing'
  BY <1>1 DEF IInv, Closing, AtEnd, Ended
<1>6. Ahead'
  BY <1>1 DEF IInv, Ahead
<1>7. Cost'
  <2>1. Filing' = Filing
    BY <1>1 DEF Filing
  <2>2. Having \subseteq Having'
    BY <1>1, <2>1 DEF Having
  <2>3. Queued' = Queued \/ Queued' \in Having'
    <3>1. \A x \in Held' : x \in Stamps /\ x # None
      BY Kinds DEF Held, MidiTypes
    <3> QED BY <3>1 DEF Having
  <2>4. Queued \in Nat
    BY QueuedTyped DEF IInv
  <2>5. 1..Queued \subseteq Having => 1..(Queued') \subseteq Having'
    <3>1. \A k \in 1..(Queued') : k \in 1..Queued \/ k = Queued'
      BY <2>4
    <3> QED BY <2>2, <2>3, <3>1, <2>4
  <2> QED BY <1>1, <2>1, <2>2, <2>5 DEF IInv, Cost
<1> QED BY <1>2, <1>3, <1>4, <1>5, <1>6, <1>7 DEF IInv

LEMMA TickStep == IInv /\ Tick => IInv'
<1> SUFFICES ASSUME IInv, Tick PROVE IInv'
  OBVIOUS
<1>1. /\ clock' = clock + 1 /\ UNCHANGED midiVars /\ UNCHANGED fileVars /\ UNCHANGED mainVars
      /\ UNCHANGED histVars /\ UNCHANGED <<hand, stamped, queue, got>> /\ clock \in Nat
  BY DEF Tick, midiVars, mainVars, IInv, Types, MidiTypes
<1>2. Held' = Held /\ Waiting' = Waiting /\ Queued' = Queued
  BY <1>1 DEF Held, Waiting, Queued
<1>3. MidiTypes'
  BY <1>1 DEF IInv, Types, MidiTypes
<1>4. \A x \in Waiting : x.t \in Nat
  BY WaitingTyped, Kinds DEF IInv
<1>5. OnTheWay'
  <2>1. \A x \in Waiting : x.t <= clock + 1
    BY <1>1, <1>4 DEF IInv, OnTheWay
  <2> QED BY <1>1, <1>2, <2>1 DEF IInv, OnTheWay
<1>6. Queued \in Nat /\ stamped \in Nat /\ clock <= clock' /\ clock' \in Nat
  BY <1>1, QueuedTyped DEF IInv, Types, MidiTypes
<1> QED BY <1>1, <1>2, <1>3, <1>5, <1>6, Aside

LEMMA StampStep == IInv /\ Stamp => IInv'
<1> SUFFICES ASSUME IInv, Stamp PROVE IInv'
  OBVIOUS
<1> DEFINE x == [kind |-> "event", n |-> stamped + 1, t |-> clock]
<1>1. /\ hand = None /\ hand' = x /\ stamped' = stamped + 1 /\ UNCHANGED <<clock, queue>>
      /\ UNCHANGED fileVars /\ UNCHANGED mainVars /\ UNCHANGED histVars /\ got' = got
      /\ clock \in Nat /\ stamped \in Nat /\ queue \in Seq(Stamps) /\ got \in Stamps \cup {None}
  BY DEF Stamp, mainVars, IInv, Types, MidiTypes, MainTypes
<1>2. x \in Stamps /\ x # None /\ x.n = stamped + 1 /\ x.t = clock
  BY <1>1, Kinds DEF Stamps
<1> HIDE DEF x
<1>3. Held' = Held /\ Waiting' = Waiting \cup {x} /\ Waiting = ({got} \cup Held) \ {None}
  BY <1>1, <1>2 DEF Held, Waiting
<1>4. Queued' = Queued /\ Queued \in Nat
  BY <1>1, <1>2, QueuedTyped DEF IInv, Queued
<1>5. MidiTypes'
  BY <1>1, <1>2 DEF MidiTypes
<1>6. ASSUME NEW y \in Waiting PROVE y.n \in Nat /\ y.t \in Nat /\ y.n <= stamped /\ y.t <= clock
  <2>1. y \in Stamps
    BY WaitingTyped DEF IInv
  <2> QED BY <2>1, Kinds DEF IInv, OnTheWay
<1>7. OnTheWay'
  <2>1. \A y \in Waiting : Prior(y, x) /\ y.n <= stamped + 1
    BY <1>1, <1>2, <1>6 DEF Prior
  <2>2. x.t <= clock /\ x.n <= stamped + 1
    BY <1>1, <1>2
  <2> QED BY <1>1, <1>2, <1>3, <1>6, <2>1, <2>2 DEF IInv, OnTheWay
<1>8. /\ \A i \in DOMAIN file : file[i].kind = "event" => file[i].n < x.n
      /\ last_t <= x.t
  <2>1. \A i \in DOMAIN file : file[i].n \in Nat
    BY FileTyped DEF IInv
  <2>2. \A i \in DOMAIN file : file[i].kind = "event" => file[i].n <= stamped
    BY DEF IInv, Filed
  <2>3. last_t <= clock
    BY DEF IInv, Where
  <2> QED BY <1>1, <1>2, <2>1, <2>2, <2>3
<1>9. clock <= clock' /\ stamped <= stamped' /\ clock' \in Nat /\ stamped' \in Nat
  BY <1>1
<1> QED BY <1>1, <1>3, <1>4, <1>5, <1>7, <1>8, <1>9, Aside

LEMMA PutStep == IInv /\ Put => IInv'
<1> SUFFICES ASSUME IInv, Put PROVE IInv'
  OBVIOUS
<1>1. /\ hand # None /\ hand' = None /\ queue' = Append(queue, hand) /\ UNCHANGED <<clock, stamped>>
      /\ UNCHANGED fileVars /\ UNCHANGED mainVars /\ UNCHANGED histVars /\ got' = got
      /\ clock \in Nat /\ stamped \in Nat /\ queue \in Seq(Stamps) /\ got \in Stamps \cup {None}
      /\ hand \in Stamps
  BY DEF Put, mainVars, IInv, Types, MidiTypes, MainTypes
<1> DEFINE m == Len(queue)
<1>2. /\ queue' \in Seq(Stamps) /\ DOMAIN queue = 1..m /\ m \in Nat
      /\ DOMAIN queue' = 1..(m + 1) /\ queue'[m + 1] = hand
      /\ \A i \in 1..m : queue'[i] = queue[i]
  BY <1>1, Queues
<1> HIDE DEF m
<1>3. \A i \in 1..(m + 1) : i \in 1..m \/ i = m + 1
  BY <1>2
<1>4. Held' = Held \cup {hand}
  <2>1. Held' = {queue'[i] : i \in 1..(m + 1)} /\ Held = {queue[i] : i \in 1..m}
    BY <1>2 DEF Held
  <2>2. m + 1 \in 1..(m + 1) /\ \A i \in 1..m : i \in 1..(m + 1)
    BY <1>2
  <2> QED BY <1>2, <1>3, <2>1, <2>2
<1>5. Waiting' = Waiting
  BY <1>1, <1>4 DEF Waiting
<1>6. MidiTypes'
  BY <1>1, <1>2 DEF MidiTypes
<1>7. Queued \in Nat /\ hand.n = Queued + 1 /\ hand.n = stamped /\ Queued' = stamped
  BY <1>1, QueuedTyped DEF IInv, OnTheWay, Queued
<1>8. \A y \in ({got} \cup Held) \ {None} : Prior(y, hand)
  BY <1>1 DEF IInv, OnTheWay
<1>9. OnTheWay'
  <2>1. got # None => \A y \in Held' : Prior(got, y)
    BY <1>4, <1>8 DEF IInv, OnTheWay
  <2>2. ASSUME NEW i \in DOMAIN queue', NEW j \in DOMAIN queue', i < j
        PROVE  Prior(queue'[i], queue'[j])
    <3>1. i \in 1..m
      BY <1>2, <1>3, <2>2
    <3>2. queue[i] \in Held /\ queue[i] # None
      BY <1>1, <1>2, <3>1, Kinds DEF Held
    <3>3. CASE j \in 1..m
      BY <1>2, <2>2, <3>1, <3>3 DEF IInv, OnTheWay
    <3>4. CASE j = m + 1
      BY <1>2, <1>8, <3>1, <3>2, <3>4
    <3> QED BY <1>2, <1>3, <3>3, <3>4
  <2> QED BY <1>1, <1>5, <2>1, <2>2 DEF IInv, OnTheWay
<1>10. Queued' = Queued + 1 /\ Queued' \in {y.n : y \in Held'} /\ Queued' \in Nat
  BY <1>4, <1>7
<1>11. clock <= clock' /\ stamped <= stamped' /\ Queued' <= Queued + 1
  BY <1>1, <1>7, <1>10
<1> QED BY <1>1, <1>4, <1>5, <1>6, <1>9, <1>10, <1>11, Aside

-----------------------------------------------------------------------------
(* The main thread *)

\* A step that leaves the lines and the records on their way as they are
LEMMA Onward ==
  ASSUME IInv, UNCHANGED <<clock, midiVars>>, got' = got, file' = file, last_t' = last_t,
         Types', Where', Closing', Cost',
         mode' \in {"open", "run", "drain"} => mode \in {"open", "run", "drain"}
  PROVE  IInv'
<1>1. Held' = Held /\ Waiting' = Waiting /\ UNCHANGED <<hand, stamped, queue, clock>>
  BY DEF Held, Waiting, midiVars
<1>2. OnTheWay'
  BY <1>1 DEF IInv, OnTheWay
<1>3. Filed' /\ Ahead'
  BY <1>1 DEF IInv, Filed, Ahead
<1> QED BY <1>2, <1>3 DEF IInv

LEMMA CostSame ==
  ASSUME Cost, UNCHANGED <<midiVars, got, breaks, faults, seen>>, file' = file,
         \/ mode' = mode
         \/ mode = "open" /\ mode' = "run"
         \/ mode = "close" /\ mode' = "done"
  PROVE  Cost'
<1>1. Held' = Held /\ Filing' = Filing /\ Queued' = Queued
  BY DEF Held, Filing, Queued, midiVars
<1>2. Having' = Having
  BY <1>1 DEF Having
<1> QED BY <1>1, <1>2 DEF Cost

LEMMA StopStep == IInv /\ Stop => IInv'
<1> SUFFICES ASSUME IInv, Stop PROVE IInv'
  OBVIOUS
<1>1. /\ mode = "drain" /\ mode' = "drain" /\ pc = "stop" /\ pc' = "get" /\ stop' = TRUE
      /\ UNCHANGED <<clock, midiVars>> /\ UNCHANGED midiVars /\ UNCHANGED histVars
      /\ UNCHANGED <<hand, stamped, queue, buf, disk, torn, last_t, got, end_t, breaks, faults, seen>>
      /\ file' = file
  BY DEF Stop, Goto, midiVars, fileVars, histVars, file
<1>2. Types'
  BY <1>1 DEF IInv, Types, MidiTypes, FileTypes, MainTypes, HistTypes, Steps
<1>3. Where'
  BY <1>1 DEF IInv, Where
<1>4. Closing'
  BY <1>1 DEF IInv, Closing, AtEnd, Ended
<1>5. Cost'
  BY <1>1, CostSame DEF IInv
<1> QED BY <1>1, <1>2, <1>3, <1>4, <1>5, Onward

LEMMA ReadEndTimeStep == IInv /\ ReadEndTime => IInv'
<1> SUFFICES ASSUME IInv, ReadEndTime PROVE IInv'
  OBVIOUS
<1>1. /\ mode = "close" /\ mode' = "close" /\ pc = "end_t" /\ pc' = "end" /\ end_t' = clock
      /\ UNCHANGED <<clock, midiVars>> /\ UNCHANGED midiVars /\ UNCHANGED histVars
      /\ UNCHANGED <<hand, stamped, queue, buf, disk, torn, last_t, got, stop, breaks, faults, seen>>
      /\ file' = file /\ clock \in Nat
  BY DEF ReadEndTime, Goto, midiVars, fileVars, histVars, file, IInv, Types, MidiTypes
<1>2. Types'
  BY <1>1 DEF IInv, Types, MidiTypes, FileTypes, MainTypes, HistTypes, Steps
<1>3. Where'
  BY <1>1 DEF IInv, Where
<1>4. Closing'
  BY <1>1 DEF IInv, Closing, AtEnd, Ended
<1>5. Cost'
  BY <1>1, CostSame DEF IInv
<1> QED BY <1>1, <1>2, <1>3, <1>4, <1>5, Onward

LEMMA ClosePortStep == IInv /\ ClosePort => IInv'
<1> SUFFICES ASSUME IInv, ClosePort PROVE IInv'
  OBVIOUS
<1>1. /\ mode = "close" /\ mode' = "done" /\ pc = "port" /\ pc' = "end_t" /\ stop' = TRUE
      /\ UNCHANGED <<clock, midiVars>> /\ UNCHANGED midiVars /\ UNCHANGED histVars
      /\ UNCHANGED <<hand, stamped, queue, buf, disk, torn, last_t, got, end_t, breaks, faults, seen>>
      /\ file' = file
  BY DEF ClosePort, Goto, midiVars, fileVars, histVars, file
<1>2. Types'
  BY <1>1 DEF IInv, Types, MidiTypes, FileTypes, MainTypes, HistTypes, Steps
<1>3. Where'
  BY <1>1 DEF IInv, Where
<1>4. Closing'
  BY <1>1 DEF IInv, Closing, AtEnd, Ended
<1>5. Cost'
  BY <1>1, CostSame DEF IInv
<1> QED BY <1>1, <1>2, <1>3, <1>4, <1>5, Onward

LEMMA FlushStep == IInv /\ Flush => IInv'
<1> SUFFICES ASSUME IInv, Flush PROVE IInv'
  OBVIOUS
<1>1. /\ pc = "flush" /\ disk' = disk \o buf /\ buf' = <<>> /\ torn' = FALSE
      /\ UNCHANGED <<clock, midiVars>> /\ UNCHANGED midiVars /\ UNCHANGED histVars
      /\ UNCHANGED <<hand, stamped, queue, last_t, got, stop, end_t, breaks, faults, seen>>
      /\ mode \in {"open", "run", "drain", "close"} /\ got = None
      /\ mode \in {"open", "run"} => ~ stop
  BY DEF Flush, midiVars, histVars, IInv, Types, MainTypes, Steps, Where
<1>2. \/ mode = "close" /\ mode' = "close" /\ pc' = "port"
      \/ mode = "open" /\ mode' = "run" /\ pc' = "get"
      \/ mode \in {"run", "drain"} /\ mode' = mode /\ pc' = "get"
  BY <1>1 DEF Flush, AfterFlush, Goto
<1>3. file' = file /\ disk' \in Seq(Lines) /\ buf' \in Seq(Lines)
  BY <1>1, Flushed DEF IInv
<1>4. file # <<>>
  BY <1>1 DEF IInv, Where
<1>5. Types'
  <2>1. mode' \in DOMAIN Steps /\ pc' \in Steps[mode']
    BY <1>2 DEF Steps
  <2> QED BY <1>1, <1>3, <2>1 DEF IInv, Types, MidiTypes, FileTypes, MainTypes, HistTypes
<1>6. Where'
  BY <1>1, <1>2, <1>3, <1>4 DEF IInv, Where
<1>7. Closing'
  BY <1>1, <1>2, <1>3 DEF IInv, Closing, AtEnd, Ended
<1>8. Cost'
  BY <1>1, <1>2, <1>3, CostSame DEF IInv
<1> QED BY <1>1, <1>2, <1>3, <1>5, <1>6, <1>7, <1>8, Onward

LEMMA FlushFailsStep == IInv /\ FlushFails => IInv'
<1> SUFFICES ASSUME IInv, FlushFails PROVE IInv'
  OBVIOUS
<1>1. /\ pc = "flush" /\ faults' = faults + 1 /\ buf # <<>> /\ faults \in Nat
      /\ UNCHANGED <<clock, midiVars>> /\ UNCHANGED midiVars
      /\ UNCHANGED <<hand, stamped, queue, last_t, got, stop, end_t, breaks, seen>>
      /\ mode \in {"open", "run", "drain", "close"} /\ got = None
  BY DEF FlushFails, midiVars, IInv, Types, MainTypes, HistTypes, Steps, Where
<1>2. \/ mode \in {"open", "close"} /\ mode' = "dead" /\ pc' = "end_t"
      \/ mode \in {"run", "drain"} /\ mode' = "close" /\ pc' = "end_t"
  BY <1>1 DEF FlushFails, Raise, Goto
<1>3. torn' \in BOOLEAN /\ file' = file /\ disk' \in Seq(Lines) /\ buf' \in Seq(Lines) /\ buf' # <<>>
  <2>1. PICK k \in 0..(Len(buf) - 1) :
           /\ disk' = disk \o SubSeq(buf, 1, k) /\ buf' = SubSeq(buf, k + 1, Len(buf))
           /\ torn' \in BOOLEAN
    BY DEF FlushFails
  <2> QED BY <1>1, <2>1, PartlyFlushed DEF IInv
<1>4. Types'
  <2>1. mode' \in DOMAIN Steps /\ pc' \in Steps[mode']
    BY <1>2 DEF Steps
  <2> QED BY <1>1, <1>3, <2>1 DEF IInv, Types, MidiTypes, FileTypes, MainTypes, HistTypes
<1>5. Where'
  <2>1. file # <<>>
    BY <1>1 DEF IInv, Where
  <2> QED BY <1>1, <1>2, <1>3, <2>1 DEF IInv, Where
<1>6. Closing'
  BY <1>1, <1>2, <1>3 DEF IInv, Closing, AtEnd, Ended
<1>7. Cost'
  BY <1>1 DEF Cost
<1> QED BY <1>1, <1>2, <1>3, <1>4, <1>5, <1>6, <1>7, Onward

-----------------------------------------------------------------------------
(* The steps that write a line *)

LEMMA Longer ==
  ASSUME IInv, NEW line \in Lines, file' = Append(file, line)
  PROVE  /\ DOMAIN file' = 1..(Len(file) + 1) /\ file'[Len(file) + 1] = line
         /\ \A i \in DOMAIN file : file'[i] = file[i]
         /\ DOMAIN file = 1..Len(file) /\ Len(file) \in Nat /\ Len(file') = Len(file) + 1
         /\ file' # <<>>
         /\ Ended' <=> line.kind = "end"
         /\ line.kind = "event" => Filing' = Filing \cup {line.n}
         /\ line.kind # "event" => Filing' = Filing
<1> DEFINE m == Len(file)
<1>1. file \in Seq(Lines) /\ DOMAIN file = 1..m /\ m \in Nat
  BY FileTyped DEF IInv
<1>2. /\ DOMAIN file' = 1..(m + 1) /\ file'[m + 1] = line /\ Len(file') = m + 1
      /\ \A i \in 1..m : file'[i] = file[i]
  BY <1>1, AppendProperties, LenProperties
<1>3. file' # <<>>
  <2>1. Len(<<>>) = 0
    BY EmptySeq
  <2> QED BY <1>1, <1>2, <2>1
<1>4. Ended' <=> line.kind = "end"
  BY <1>2 DEF Ended
<1> HIDE DEF m
<1>5. \A i \in 1..(m + 1) : i \in 1..m \/ i = m + 1
  BY <1>1
<1>6. (m + 1) \in 1..(m + 1) /\ \A i \in 1..m : i \in 1..(m + 1)
  BY <1>1
<1>7. /\ Filing = {file[i].n : i \in {j \in 1..m : file[j].kind = "event"}}
      /\ Filing' = {file'[i].n : i \in {j \in 1..(m + 1) : file'[j].kind = "event"}}
  BY <1>1, <1>2 DEF Filing
<1>8. line.kind = "event" => Filing' = Filing \cup {line.n}
  BY <1>2, <1>5, <1>6, <1>7
<1>9. line.kind # "event" => Filing' = Filing
  BY <1>2, <1>5, <1>6, <1>7
<1> QED BY <1>1, <1>2, <1>3, <1>4, <1>8, <1>9 DEF m

\* A line behind the meta line
LEMMA Lengthened ==
  ASSUME IInv, NEW line \in Lines, file' = Append(file, line), file # <<>>, ~ Ended,
         line.kind # "meta", last_t' = line.t, last_t <= line.t, stamped' = stamped,
         line.kind = "event" => /\ line.n <= stamped
                                /\ \A i \in DOMAIN file : file[i].kind = "event" => file[i].n < line.n
  PROVE  Filed'
<1> DEFINE m == Len(file)
<1>1. /\ DOMAIN file' = 1..(m + 1) /\ file'[m + 1] = line /\ DOMAIN file = 1..m /\ m \in Nat
      /\ \A i \in 1..m : file'[i] = file[i]
  BY Longer
<1>2. m > 0 /\ \A i \in 1..m : file[i].t \in Nat
  BY FileTyped DEF IInv
<1>3. \A i \in 1..m : file[i].kind # "end"
  <2>1. file[m].kind # "end"
    BY DEF Ended
  <2>2. \A i \in 1..m : i < m => file[i].kind # "end"
    BY <1>1, <1>2 DEF IInv, Filed
  <2> QED BY <1>1, <2>1, <2>2
<1> HIDE DEF m
<1>4. last_t \in Nat /\ line.t \in Nat
  BY DEF IInv, Types, FileTypes, Lines
<1>5. \A i \in 1..m : file[i].t <= last_t /\ file[i].t <= line.t
  <2>1. \A i \in 1..m : file[i].t <= last_t
    BY <1>1 DEF IInv, Filed
  <2> QED BY <1>2, <1>4, <2>1
<1>6. \A i \in 1..(m + 1) : i \in 1..m \/ i = m + 1
  BY <1>1
<1>7. \A i \in 1..(m + 1) : /\ file'[i].kind = "meta" <=> i = 1
                            /\ file'[i].t <= last_t'
                            /\ file'[i].kind = "event" => file'[i].n <= stamped'
  <2>1. \A i \in 1..m : /\ file'[i].kind = "meta" <=> i = 1
                        /\ file'[i].t <= last_t'
                        /\ file'[i].kind = "event" => file'[i].n <= stamped'
    BY <1>1, <1>5 DEF IInv, Filed
  <2>2. /\ file'[m + 1].kind # "meta" /\ m + 1 # 1
        /\ file'[m + 1].t <= last_t'
        /\ file'[m + 1].kind = "event" => file'[m + 1].n <= stamped'
    BY <1>1, <1>2, <1>4
  <2> QED BY <1>6, <2>1, <2>2
<1>8. ASSUME NEW i \in 1..(m + 1), NEW j \in 1..(m + 1), i < j
      PROVE  /\ file'[i].t <= file'[j].t /\ file'[i].kind # "end"
             /\ file'[i].kind = "event" /\ file'[j].kind = "event" => file'[i].n < file'[j].n
  <2>1. i \in 1..m
    BY <1>1, <1>8
  <2>2. CASE j \in 1..m
    BY <1>1, <1>8, <2>1, <2>2 DEF IInv, Filed
  <2>3. CASE j = m + 1
    BY <1>1, <1>3, <1>5, <2>1, <2>3
  <2> QED BY <1>6, <2>2, <2>3
<1> QED BY <1>1, <1>7, <1>8 DEF Filed

LEMMA CreateStep == IInv /\ Create => IInv'
<1> SUFFICES ASSUME IInv, Create PROVE IInv'
  OBVIOUS
<1>1. /\ mode = "open" /\ pc = "create" /\ mode' = "open" /\ pc' = "flush"
      /\ buf' = Append(buf, Meta) /\ last_t' = 0 /\ UNCHANGED disk
      /\ UNCHANGED <<clock, hand, stamped, queue, torn, stop, got, end_t, breaks, faults, seen>>
      /\ file = <<>> /\ got = None /\ ~ stop
  BY Kinds DEF Create, Write, Goto, midiVars, histVars, IInv, Where
<1>2. Meta \in Lines /\ Meta.kind = "meta" /\ Meta.t = 0
  BY Kinds
<1>3. file' = Append(file, Meta) /\ buf' \in Seq(Lines) /\ buf' # <<>>
  BY <1>1, <1>2, Written DEF IInv
<1>4. Len(file) = 0 /\ DOMAIN file = {}
  BY <1>1, EmptySeq
<1>5. /\ DOMAIN file' = {1} /\ file'[1] = Meta /\ file' # <<>> /\ ~ Ended' /\ Filing' = Filing
  <2>1. 1..(0 + 1) = {1}
    OBVIOUS
  <2> QED BY <1>2, <1>3, <1>4, <2>1, Longer
<1>6. Held' = Held /\ Waiting' = Waiting /\ Having' = Having /\ Queued' = Queued
  BY <1>1, <1>5 DEF Held, Waiting, Having, Queued
<1>7. Types'
  BY <1>1, <1>3 DEF IInv, Types, MidiTypes, FileTypes, MainTypes, HistTypes, Steps
<1>8. Where'
  <2>1. clock \in Nat /\ end_t <= clock
    BY DEF IInv, Types, MidiTypes, Where
  <2> QED BY <1>1, <1>3, <1>5, <2>1 DEF IInv, Where
<1>9. OnTheWay'
  BY <1>1, <1>6 DEF IInv, OnTheWay
<1>10. Filed'
  BY <1>1, <1>2, <1>5 DEF Filed
<1>11. Closing'
  BY <1>1, <1>5 DEF Closing, AtEnd
<1>12. Ahead'
  <2>1. \A x \in Waiting : x.t \in Nat
    BY WaitingTyped, Kinds DEF IInv
  <2> QED BY <1>1, <1>2, <1>5, <1>6, <2>1 DEF Ahead
<1>13. Cost'
  BY <1>1, <1>5, <1>6 DEF IInv, Cost
<1> QED BY <1>7, <1>8, <1>9, <1>10, <1>11, <1>12, <1>13 DEF IInv

LEMMA AppendRecordStep == IInv /\ AppendRecord => IInv'
<1> SUFFICES ASSUME IInv, AppendRecord PROVE IInv'
  OBVIOUS
<1>1. /\ mode \in {"run", "drain"} /\ pc = "append" /\ got # None /\ got \in Stamps /\ got' = None
      /\ UNCHANGED <<clock, hand, stamped, queue, stop, end_t, breaks, faults, seen>>
      /\ mode = "run" => ~ stop
  BY DEF AppendRecord, midiVars, histVars, IInv, Where, Types, MainTypes
<1>2. /\ got \in Lines /\ got.kind = "event" /\ got.n \in Nat /\ got.t \in Nat /\ got \in Waiting
      /\ last_t \in Nat /\ clock \in Nat /\ stamped \in Nat
  BY <1>1, Kinds DEF Waiting, IInv, Types, MidiTypes, FileTypes
<1>3. got.t <= clock /\ got.n <= stamped /\ last_t <= got.t
      /\ \A i \in DOMAIN file : file[i].kind = "event" => file[i].n < got.n
  BY <1>1, <1>2 DEF IInv, OnTheWay, Ahead
<1>4. /\ buf' = Append(buf, got) /\ last_t' = got.t /\ UNCHANGED disk /\ UNCHANGED torn
      /\ mode' = mode /\ pc' = "flush"
  <2>1. ~ (got.t < last_t)
    BY <1>2, <1>3
  <2> QED BY <2>1 DEF AppendRecord, Write, Goto
<1>5. file' = Append(file, got) /\ buf' \in Seq(Lines) /\ buf' # <<>> /\ file \in Seq(Lines)
  BY <1>2, <1>4, Written DEF IInv
<1>6. file # <<>> /\ ~ Ended
  BY <1>1 DEF IInv, Where, Closing, AtEnd
<1>7. file' # <<>> /\ ~ Ended' /\ Filing' = Filing \cup {got.n}
  BY <1>2, <1>5, Longer
<1>8. Held' = Held /\ Waiting' \subseteq Waiting /\ Queued' = Queued
  BY <1>1 DEF Held, Waiting, Queued
<1>9. \A x \in Waiting' : Prior(got, x)
  BY <1>1, <1>8 DEF Waiting, IInv, OnTheWay
<1>10. Types'
  <2>1. last_t' \in Nat
    BY <1>2, <1>4
  <2> QED BY <1>1, <1>4, <1>5, <2>1 DEF IInv, Types, MidiTypes, FileTypes, MainTypes, HistTypes, Steps
<1>11. Where'
  BY <1>1, <1>3, <1>4, <1>5, <1>7 DEF IInv, Where
<1>12. OnTheWay'
  BY <1>1, <1>8 DEF IInv, OnTheWay
<1>13. Filed'
  BY <1>1, <1>2, <1>3, <1>4, <1>5, <1>6, Lengthened
<1>14. Closing'
  BY <1>1, <1>4, <1>7 DEF Closing, AtEnd
<1>15. Ahead'
  <2> DEFINE m == Len(file)
  <2>1. /\ DOMAIN file' = 1..(m + 1) /\ file'[m + 1] = got /\ DOMAIN file = 1..m /\ m \in Nat
        /\ \A i \in 1..m : file'[i] = file[i]
    BY <1>2, <1>5, Longer
  <2> HIDE DEF m
  <2>2. \A i \in 1..(m + 1) : i \in 1..m \/ i = m + 1
    BY <2>1
  <2>3. \A i \in 1..m : file[i].kind = "event" => \A x \in Waiting' : file[i].n < x.n
    BY <1>8, <2>1 DEF IInv, Ahead
  <2>4. \A x \in Waiting' : got.n < x.n /\ got.t <= x.t
    BY <1>9 DEF Prior
  <2> QED BY <1>4, <2>1, <2>2, <2>3, <2>4 DEF Ahead
<1>16. Cost'
  <2>1. Having' = Having
    BY <1>1, <1>7, <1>8 DEF Having
  <2> QED BY <1>1, <1>4, <1>8, <2>1 DEF IInv, Cost
<1> QED BY <1>10, <1>11, <1>12, <1>13, <1>14, <1>15, <1>16 DEF IInv

LEMMA WriteEndStep == IInv /\ WriteEnd => IInv'
<1> SUFFICES ASSUME IInv, WriteEnd PROVE IInv'
  OBVIOUS
<1> DEFINE line == [kind |-> "end", n |-> 0, t |-> end_t]
<1>1. /\ mode = "close" /\ pc = "end" /\ got = None /\ last_t <= end_t /\ end_t <= clock
      /\ UNCHANGED <<clock, hand, stamped, queue, stop, got, end_t, breaks, faults, seen>>
      /\ end_t \in Nat /\ last_t \in Nat
  BY DEF WriteEnd, midiVars, histVars, IInv, Where, Types, MainTypes, FileTypes
<1>2. /\ buf' = Append(buf, line) /\ last_t' = end_t /\ UNCHANGED disk /\ UNCHANGED torn
      /\ mode' = "close" /\ pc' = "flush"
  <2>1. ~ (end_t < last_t)
    BY <1>1
  <2> QED BY <2>1 DEF WriteEnd, Write, Goto
<1>3. line \in Lines /\ line.kind = "end" /\ line.t = end_t
  BY <1>1, Kinds
<1> HIDE DEF line
<1>4. file' = Append(file, line) /\ buf' \in Seq(Lines) /\ buf' # <<>>
  BY <1>2, <1>3, Written DEF IInv
<1>5. file # <<>> /\ ~ Ended
  BY <1>1 DEF IInv, Where, Closing, AtEnd
<1>6. file' # <<>> /\ Ended' /\ Filing' = Filing
  BY <1>3, <1>4, Longer
<1>7. Held' = Held /\ Waiting' = Waiting /\ Queued' = Queued
  BY <1>1 DEF Held, Waiting, Queued
<1>8. Types'
  <2>1. last_t' \in Nat
    BY <1>1, <1>2
  <2> QED BY <1>1, <1>2, <1>4, <2>1 DEF IInv, Types, MidiTypes, FileTypes, MainTypes, HistTypes, Steps
<1>9. Where'
  BY <1>1, <1>2, <1>4, <1>6 DEF IInv, Where
<1>10. OnTheWay'
  BY <1>1, <1>7 DEF IInv, OnTheWay
<1>11. Filed'
  BY <1>1, <1>2, <1>3, <1>4, <1>5, Lengthened
<1>12. Closing'
  BY <1>2, <1>6 DEF Closing, AtEnd
<1>13. Ahead'
  <2> DEFINE m == Len(file)
  <2>1. /\ DOMAIN file' = 1..(m + 1) /\ file'[m + 1] = line /\ DOMAIN file = 1..m /\ m \in Nat
        /\ \A i \in 1..m : file'[i] = file[i]
    BY <1>3, <1>4, Longer
  <2> HIDE DEF m
  <2>2. \A i \in 1..(m + 1) : i \in 1..m \/ i = m + 1
    BY <2>1
  <2>3. \A i \in 1..m : file[i].kind = "event" => \A x \in Waiting' : file[i].n < x.n
    BY <1>7, <2>1 DEF IInv, Ahead
  <2> QED BY <1>2, <1>3, <2>1, <2>2, <2>3 DEF Ahead
<1>14. Cost'
  <2>1. Having' = Having
    BY <1>1, <1>6, <1>7 DEF Having
  <2> QED BY <1>1, <1>2, <1>6, <1>7, <2>1 DEF IInv, Cost
<1> QED BY <1>8, <1>9, <1>10, <1>11, <1>12, <1>13, <1>14 DEF IInv

-----------------------------------------------------------------------------
(* The steps that take a record out of the queue, and Ctrl-C *)

LEMMA GetStep == IInv /\ Get => IInv'
<1> SUFFICES ASSUME IInv, Get PROVE IInv'
  OBVIOUS
<1>1. /\ mode \in {"run", "drain"} /\ pc = "get" /\ got = None
      /\ mode = "run" => ~ stop
      /\ UNCHANGED <<clock, hand, stamped, stop, end_t, breaks, faults, seen, buf, disk, torn, last_t>>
      /\ file' = file /\ file # <<>> /\ ~ Ended /\ Queued' = Queued /\ Filing' = Filing
  BY DEF Get, fileVars, histVars, IInv, Where, Closing, AtEnd, file, Queued, Filing
<1>2. Filed' /\ ~ Ended'
  BY <1>1 DEF IInv, Filed, Ended
<1>3. CASE queue # <<>> /\ got' = Head(queue) /\ queue' = Tail(queue) /\ Goto(mode, "append")
  <2> DEFINE m == Len(queue)
  <2>1. mode' = mode /\ pc' = "append"
    BY <1>3 DEF Goto
  <2>2. /\ got' \in Stamps /\ queue' \in Seq(Stamps) /\ got' = queue[1]
        /\ DOMAIN queue = 1..m /\ m \in Nat \ {0} /\ DOMAIN queue' = 1..(m - 1)
        /\ \A i \in 1..(m - 1) : queue'[i] = queue[i + 1]
    BY <1>3, Heads DEF IInv, Types, MidiTypes
  <2> HIDE DEF m
  <2>3. /\ \A i \in 1..(m - 1) : i + 1 \in 1..m /\ 1 < i + 1
        /\ \A i \in 1..m : i = 1 \/ (i - 1 \in 1..(m - 1) /\ (i - 1) + 1 = i)
        /\ 1 \in 1..m
    BY <2>2
  <2>4. got' # None
    BY <2>2, Kinds
  <2>5. Held = Held' \cup {got'}
    <3>1. Held = {queue[i] : i \in 1..m} /\ Held' = {queue'[i] : i \in 1..(m - 1)}
      BY <2>2 DEF Held
    <3>2. Held' \subseteq Held
      BY <2>2, <2>3, <3>1
    <3>3. ASSUME NEW i \in 1..m PROVE queue[i] \in Held' \cup {got'}
      <4>1. CASE i = 1
        BY <2>2, <4>1
      <4>2. CASE i # 1
        <5>1. i - 1 \in 1..(m - 1) /\ (i - 1) + 1 = i
          BY <2>3, <4>2
        <5>2. queue'[i - 1] = queue[i]
          BY <2>2, <5>1
        <5> QED BY <3>1, <5>1, <5>2
      <4> QED BY <4>1, <4>2
    <3>4. got' \in Held
      BY <2>2, <2>3, <3>1
    <3> QED BY <3>1, <3>2, <3>3, <3>4
  <2>6. Waiting' = Waiting
    BY <1>1, <2>4, <2>5 DEF Waiting
  <2>7. ({got'} \cup Held') \ {None} = ({got} \cup Held) \ {None}
    BY <1>1, <2>5
  <2>8. Types'
    BY <1>1, <2>1, <2>2 DEF IInv, Types, MidiTypes, FileTypes, MainTypes, HistTypes, Steps
  <2>9. Where'
    BY <1>1, <2>1, <2>4 DEF IInv, Where
  <2>10. OnTheWay'
    <3>1. \A i, j \in 1..m : i < j => Prior(queue[i], queue[j])
      BY <2>2 DEF IInv, OnTheWay
    <3>2. \A x \in Held' : Prior(got', x)
      <4>1. Held' = {queue'[i] : i \in 1..(m - 1)}
        BY <2>2 DEF Held
      <4>2. \A i \in 1..(m - 1) : Prior(got', queue'[i])
        BY <2>2, <2>3, <3>1
      <4> QED BY <4>1, <4>2
    <3>3. \A i, j \in DOMAIN queue' : i < j => Prior(queue'[i], queue'[j])
      <4>1. \A i, j \in 1..(m - 1) : i < j => i + 1 < j + 1
        BY <2>2
      <4> QED BY <2>2, <2>3, <3>1, <4>1
    <3>4. \A x \in Waiting' : x.t <= clock' /\ x.n <= stamped'
      BY <1>1, <2>6 DEF IInv, OnTheWay
    <3>5. hand' # None => /\ hand'.n = stamped'
                          /\ \A x \in ({got'} \cup Held') \ {None} : Prior(x, hand')
      BY <1>1, <2>7 DEF IInv, OnTheWay
    <3> QED BY <3>2, <3>3, <3>4, <3>5 DEF OnTheWay
  <2>11. Closing'
    BY <1>1, <1>2, <2>1 DEF Closing, AtEnd
  <2>12. Ahead'
    BY <1>1, <2>1, <2>6 DEF IInv, Ahead
  <2>13. Cost'
    <3>1. Having' = Having
      BY <1>1, <2>7 DEF Having
    <3> QED BY <1>1, <2>1, <3>1 DEF IInv, Cost
  <2> QED BY <1>2, <2>8, <2>9, <2>10, <2>11, <2>12, <2>13 DEF IInv
<1>4. CASE queue = <<>> /\ stop /\ Goto("close", "end_t") /\ UNCHANGED <<got, queue>>
  <2>1. mode = "drain" /\ mode' = "close" /\ pc' = "end_t"
    BY <1>1, <1>4 DEF Goto
  <2>2. Held' = Held /\ Waiting' = Waiting /\ Held = {}
    BY <1>1, <1>4, EmptySeq DEF Held, Waiting
  <2>3. Types'
    BY <1>1, <1>4, <2>1 DEF IInv, Types, MidiTypes, FileTypes, MainTypes, HistTypes, Steps
  <2>4. Where'
    BY <1>1, <1>4, <2>1 DEF IInv, Where
  <2>5. Closing'
    BY <1>1, <1>2, <2>1 DEF Closing, AtEnd
  <2>6. Cost'
    <3>1. Having = Filing
      BY <1>1, <2>2 DEF Having
    <3> QED BY <1>1, <2>1, <3>1 DEF IInv, Cost
  <2>7. UNCHANGED <<clock, midiVars>> /\ got' = got /\ last_t' = last_t
    BY <1>1, <1>4 DEF midiVars
  <2> QED BY <1>1, <2>1, <2>3, <2>4, <2>5, <2>6, <2>7, Onward
<1> QED BY <1>3, <1>4 DEF Get

LEMMA InterruptStep == IInv /\ Interrupt => IInv'
<1> SUFFICES ASSUME IInv, Interrupt PROVE IInv'
  OBVIOUS
<1>1. /\ mode \notin {"done", "dead"} /\ breaks' = breaks + 1 /\ breaks \in Nat /\ got' = None
      /\ last_t' \in (IF got = None THEN {last_t} ELSE {last_t, got.t})
      /\ seen' = IF breaks = 0 THEN [stamped |-> stamped, queued |-> Queued, mode |-> mode] ELSE seen
      /\ UNCHANGED <<clock, hand, stamped, queue, buf, disk, torn, stop, end_t, faults>>
      /\ mode \in DOMAIN Steps /\ pc \in Steps[mode] /\ file' = file
  BY DEF Interrupt, PortOpen, midiVars, IInv, Types, HistTypes, MainTypes, file
<1>2. \/ mode = "run" /\ mode' = "drain" /\ pc' = "stop"
      \/ mode = "drain" /\ mode' = "close" /\ pc' = "end_t"
      \/ mode \in {"open", "close"} /\ mode' = "dead" /\ pc' = "end_t"
  <2>1. mode \in {"open", "run", "drain", "close"}
    BY <1>1 DEF Steps
  <2> QED BY <2>1 DEF Interrupt, Goto
<1>3. Held' = Held /\ Waiting' \subseteq Waiting /\ Queued' = Queued /\ Filing' = Filing
  BY <1>1 DEF Held, Waiting, Queued, Filing
<1>4. got # None => /\ got \in Waiting /\ got.n \in Nat /\ got.t \in Nat /\ got.t <= clock
                    /\ mode \in {"run", "drain"} /\ last_t <= got.t
                    /\ \A x \in Waiting' : Prior(got, x)
  <2> SUFFICES ASSUME got # None
               PROVE  /\ got \in Waiting /\ got.n \in Nat /\ got.t \in Nat /\ got.t <= clock
                      /\ mode \in {"run", "drain"} /\ last_t <= got.t
                      /\ \A x \in Waiting' : Prior(got, x)
    OBVIOUS
  <2>1. got \in Waiting /\ got \in Stamps
    BY DEF Waiting, IInv, Types, MainTypes
  <2>2. pc = "append"
    BY DEF IInv, Where
  <2>3. mode \in {"run", "drain"}
    BY <1>1, <2>2 DEF Steps
  <2>4. \A x \in Waiting' : Prior(got, x)
    BY <1>1, <1>3 DEF Waiting, IInv, OnTheWay
  <2> QED BY <2>1, <2>3, <2>4, Kinds DEF IInv, OnTheWay, Ahead
<1>5. last_t \in Nat /\ clock \in Nat /\ last_t <= clock
  BY DEF IInv, Types, FileTypes, MidiTypes, Where
<1>6. last_t' \in Nat /\ last_t <= last_t' /\ last_t' <= clock
  BY <1>1, <1>4, <1>5
<1>7. Types'
  <2>1. mode' \in DOMAIN Steps /\ pc' \in Steps[mode']
    BY <1>2 DEF Steps
  <2>2. seen' \in [stamped : Nat, queued : Nat, mode : DOMAIN Steps]
    <3>1. CASE breaks = 0
      <4>1. Queued \in Nat /\ stamped \in Nat
        BY QueuedTyped DEF IInv, Types, MidiTypes
      <4> QED BY <1>1, <3>1, <4>1
    <3>2. CASE breaks # 0
      BY <1>1, <3>2 DEF IInv, Types, HistTypes
    <3> QED BY <3>1, <3>2
  <2>3. breaks' \in Nat /\ faults' \in Nat
    BY <1>1 DEF IInv, Types, HistTypes
  <2> QED BY <1>1, <1>6, <2>1, <2>2, <2>3 DEF IInv, Types, MidiTypes, FileTypes, MainTypes, HistTypes
<1>8. Where'
  <2>1. mode' # "dead" => file # <<>>
    BY <1>1, <1>2 DEF IInv, Where, Steps
  <2> QED BY <1>1, <1>2, <1>6, <2>1 DEF IInv, Where
<1>9. OnTheWay'
  BY <1>1, <1>3 DEF IInv, OnTheWay
<1>10. Filed'
  <2>1. \A i \in DOMAIN file : file[i].t <= last_t'
    <3> SUFFICES ASSUME NEW i \in DOMAIN file PROVE file[i].t <= last_t'
      OBVIOUS
    <3>1. file[i].t \in Nat /\ file[i].t <= last_t
      BY FileTyped DEF IInv, Filed
    <3> QED BY <1>5, <1>6, <3>1
  <2> QED BY <1>1, <2>1 DEF IInv, Filed
<1>11. Closing'
  BY <1>1, <1>2 DEF IInv, Closing, AtEnd, Ended
<1>12. Ahead'
  <2>1. \A i \in DOMAIN file : file[i].kind = "event" => \A x \in Waiting' : file[i].n < x.n
    BY <1>3 DEF IInv, Ahead
  <2>2. mode' = "drain" => \A x \in Waiting' : last_t' <= x.t
    <3>1. mode' = "drain" => \A x \in Waiting' : last_t <= x.t
      BY <1>2, <1>3 DEF IInv, Ahead
    <3>2. got # None => \A x \in Waiting' : got.t <= x.t
      BY <1>4 DEF Prior
    <3> QED BY <1>1, <3>1, <3>2
  <2> QED BY <1>1, <1>2, <2>1, <2>2 DEF Ahead
<1>13. Cost'
  <2> SUFFICES ASSUME faults = 0, breaks = 0
               PROVE  \/ mode' = "dead" /\ seen'.mode # "run"
                      \/ mode' = "drain" /\ \E x : 1..seen'.queued \ Having' \subseteq {x}
    BY <1>1 DEF Cost
  <2>1. /\ mode \in {"open", "run"} /\ 1..Queued \subseteq Having
        /\ seen'.queued = Queued /\ seen'.mode = mode
    BY <1>1 DEF IInv, Cost
  <2>2. Having \subseteq Having' \cup {got.n}
    BY <1>1, <1>3 DEF Having
  <2>3. 1..seen'.queued \ Having' \subseteq {got.n}
    BY <2>1, <2>2
  <2> QED BY <1>2, <2>1, <2>3
<1> QED BY <1>7, <1>8, <1>9, <1>10, <1>11, <1>12, <1>13 DEF IInv

-----------------------------------------------------------------------------
(* The theorems *)

LEMMA IInvNext == IInv /\ [Next]_vars => IInv'
<1> SUFFICES ASSUME IInv, [Next]_vars PROVE IInv'
  OBVIOUS
<1>1. CASE Next
  BY <1>1, TickStep, StampStep, PutStep, CreateStep, GetStep, AppendRecordStep, FlushStep,
     FlushFailsStep, StopStep, ReadEndTimeStep, WriteEndStep, ClosePortStep, InterruptStep
     DEF Next, Main
<1>2. CASE UNCHANGED vars
  <2>1. UNCHANGED <<clock, hand, stamped, queue, buf, disk, torn, last_t, stop, mode, pc, got, end_t,
                    breaks, faults, seen>>
    BY <1>2 DEF vars, midiVars, fileVars, mainVars, histVars
  <2>2. /\ file' = file /\ Held' = Held /\ Waiting' = Waiting /\ Filing' = Filing /\ Queued' = Queued
        /\ Having' = Having
    BY <2>1 DEF file, Held, Waiting, Filing, Queued, Having
  <2>3. Types' /\ Where' /\ OnTheWay'
    BY <2>1, <2>2 DEF IInv, Types, MidiTypes, FileTypes, MainTypes, HistTypes, Where, OnTheWay
  <2>4. Filed' /\ Closing' /\ Ahead' /\ Cost'
    BY <2>1, <2>2 DEF IInv, Filed, Closing, AtEnd, Ended, Ahead, Cost
  <2> QED BY <2>3, <2>4 DEF IInv
<1> QED BY <1>1, <1>2

\* Every record is in exactly the place that its number and its time assign to it:
\* at the MIDI thread, in the queue, with the main thread, or in the file behind
\* all that were stamped before it; and one Ctrl-C takes at most one of them.
THEOREM Inductive == Spec => []IInv
<1>1. Init => IInv
  BY IInvInit
<1>2. IInv /\ [Next]_vars => IInv'
  BY IInvNext
<1> QED BY <1>1, <1>2, PTL DEF Spec

\* What the reader makes of the file
LEMMA TornStripped ==
  ASSUME NEW s \in Seq(Lines)
  PROVE  Complete(Append(s, Part)) = s
<1> DEFINE S == Lines \cup {Part}
           p == Append(s, Part)
           m == Len(s)
<1>1. s \in Seq(S) /\ Part \in S /\ m \in Nat
  BY LenProperties
<1>2. p \in Seq(S) /\ Len(p) = m + 1 /\ p[m + 1] = Part /\ \A i \in 1..m : p[i] = s[i]
  BY <1>1, AppendProperties
<1>3. p # <<>>
  <2>1. Len(<<>>) = 0
    BY EmptySeq
  <2> HIDE DEF p
  <2> QED BY <1>1, <1>2, <2>1
<1>4. Part.kind = "part"
  BY DEF Part
<1> HIDE DEF p, S
<1>5. Complete(p) = SubSeq(p, 1, m)
  <2>1. Len(p) - 1 = m
    BY <1>1, <1>2
  <2>2. p[Len(p)].kind = "part"
    BY <1>2, <1>4
  <2> QED BY <1>3, <2>1, <2>2 DEF Complete
<1>6. SubSeq(p, 1, m) = s
  <2>1. \A i \in 1..m : p[i] \in S
    BY <1>1, <1>2, ElementOfSeq DEF S
  <2>2. SubSeq(p, 1, m) \in Seq(S) /\ Len(SubSeq(p, 1, m)) = m
        /\ \A i \in 1..m : SubSeq(p, 1, m)[i] = s[i]
    <3>1. SubSeq(p, 1, m) \in Seq(S) /\ Len(SubSeq(p, 1, m)) = (IF 1 <= m THEN m - 1 + 1 ELSE 0)
          /\ \A i \in 1..(m - 1 + 1) : SubSeq(p, 1, m)[i] = p[1 + i - 1]
      BY <1>1, <2>1, SubSeqProperties
    <3>2. (IF 1 <= m THEN m - 1 + 1 ELSE 0) = m /\ m - 1 + 1 = m /\ \A i \in 1..m : 1 + i - 1 = i
      BY <1>1
    <3> QED BY <1>2, <3>1, <3>2
  <2> QED BY <1>1, <2>2, SeqEqual
<1> QED BY <1>5, <1>6 DEF p

LEMMA Recoverable == IInv => AlwaysRecoverable
<1> SUFFICES ASSUME IInv, disk # <<>>
             PROVE  /\ Verdict(Image) = "ok"
                    /\ Len(Records(Image)) = Len(disk) - 1
                    /\ \A i, j \in DOMAIN Records(Image) : i < j =>
                         LET a == Records(Image)[i]
                             b == Records(Image)[j]
                         IN  a.t <= b.t /\ a.kind = "event" /\ (b.kind = "event" => a.n < b.n)
  BY DEF AlwaysRecoverable
<1> DEFINE m == Len(disk)
<1>1. disk \in Seq(Lines) /\ torn \in BOOLEAN
  BY DEF IInv, Types, FileTypes
<1>2. /\ DOMAIN disk = 1..m /\ m \in Nat /\ m > 0 /\ m <= Len(file) /\ Len(file) \in Nat
      /\ DOMAIN file = 1..Len(file) /\ \A i \in 1..m : disk[i] = file[i]
  BY <1>1, FileTyped, EmptySeq, LenProperties DEF IInv
<1> HIDE DEF m
<1>3. \A i \in 1..m : disk[i] \in Lines /\ i \in DOMAIN file
  BY <1>1, <1>2
<1>4. \A i \in 1..m : disk[i].kind \in {"meta", "event", "end"} /\ (disk[i].kind = "meta" <=> i = 1)
  BY <1>2, <1>3 DEF IInv, Filed, Lines
<1>5. Complete(Image) = disk
  <2>1. disk[Len(disk)].kind # "part"
    BY <1>2, <1>4 DEF m
  <2>2. CASE torn
    BY <1>1, <2>2, TornStripped DEF Image
  <2>3. CASE ~ torn
    BY <2>1, <2>3 DEF Image, Complete
  <2> QED BY <2>2, <2>3
<1>6. Parsed(Image) = disk
  <2>1. disk[Len(disk)].kind # "junk"
    BY <1>2, <1>4 DEF m
  <2> QED BY <1>5, <2>1 DEF Parsed
<1>7. Verdict(Image) = "ok"
  <2>1. ~ \E i \in DOMAIN disk : disk[i].kind = "junk"
    BY <1>2, <1>4
  <2>2. disk[1].kind = "meta" /\ ~ \E i \in 2..Len(disk) : disk[i].kind = "meta"
    BY <1>2, <1>4 DEF m
  <2> QED BY <1>6, <2>1, <2>2 DEF Verdict
<1>8. /\ Records(Image) = Tail(disk) /\ Len(Tail(disk)) = m - 1 /\ DOMAIN Tail(disk) = 1..(m - 1)
      /\ \A i \in 1..(m - 1) : Tail(disk)[i] = disk[i + 1]
  BY <1>1, <1>2, <1>6, HeadTailProperties, LenProperties DEF Records, m
<1>9. ASSUME NEW i \in 1..(m - 1), NEW j \in 1..(m - 1), i < j
      PROVE  /\ disk[i + 1].t <= disk[j + 1].t /\ disk[i + 1].kind = "event"
             /\ disk[j + 1].kind = "event" => disk[i + 1].n < disk[j + 1].n
  <2>1. i + 1 \in 1..m /\ j + 1 \in 1..m /\ i + 1 < j + 1 /\ i + 1 # 1
    BY <1>2, <1>9
  <2>2. /\ file[i + 1].t <= file[j + 1].t /\ file[i + 1].kind # "end"
        /\ file[i + 1].kind = "event" /\ file[j + 1].kind = "event" => file[i + 1].n < file[j + 1].n
    BY <1>3, <2>1 DEF IInv, Filed
  <2> QED BY <1>2, <1>4, <2>1, <2>2
<1> QED BY <1>7, <1>8, <1>9 DEF m

\* What is in the file of a session that is closed
LEMMA AllOut ==
  ASSUME IInv, mode = "done"
  PROVE  file = disk /\ OnDisk = Filing /\ Ended
<1>1. buf = <<>>
  BY DEF IInv, Where
<1>2. file = disk
  BY <1>1, FileTyped DEF IInv
<1>3. Ended
  BY DEF IInv, Closing, AtEnd
<1> QED BY <1>2, <1>3 DEF OnDisk, Filing

LEMMA Kept == IInv => KeptUpToInterrupt
<1> SUFFICES ASSUME IInv, mode = "done", breaks = 1, faults = 0
             PROVE  Cardinality((1..seen.queued) \ OnDisk) <= 1
  BY DEF KeptUpToInterrupt
<1>1. PICK x : (1..seen.queued) \ OnDisk \subseteq {x}
  BY AllOut DEF IInv, Cost
<1>2. IsFiniteSet({x}) /\ Cardinality({x}) = 1
  BY FS_Singleton
<1> QED BY <1>1, <1>2, FS_Subset

LEMMA Closed == IInv => ClosedProperly
<1> SUFFICES ASSUME IInv, mode \in {"done", "dead"}, faults = 0, breaks = 1, seen.mode = "run"
             PROVE  mode = "done" /\ disk[Len(disk)].kind = "end"
  BY DEF ClosedProperly
<1>1. mode = "done"
  BY DEF IInv, Cost
<1> QED BY <1>1, AllOut DEF Ended

\* Whatever Ctrl-C, the MIDI thread and a full disk do, and whenever the program is
\* killed, what is in the file is a session log with its records in order.
THEOREM RecordingRecovers == Spec => []AlwaysRecoverable
  BY Inductive, Recoverable, PTL

\* However many messages are queued, one Ctrl-C costs at most one of them.
THEOREM OneLostAtMost == Spec => []KeptUpToInterrupt
  BY Inductive, Kept, PTL

\* The writer never refuses the end of the session.
THEOREM EndWritten == Spec => []ClosedProperly
  BY Inductive, Closed, PTL
=============================================================================
