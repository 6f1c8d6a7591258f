--------------------------- MODULE SyncLinkProofs ---------------------------
(***************************************************************************)
(* Proofs about SyncLink, for any archive, any sessions directory and      *)
(* .part files, any chunk sizes and any number of retries and faults.      *)
(***************************************************************************)
EXTENDS SyncLink, FiniteSetTheorems, WellFoundedInduction, TLAPS

-----------------------------------------------------------------------------
(* The inductive invariant *)

Bytes == Seq(Unit)
Files == [Names -> Bytes \cup {Absent}]
Asked == {"sync", "HELLO", "BYE", "LIST", "FETCH", "CRC", "DELETE"}
Told == {"HELLO_OK", "BYE_OK", "ITEM", "LIST_END", "DATA", "CRC_OK", "DELETE_OK", "ERR"}
Errors == {"UNKNOWN_NAME", "BAD_RANGE", "SESSION_OPEN", "STORAGE_FAILED"}
Labels == Names \cup {NoName} \cup Errors
Frames == [op : Asked \cup Told, name : Labels, off : Nat, len : Nat, data : Bytes]

\* What may be on the line, the one way and the other
Requests ==
  {r \in Frames : /\ r.op \in Asked
                  /\ r.op \in {"FETCH", "CRC", "DELETE"} => r.name \in Names}
Replies == {a \in Frames : a.op = "ITEM" => a.name \in Names /\ a.len = Len(Content[a.name])}
Entries == {e \in [name : Names, size : Nat] : e.size = Len(Content[e.name])}

BoxTypes ==
  /\ archive \in Files /\ \A n \in Names : archive[n] \in {Absent, Content[n]}
  /\ storage_ok \in BOOLEAN /\ sync_mode \in BOOLEAN /\ over \in BOOLEAN
  /\ wire \in Seq(Requests) /\ line \in Seq(Replies)
WorkTypes ==
  /\ pending \in Seq(Replies) /\ job \in {"sync"} \cup Names
  /\ todo \in Seq(Entries) /\ offset \in Nat /\ crc \in Bytes
FileTypes ==
  /\ final \in Files /\ part \in Files /\ had \in Files
  /\ report \in [skipped : SUBSET Names, conflicts : SUBSET Names, fetched : SUBSET Names]
Counts == late \in Nat /\ lost \in Nat /\ kills \in Nat
Types == BoxTypes /\ WorkTypes /\ FileTypes /\ Counts

\* Which request the command waits for where
Waits == [hello |-> "HELLO", list |-> "LIST", crc |-> "CRC", fetch |-> "FETCH",
          delete |-> "DELETE", bye |-> "BYE"]
Phase ==
  /\ pc \in {"off", "entry"} \cup DOMAIN Waits
  /\ req # None => req \in Requests /\ pc \in DOMAIN Waits /\ req.op = Waits[pc]
  /\ pc \in {"hello", "list", "delete", "bye"} => req # None
  /\ pc \in {"off", "hello"} => todo = <<>>
  /\ pc \in {"crc", "fetch"} => todo # <<>>

\* What the checksum in progress is taken for, and what is being written
Purpose ==
  /\ pc = "crc" =>
       \/ goal = "same" /\ final[entry.name] # Absent /\ Len(final[entry.name]) = entry.size
       \/ /\ goal = "resume" /\ final[entry.name] = Absent
          /\ part[entry.name] # Absent /\ Len(part[entry.name]) <= entry.size
       \/ /\ goal = "whole" /\ final[entry.name] = Absent
          /\ part[entry.name] # Absent /\ Len(part[entry.name]) = entry.size
  /\ pc = "fetch" => final[entry.name] = Absent /\ part[entry.name] # Absent

\* The files, whatever was late
Kept ==
  \A n \in Names :
    IF had[n] # Absent THEN final[n] = had[n]
    ELSE final[n] # Absent => Len(final[n]) = Len(Content[n]) /\ final[n] \notin Unreadable

Base == Types /\ Phase /\ Purpose /\ Kept

\* With nothing late: one request is under way, or its answer is
arrived == pending \o line
Fits(a, r) ==
  /\ r.op = "CRC" /\ a.op = "CRC_OK" =>
       LET span == Min({r.len, CrcMax})
       IN  /\ r.off + span <= Len(Content[r.name])
           /\ a.data = r.data \o Part(Content[r.name], r.off, span)
  /\ r.op = "FETCH" /\ a.op = "DATA" =>
       /\ r.off <= Len(Content[r.name])
       /\ a.data = Part(Content[r.name], r.off, Min({r.len, FetchMax}))

Lockstep ==
  pc # "off" =>
    \/ req = None /\ wire = <<>> /\ line = <<>>
    \/ req # None /\ arrived = <<>> /\ wire \in {<<>>, <<req>>}
    \/ req # None /\ arrived = <<>> /\ pc = "hello" /\ wire = <<Wake, req>>
    \/ /\ req # None /\ arrived # <<>> /\ wire = <<>>
       /\ IF pc = "list"
            THEN \A i \in 1..(Len(arrived) - 1) : arrived[i].op # "LIST_END"
            ELSE Len(arrived) = 1 /\ Fits(arrived[1], req)

\* With nothing late: the checksum and the .part are those of the device's file
Progress ==
  LET n == entry.name
      c == Content[n]
      rest == Len(Summed(goal)) - offset
  IN  /\ pc = "crc" =>
           /\ offset <= Len(Summed(goal)) /\ crc = SubSeq(c, 1, offset)
           /\ goal = "whole" => part[n] = c
           /\ req # None => /\ offset < Len(Summed(goal))
                            /\ req = Frame("CRC", n, offset, Min({CrcMax, rest}), crc)
      /\ pc = "fetch" =>
           /\ offset <= Len(c) /\ part[n] = SubSeq(c, 1, offset)
           /\ req # None =>
                /\ offset < Len(c)
                /\ req = Frame("FETCH", n, offset, Min({FetchMax, entry.size - offset}), <<>>)

\* What it has come to
Verdicts ==
  /\ \A n \in Names : had[n] = Absent => final[n] \in {Absent, Content[n]}
  /\ \A n \in report.skipped : final[n] = Content[n]
  /\ \A n \in report.conflicts : final[n] # Absent /\ final[n] # Content[n]

InTime == Lockstep /\ Progress /\ Verdicts

\* With no fault at all, an edrum sync has its answer, on the way or in hand
Right(a, r) ==
  CASE r.op = "HELLO" -> a.op = "HELLO_OK" /\ (a.len # 0 => storage_ok)
    [] r.op = "CRC" -> a.op = "CRC_OK"
    [] r.op = "FETCH" -> a.op = "DATA" /\ a.data # <<>>
    [] r.op = "BYE" -> a.op = "BYE_OK"
    [] OTHER -> FALSE
Whole(n) == archive[n] = Content[n]

NoFailure ==
  /\ result = "failed" => job # "sync"
  /\ pc # "off" => result # "failed" /\ (job = "sync" => pc # "delete")

Syncing == pc # "off" /\ job = "sync"
HasLine ==
  Syncing =>
    /\ req # None => wire # <<>> \/ arrived # <<>>
    /\ wire # <<>> => ~ over /\ (Len(wire) = 1 => sync_mode)
    /\ pc \notin {"hello", "bye"} => sync_mode /\ ~ over /\ storage_ok
    /\ pc = "hello" => ~ over /\ (arrived # <<>> => sync_mode)
    /\ pc = "list" /\ wire # <<>> => todo = <<>>
OnCard == Syncing => \A i \in DOMAIN todo : Whole(todo[i].name)
Answering ==
  Syncing /\ arrived # <<>> /\ req # None =>
    IF pc # "list" THEN Right(arrived[1], req)
    ELSE LET m == Len(arrived) IN
         /\ arrived[m].op = "LIST_END" /\ arrived[m].len = Len(todo) + m - 1
         /\ \A i \in 1..(m - 1) : arrived[i].op = "ITEM" /\ Whole(arrived[i].name)

Prompt == NoFailure /\ HasLine /\ OnCard /\ Answering

IInv == Base /\ (late = 0 => InTime) /\ (late + lost + kills = 0 => Prompt)
-----------------------------------------------------------------------------
(* Operators *)

\* The numbers up to some bound can be listed in order.
LEMMA SortedExists ==
  ASSUME NEW m \in Nat, NEW S \in SUBSET (1..m)
  PROVE  IsFiniteSet(S) /\ \E f \in [1..Cardinality(S) -> S] : InOrder(f)
<1> DEFINE P(k) == \A T \in SUBSET (1..k) : \E f \in [1..Cardinality(T) -> T] : InOrder(f)
           bad == {k \in Nat : ~ P(k)}
<1>1. \A k \in Nat : \A T \in SUBSET (1..k) : IsFiniteSet(T)
  <2> SUFFICES ASSUME NEW k \in Nat, NEW T \in SUBSET (1..k) PROVE IsFiniteSet(T)
    OBVIOUS
  <2>1. IsFiniteSet(1..k)
    BY FS_Interval
  <2> QED
    BY <2>1, FS_Subset
<1>2. SUFFICES ASSUME bad # {} PROVE FALSE
  BY <1>1
<1>3. PICK k \in bad : \A j \in bad : ~ (<<j, k>> \in OpToRel(<, Nat))
  BY <1>2, NatLessThanWellFounded, WFMin
<1>4. k \in Nat /\ \A j \in Nat : j < k => P(j)
  BY <1>3 DEF OpToRel
<1>5. PICK T \in SUBSET (1..k) : ~ \E f \in [1..Cardinality(T) -> T] : InOrder(f)
  OBVIOUS
<1> HIDE DEF bad
<1>6. k # 0 /\ k \in T
  <2>1. CASE k = 0
    <3>1. T = {}
      BY <2>1
    <3>1a. Cardinality(T) = 0
      BY <3>1, FS_EmptySet
    <3> DEFINE none == [i \in 1..0 |-> 0]
    <3>2. none \in [1..Cardinality(T) -> T] /\ InOrder(none)
      BY <3>1, <3>1a DEF InOrder
    <3> HIDE DEF none
    <3> QED
      BY <1>5, <3>2
  <2>2. CASE k # 0 /\ k \notin T
    <3>1. T \in SUBSET (1..(k - 1)) /\ k - 1 \in Nat /\ k - 1 < k
      BY <1>4, <2>2
    <3> QED
      BY <1>4, <1>5, <3>1
  <2> QED
    BY <2>1, <2>2
<1> DEFINE R == T \ {k}
<1>7. k - 1 \in Nat /\ k - 1 < k /\ R \in SUBSET (1..(k - 1))
  BY <1>4, <1>6
<1>7a. IsFiniteSet(T) /\ IsFiniteSet(R)
  BY <1>1, <1>4, <1>7
<1>8. PICK f \in [1..Cardinality(R) -> R] : InOrder(f)
  BY <1>4, <1>7
<1>9. PICK n \in Nat : Cardinality(R) = n /\ Cardinality(T) = n + 1
  <2>1. Cardinality(R) = Cardinality(T) - 1
    BY <1>6, <1>7a, FS_RemoveElement
  <2>2. Cardinality(T) \in Nat /\ Cardinality(R) \in Nat
    BY <1>7a, FS_CardinalityType
  <2> QED
    BY <2>1, <2>2
<1> DEFINE g == [i \in 1..(n + 1) |-> IF i = n + 1 THEN k ELSE f[i]]
<1>10. g \in [1..(n + 1) -> T]
  <2> SUFFICES ASSUME NEW i \in 1..(n + 1), i # n + 1 PROVE f[i] \in T
    BY <1>6
  <2>1. i \in 1..n
    OBVIOUS
  <2> QED
    BY <1>8, <1>9, <2>1
<1>11. InOrder(g)
  <2> SUFFICES ASSUME NEW i \in 1..(n + 1), NEW j \in 1..(n + 1), i < j
               PROVE  g[i] < g[j]
    BY DEF InOrder
  <2> HIDE DEF R
  <2>1. i \in 1..n
    OBVIOUS
  <2>1a. f[i] \in R
    BY <1>8, <1>9, <2>1
  <2>1b. f[i] < k
    <3>1. f[i] \in 1..(k - 1)
      BY <1>7, <2>1a
    <3> QED
      BY <1>4, <3>1
  <2>2. j # n + 1 => j \in 1..n /\ f[i] < f[j]
    BY <1>8, <1>9, <2>1 DEF InOrder
  <2> QED
    BY <2>1, <2>1b, <2>2
<1> QED
  BY <1>5, <1>9, <1>10, <1>11

\* What Sorted gives has just the members of the set.
LEMMA SortedMembers ==
  ASSUME NEW m \in Nat, NEW S \in SUBSET (1..m)
  PROVE  /\ Sorted(S) \in [1..Cardinality(S) -> S] /\ Cardinality(S) \in Nat
         /\ Sorted(S) \in Seq(S)
<1>1. Sorted(S) \in [1..Cardinality(S) -> S] /\ IsFiniteSet(S)
  BY SortedExists DEF Sorted
<1>2. Cardinality(S) \in Nat
  BY <1>1, FS_CardinalityType
<1> QED
  BY <1>1, <1>2

LEMMA MinPair ==
  ASSUME NEW a \in Int, NEW b \in Int
  PROVE  Min({a, b}) = IF a <= b THEN a ELSE b
<1>1. Min({a, b}) = CHOOSE x \in {a, b} : \A y \in {a, b} : x <= y
  BY DEF Min
<1>2. CASE a <= b
  BY <1>1, <1>2
<1>3. CASE b < a
  BY <1>1, <1>3
<1> QED
  BY <1>2, <1>3

LEMMA MinNat ==
  ASSUME NEW a \in Nat, NEW b \in Nat
  PROVE  Min({a, b}) \in Nat /\ Min({a, b}) <= a /\ Min({a, b}) <= b
<1>1. Min({a, b}) = IF a <= b THEN a ELSE b
  BY MinPair
<1> QED
  BY <1>1

\* The ends of a queue.
LEMMA Queues ==
  ASSUME NEW S
  PROVE  /\ <<>> \in Seq(S) /\ Len(<<>>) = 0
         /\ \A x \in S : <<x>> \in Seq(S) /\ Len(<<x>>) = 1 /\ <<x>>[1] = x /\ <<x>> # <<>>
         /\ \A q \in Seq(S) : q # <<>> =>
              Head(q) \in S /\ Head(q) = q[1] /\ Tail(q) \in Seq(S) /\ Len(Tail(q)) = Len(q) - 1
         /\ \A q \in Seq(S) : \A x \in S : Append(q, x) \in Seq(S)
OBVIOUS

\* A chunk of a file joins on to what is before it.
LEMMA PartChains ==
  ASSUME NEW c \in Bytes, NEW off \in Nat, NEW len \in Nat, off + len <= Len(c)
  PROVE  /\ Part(c, off, len) \in Bytes /\ Len(Part(c, off, len)) = len
         /\ SubSeq(c, 1, off) \in Bytes /\ Len(SubSeq(c, 1, off)) = off
         /\ SubSeq(c, 1, off) \o Part(c, off, len) = SubSeq(c, 1, off + len)
<1>1. Part(c, off, len) = SubSeq(c, off + 1, off + len)
  <2>1. Min({off + len, Len(c)}) = off + len
    BY MinPair DEF Bytes
  <2> QED
    BY <2>1 DEF Part
<1>2. SubSeq(c, off + 1, off + len) \in Bytes /\ SubSeq(c, 1, off) \in Bytes
  BY DEF Bytes
<1>3. Len(SubSeq(c, off + 1, off + len)) = len /\ Len(SubSeq(c, 1, off)) = off
  BY DEF Bytes
<1> DEFINE l == SubSeq(c, 1, off) \o SubSeq(c, off + 1, off + len)
           r == SubSeq(c, 1, off + len)
<1>4. l \in Seq(Unit) /\ r \in Seq(Unit) /\ Len(l) = off + len /\ Len(r) = off + len
  BY <1>2, <1>3 DEF Bytes
<1>5. ASSUME NEW i \in 1..(off + len) PROVE l[i] = r[i]
  <2>1. CASE i <= off
    BY <1>2, <1>3, <2>1 DEF Bytes
  <2>2. CASE off < i
    BY <1>2, <1>3, <2>2 DEF Bytes
  <2> QED
    BY <2>1, <2>2
<1>6. l = r
  BY <1>4, <1>5
<1> QED
  BY <1>1, <1>2, <1>3, <1>6

\* No bytes are not a file that does not exist, and a chunk of a file is bytes.
LEMMA BytesAreNotAbsent == Absent \notin Bytes /\ <<>> \in Bytes /\ Absent \in Seq(Nat)
<1>1. Absent[1] \notin Unit /\ Len(Absent) = 1
  BY DEF Absent, Unit
<1> QED
  BY <1>1 DEF Absent, Bytes

LEMMA PartBytes ==
  ASSUME NEW c \in Bytes, NEW off \in Nat, NEW len \in Nat, off <= Len(c)
  PROVE  Part(c, off, len) \in Bytes
<1>1. PICK k \in Nat : Min({off + len, Len(c)}) = k /\ k <= Len(c)
  BY MinPair DEF Bytes
<1>2. c \in Seq(Unit) /\ SubSeq(c, off + 1, k) \in Seq(Unit)
  BY <1>1 DEF Bytes
<1> QED
  BY <1>1, <1>2 DEF Part, Bytes
-----------------------------------------------------------------------------
(* The box's answers *)

LEMMA NameTypes ==
  /\ \A i \in DOMAIN Order : Order[i] \in Names
  /\ \A n \in Names : n \in Labels /\ Content[n] \in Bytes /\ Content[n] # Absent
<1>1. \A n \in Names : n \in Labels
  BY DEF Labels
<1>2. \A n \in Names : Content[n] \in Bytes /\ Content[n] # Absent
  BY DeviceAssumption, BytesAreNotAbsent DEF Bytes
<1> QED
  BY <1>1, <1>2 DEF Names, Range

LEMMA FrameFields ==
  ASSUME NEW op \in Asked \cup Told, NEW name \in Labels, NEW off \in Nat, NEW len \in Nat, NEW data \in Bytes
  PROVE  LET f == Frame(op, name, off, len, data) IN
         /\ f \in Frames
         /\ f.op = op /\ f.name = name /\ f.off = off /\ f.len = len /\ f.data = data
         /\ op \in Asked /\ (op \in {"FETCH", "CRC", "DELETE"} => name \in Names) => f \in Requests
         /\ op # "ITEM" => f \in Replies
BY DEF Requests, Frame, Frames, Replies

LEMMA RequestFields ==
  ASSUME NEW r \in Requests
  PROVE  /\ r.op \in Asked
         /\ r.off \in Nat /\ r.len \in Nat /\ r.data \in Bytes /\ r \in Frames
         /\ r.op \in {"FETCH", "CRC", "DELETE"} => r.name \in Names
BY DEF Requests, Frames

\* LIST names files that are there.
LEMMA ListedNames ==
  ASSUME Types
  PROVE  Listed \in Seq(Names) /\ \A i \in DOMAIN Listed : archive[Listed[i]] = Content[Listed[i]]
<1> DEFINE here == {i \in DOMAIN Order : archive[Order[i]] # Absent}
           S == {i \in {i \in here : Cardinality({j \in here : j < i}) < ListMax} :
                   Order[i] # open_name}
<1>1. PICK m \in Nat : DOMAIN Order = 1..m
  BY DeviceAssumption
<1>2. S \in SUBSET (1..m)
  BY <1>1
<1>3. Sorted(S) \in [1..Cardinality(S) -> S] /\ Cardinality(S) \in Nat
  BY <1>1, <1>2, SortedMembers
<1>4. Listed = [k \in 1..Cardinality(S) |-> Order[Sorted(S)[k]]]
  BY <1>3 DEF Listed
<1>5. \A k \in 1..Cardinality(S) : Sorted(S)[k] \in S
  BY <1>3
<1>6. \A i \in S : Order[i] \in Names /\ archive[Order[i]] = Content[Order[i]]
  BY NameTypes DEF Types, BoxTypes
<1> HIDE DEF S
<1>7. \A k \in 1..Cardinality(S) :
        Listed[k] \in Names /\ archive[Listed[k]] = Content[Listed[k]]
  BY <1>4, <1>5, <1>6
<1>8. Listed \in [1..Cardinality(S) -> Names] /\ DOMAIN Listed = 1..Cardinality(S)
  BY <1>4, <1>7
<1> QED
  BY <1>3, <1>7, <1>8

LEMMA ListingShape ==
  ASSUME Types
  PROVE  LET m == Len(Listing) IN
         /\ Listing \in Seq(Replies) /\ m \in Nat /\ m > 0
         /\ Listing[m].op = "LIST_END" /\ Listing[m].len = m - 1
         /\ \A i \in 1..(m - 1) :
              Listing[i].op = "ITEM" /\ Listing[i].name \in Names /\ Whole(Listing[i].name)
<1> DEFINE n == Len(Listed)
           Item(x) == Frame("ITEM", x, 0, Len(archive[x]), <<>>)
           items == [i \in DOMAIN Listed |-> Item(Listed[i])]
           end == Frame("LIST_END", NoName, 0, n, <<>>)
<1>1. Listed \in Seq(Names) /\ n \in Nat /\ DOMAIN Listed = 1..n
  BY ListedNames
<1>2. \A i \in 1..n : Listed[i] \in Names /\ Whole(Listed[i])
  BY <1>1, ListedNames DEF Whole
<1>3. ASSUME NEW x \in Names, Whole(x) PROVE Item(x) \in Replies
  <2>1. x \in Labels /\ archive[x] = Content[x] /\ Len(archive[x]) \in Nat
    BY <1>3, NameTypes DEF Whole, Bytes
  <2>2. Item(x) \in Frames /\ Item(x).name = x /\ Item(x).len = Len(Content[x])
    <3>1. "ITEM" \in Asked \cup Told
      BY DEF Told
    <3>2. <<>> \in Bytes /\ 0 \in Nat
      BY BytesAreNotAbsent
    <3> QED
      BY <2>1, <3>1, <3>2, FrameFields
  <2> HIDE DEF Item
  <2> QED
    BY <2>2 DEF Replies
<1>4. end \in Replies
  BY <1>1, FrameFields, BytesAreNotAbsent DEF Asked, Told, Labels
<1>5. Listing = items \o <<end>>
  BY DEF Listing
<1>6. items \in Seq(Replies) /\ Len(items) = n /\ \A i \in 1..n : items[i] = Item(Listed[i])
  BY <1>1, <1>2, <1>3
<1>7. <<end>> \in Seq(Replies) /\ Len(<<end>>) = 1 /\ <<end>>[1] = end
  BY <1>4
<1> HIDE DEF items, end
<1>8. /\ Listing \in Seq(Replies) /\ Len(Listing) = n + 1
      /\ \A i \in 1..n : Listing[i] = Item(Listed[i])
      /\ Listing[n + 1] = end
  BY <1>1, <1>5, <1>6, <1>7
<1>9. end.op = "LIST_END" /\ end.len = n
  BY DEF end, Frame
<1>10. \A i \in 1..n : Item(Listed[i]).op = "ITEM" /\ Item(Listed[i]).name = Listed[i]
  BY DEF Frame
<1> QED
  BY <1>1, <1>2, <1>8, <1>9, <1>10

\* Whatever it is asked, the box sends replies.
LEMMA AnswersAreReplies ==
  ASSUME Types, NEW r \in Requests
  PROVE  Answers(r) \in Seq(Replies)
<1>0. <<>> \in Bytes /\ \A n \in Names : Content[n] \in Bytes /\ Content[n] # Absent
  BY BytesAreNotAbsent, NameTypes
<1>1. \A why \in Errors : Err(why) \in Replies
  BY <1>0, FrameFields DEF Err, Asked, Told, Labels
<1>2. Plain("BYE_OK") \in Replies /\ Plain("DELETE_OK") \in Replies
  BY <1>0, FrameFields DEF Plain, Asked, Told, Labels
<1>3. Frame("HELLO_OK", NoName, 0, IF storage_ok THEN 1 ELSE 0, <<>>) \in Replies
  <2>1. (IF storage_ok THEN 1 ELSE 0) \in Nat
    OBVIOUS
  <2> QED
    BY <1>0, <2>1, FrameFields DEF Asked, Told, Labels
<1>4. r.op = "FETCH" => FetchAnswer(r) \in Replies
  <2> SUFFICES ASSUME r.op = "FETCH", archive[r.name] # Absent, ~ (r.off > Len(archive[r.name]))
               PROVE  FetchAnswer(r) \in Replies
    BY <1>1 DEF FetchAnswer, Errors
  <2>1. r.name \in Names /\ archive[r.name] \in Bytes /\ r.off \in Nat /\ r.len \in Nat
    BY <1>0, RequestFields DEF Types, BoxTypes
  <2>2. Min({r.len, FetchMax}) \in Nat
    BY <2>1, MinNat, DeviceAssumption
  <2>3. Part(archive[r.name], r.off, Min({r.len, FetchMax})) \in Bytes
    <3>1. r.off <= Len(archive[r.name])
      BY <2>1 DEF Bytes
    <3> QED
      BY <2>1, <2>2, <3>1, PartBytes
  <2> QED
    BY <2>3 , <1>0, FrameFields DEF FetchAnswer, Asked, Told, Labels
<1>5. r.op = "CRC" => CrcAnswer(r) \in Replies
  <2> DEFINE span == Min({r.len, CrcMax})
  <2> SUFFICES ASSUME r.op = "CRC", archive[r.name] # Absent,
                      ~ (r.off + span > Len(archive[r.name]))
               PROVE  CrcAnswer(r) \in Replies
    BY <1>1 DEF CrcAnswer, Errors
  <2>1. r.name \in Names /\ archive[r.name] \in Bytes /\ r.off \in Nat /\ r.len \in Nat /\ r.data \in Bytes
    BY <1>0, RequestFields DEF Types, BoxTypes
  <2>2. span \in Nat
    BY <2>1, MinNat, DeviceAssumption
  <2>3. Part(archive[r.name], r.off, span) \in Bytes
    <3>1. r.off <= Len(archive[r.name])
      BY <2>1, <2>2 DEF Bytes
    <3> QED
      BY <2>1, <2>2, <3>1, PartBytes
  <2>4. r.data \o Part(archive[r.name], r.off, span) \in Bytes
    BY <2>1, <2>3 DEF Bytes
  <2> QED
    BY <2>4 , <1>0, FrameFields DEF CrcAnswer, Asked, Told, Labels
<1>6. DeleteAnswer(r) \in Replies
  BY <1>1, <1>2 DEF DeleteAnswer, Errors
<1>7. Listing \in Seq(Replies)
  BY ListingShape
<1>8. storage_ok \in BOOLEAN /\ r.op \in Asked
  BY RequestFields DEF Types, BoxTypes
<1>9. \A a \in Replies : <<a>> \in Seq(Replies)
  OBVIOUS
<1> HIDE DEF Replies
<1>10. CASE r.op = "sync"
  BY <1>10 DEF Answers
<1>11. CASE r.op = "HELLO"
  BY <1>3, <1>9, <1>11 DEF Answers
<1>12. CASE r.op = "BYE"
  BY <1>2, <1>9, <1>12 DEF Answers
<1>13. CASE r.op \notin {"sync", "HELLO", "BYE"} /\ ~ storage_ok
  BY <1>1, <1>9, <1>13 DEF Answers, Errors
<1>14. CASE r.op = "LIST" /\ storage_ok
  BY <1>7, <1>14 DEF Answers
<1>15. CASE r.op = "FETCH" /\ storage_ok
  BY <1>4, <1>9, <1>15 DEF Answers
<1>16. CASE r.op = "CRC" /\ storage_ok
  BY <1>5, <1>9, <1>16 DEF Answers
<1>17. CASE r.op = "DELETE" /\ storage_ok
  BY <1>6, <1>9, <1>17 DEF Answers
<1> QED
  BY <1>8, <1>10, <1>11, <1>12, <1>13, <1>14, <1>15, <1>16, <1>17 DEF Asked
-----------------------------------------------------------------------------
(* Types, phases and the files, whatever is late *)

LEMMA Hands ==
  ASSUME Base
  PROVE  /\ todo # <<>> => /\ entry.name \in Names /\ entry.size \in Nat
                           /\ entry.size = Len(Content[entry.name])
                           /\ Tail(todo) \in Seq(Entries)
         /\ pending # <<>> => Taken \in Replies /\ Tail(pending) \in Seq(Replies)
<1>1. ASSUME todo # <<>> PROVE Head(todo) \in Entries /\ Tail(todo) \in Seq(Entries)
  BY <1>1 DEF Base, Types, WorkTypes
<1>2. ASSUME pending # <<>> PROVE Taken \in Replies /\ Tail(pending) \in Seq(Replies)
  BY <1>2 DEF Base, Types, WorkTypes, Taken
<1> QED
  BY <1>1, <1>2 DEF entry, Entries

LEMMA ReplyFields ==
  ASSUME NEW a \in Replies
  PROVE  /\ a \in Frames /\ a.op \in Asked \cup Told /\ a.len \in Nat /\ a.data \in Bytes
         /\ a.op = "ITEM" => a.name \in Names /\ a.len = Len(Content[a.name])
BY DEF Replies, Frames

LEMMA PlainRequests ==
  /\ \A op \in {"sync", "HELLO", "BYE", "LIST"} : Plain(op) \in Requests /\ Plain(op).op = op
  /\ Wake \in Requests /\ Wake.op = "sync" /\ None.op = "none"
  /\ \A r \in Requests : r # None
<1>1. <<>> \in Bytes
  BY BytesAreNotAbsent
<1>2. ASSUME NEW op \in {"sync", "HELLO", "BYE", "LIST"}
      PROVE  Plain(op) \in Requests /\ Plain(op).op = op
  <2>1. op \in Asked /\ op \notin {"FETCH", "CRC", "DELETE"} /\ NoName \in Labels
    BY DEF Asked, Labels
  <2> QED
    BY <1>1, <2>1 DEF Plain, Frame, Frames, Requests
<1>3. None.op = "none"
  BY DEF None, Plain, Frame
<1>4. \A r \in Requests : r.op # "none"
  BY RequestFields DEF Asked
<1> QED
  BY <1>2, <1>3, <1>4 DEF Wake

LEMMA BaseInit == Init => Base
<1> SUFFICES ASSUME Init PROVE Base
  OBVIOUS
<1>1. PICK f \in Local, p \in Partial : final = f /\ had = f /\ part = p
  BY DEF Init
<1>2. final \in Files /\ part \in Files
  BY <1>1, LinkAssumption DEF Files, Bytes
<1>3. \A n \in Names : Content[n] \in Bytes
  BY NameTypes
<1>4. archive \in Files /\ archive = Content
  BY DeviceAssumption DEF Init, DeviceInit, Files, Bytes
<1>5. Types
  <2>1. BoxTypes
    BY <1>4, Queues DEF Init, DeviceInit, BoxTypes
  <2>2. WorkTypes
    BY BytesAreNotAbsent DEF Init, WorkTypes
  <2>3. FileTypes /\ Counts
    BY <1>1, <1>2 DEF Init, FileTypes, Counts, Clean
  <2> QED
    BY <2>1, <2>2, <2>3 DEF Types
<1>6. Phase /\ Purpose /\ Kept
  BY <1>1 DEF Init, Phase, Purpose, Kept
<1> QED
  BY <1>5, <1>6 DEF Base

\* The box touches its card, its flags and the two queues only.
LEMMA BaseBox ==
  ASSUME Base, Device \/ SessionEnds \/ CardFixed \/ LoseFrame \/ LoseRequest
  PROVE  Base'
<1>0. BoxTypes
  BY DEF Base, Types
<1>1. BoxTypes'
  <2>1. CASE Serve
    <3>1. Head(wire) \in Requests /\ Tail(wire) \in Seq(Requests)
      BY <1>0, <2>1 DEF BoxTypes, Serve
    <3>2. Answers(Head(wire)) \in Seq(Replies)
      BY <3>1, AnswersAreReplies DEF Base
    <3>3. line' \in Seq(Replies) /\ wire' \in Seq(Requests) /\ over' \in BOOLEAN
      BY <1>0, <2>1, <3>1, <3>2 DEF BoxTypes, Serve
    <3>4. archive' \in Files /\ \A n \in Names : archive'[n] \in {Absent, Content[n]}
      BY <1>0, <2>1, <3>1, RequestFields DEF BoxTypes, Serve, Files
    <3> QED
      BY <1>0, <2>1, <3>3, <3>4 DEF BoxTypes, Serve
  <2>2. CASE Leave \/ IdleExit(pc = "off")
    BY <1>0, <2>2 DEF BoxTypes, Leave, IdleExit
  <2>3. CASE Console
    <3>1. Tail(wire) \in Seq(Requests) /\ sync_mode' \in BOOLEAN
      BY <1>0, <2>3 DEF BoxTypes, Console
    <3> QED
      BY <1>0, <2>3, <3>1 DEF BoxTypes, Console
  <2>4. CASE SessionEnds \/ CardFixed
    BY <1>0, <2>4 DEF BoxTypes, SessionEnds, CloseSession, CardFixed
  <2>5. CASE LoseFrame
    <3>1. wire' \in Seq(Requests) /\ line' \in Seq(Replies)
      BY <1>0, <2>5, Queues DEF BoxTypes, LoseFrame
    <3> QED
      BY <1>0, <2>5, <3>1 DEF BoxTypes, LoseFrame, devVars
  <2>6. CASE LoseRequest
    <3>1. Err("STORAGE_FAILED") \in Replies
      BY FrameFields, BytesAreNotAbsent DEF Err, Asked, Told, Labels, Errors
    <3>2. wire' \in Seq(Requests) /\ line' \in Seq(Replies)
      BY <1>0, <2>6, <3>1, Queues DEF BoxTypes, LoseRequest, CardFails
    <3> QED
      BY <1>0, <2>6, <3>2 DEF BoxTypes, LoseRequest, CardFails
  <2> QED
    BY <2>1, <2>2, <2>3, <2>4, <2>5, <2>6 DEF Device
<1>2. UNCHANGED hostVars
  BY DEF Device, SessionEnds, CardFixed, LoseFrame, LoseRequest
<1>3. WorkTypes' /\ FileTypes'
  BY <1>2 DEF Base, Types, WorkTypes, FileTypes, hostVars, reqVars, workVars, fileVars
<1>4. Counts'
  BY DEF Base, Types, Counts, Device, SessionEnds, CardFixed, LoseFrame, LoseRequest, spent
<1>5. Phase' /\ Purpose' /\ Kept'
  BY <1>2 DEF Base, Phase, Purpose, Kept, hostVars, reqVars, workVars, fileVars, Waits, entry
<1> QED
  BY <1>1, <1>3, <1>4, <1>5 DEF Base, Types

\* Each answer is taken up where the command waits for it.
LEMMA AnsweredWhere ==
  ASSUME Base, NEW type, Answered(type)
  PROVE  /\ req \in Requests /\ pending # <<>> /\ Taken.op = type /\ req # None
         /\ type = "HELLO_OK" => pc = "hello"
         /\ type \in {"ITEM", "LIST_END"} => pc = "list"
         /\ type = "CRC_OK" => pc = "crc"
         /\ type = "DATA" => pc = "fetch"
         /\ type = "DELETE_OK" => pc = "delete"
         /\ type = "BYE_OK" => pc = "bye"
<1>1. req \in Requests /\ pc \in DOMAIN Waits /\ req.op = Waits[pc]
  BY DEF Base, Phase, Answered
<1>2. pending # <<>> /\ Taken.op = type /\ type \in Expected[req.op] /\ req # None
  BY DEF Answered
<1> QED
  BY <1>1, <1>2 DEF Waits, Expected

\* A command that ends leaves no work behind.
LEMMA BaseFinish ==
  ASSUME Base, NEW how, Finish(how), UNCHANGED <<devVars, line, job>>,
         FileTypes', Kept', Counts'
  PROVE  Base'
<1>1. BoxTypes'
  BY DEF Base, Types, BoxTypes, Finish, devVars
<1>2. WorkTypes'
  BY Queues, BytesAreNotAbsent DEF Base, Types, WorkTypes, Finish
<1>3. Phase' /\ Purpose'
  BY DEF Finish, Phase, Purpose
<1> QED
  BY <1>1, <1>2, <1>3 DEF Base, Types

\* A step that only asks for r and waits in phase p.
LEMMA BaseAsk ==
  ASSUME Base, NEW r \in Requests, Ask(r), pc' \in DOMAIN Waits, r.op = Waits[pc'],
         pc' \in {"list", "delete", "bye"} \/ (pc' = pc /\ pc \in {"crc", "fetch"}),
         UNCHANGED <<devVars, line, job, workVars, fileVars, report, spent>>
  PROVE  Base'
<1>0. BoxTypes /\ WorkTypes /\ FileTypes /\ Counts /\ Phase /\ Purpose
  BY DEF Base, Types
<1>1. BoxTypes'
  BY <1>0, Queues DEF BoxTypes, Ask, devVars
<1>2. WorkTypes'
  BY <1>0, Queues DEF WorkTypes, Ask, workVars
<1>3. FileTypes' /\ Counts'
  BY <1>0 DEF FileTypes, Counts, fileVars, spent
<1>4. Phase'
  <2>1. req' = r /\ req' # None /\ pc' \in {"list", "delete", "bye", "crc", "fetch"} /\ todo' = todo
    BY PlainRequests DEF Ask, workVars
  <2>2. pc' \in {"crc", "fetch"} => todo' # <<>>
    BY <1>0, <2>1 DEF Phase
  <2> QED
    BY <2>1, <2>2 DEF Phase, Waits
<1>5. Purpose'
  BY <1>0 DEF Purpose, workVars, fileVars, entry
<1>6. Kept'
  BY DEF Base, Kept, fileVars
<1> QED
  BY <1>1, <1>2, <1>3, <1>4, <1>5, <1>6 DEF Base, Types

LEMMA BaseStart ==
  ASSUME Base, StartSync \/ StartHasty \/ StartRm
  PROVE  Base'
<1>0. BoxTypes /\ WorkTypes /\ FileTypes /\ Counts /\ Phase
  BY DEF Base, Types
<1>1. PICK j \in {"sync"} \cup Names : Start(j)
  BY DEF StartSync, StartHasty, StartRm
<1>2. /\ Plain("HELLO") \in Requests /\ Plain("HELLO").op = "HELLO" /\ Plain("HELLO") # None
      /\ Wake \in Requests
  BY PlainRequests
<1>3. wire' \in Seq(Requests) /\ line' \in Seq(Replies) /\ pending' \in Seq(Replies)
  <2>1. <<Wake, Plain("HELLO")>> \in Seq(Requests) /\ wire \in Seq(Requests)
    BY <1>0, <1>2 DEF BoxTypes
  <2>2. wire' = wire \o <<Wake, Plain("HELLO")>>
    BY <1>1 DEF Start
  <2> QED
    BY <1>1, <2>1, <2>2, Queues DEF Start
<1>4. BoxTypes'
  BY <1>0, <1>1, <1>3 DEF BoxTypes, Start, devVars
<1>5. WorkTypes'
  BY <1>0, <1>1, <1>3 DEF WorkTypes, Start, workVars
<1>6. FileTypes'
  BY <1>0, <1>1 DEF FileTypes, Start, fileVars, Clean
<1>7. Counts'
  BY <1>0 DEF Counts, StartSync, StartHasty, StartRm, spent
<1>8. Phase' /\ Purpose' /\ Kept'
  BY <1>0, <1>1, <1>2 DEF Base, Phase, Purpose, Kept, Start, workVars, fileVars, Waits
<1> QED
  BY <1>4, <1>5, <1>6, <1>7, <1>8 DEF Base, Types

LEMMA BaseWait ==
  ASSUME Base, Read \/ NoAnswer \/ LateAnswer \/ OnError
  PROVE  Base'
<1>0. BoxTypes /\ WorkTypes /\ FileTypes /\ Counts /\ Phase /\ Purpose /\ Kept
  BY DEF Base, Types
<1>1. CASE Read
  <2>1. PICK k \in 1..Len(line) :
          pending' = SubSeq(line, 1, k) /\ line' = SubSeq(line, k + 1, Len(line))
    BY <1>1 DEF Read
  <2>2. pending' \in Seq(Replies) /\ line' \in Seq(Replies)
    BY <1>0, <2>1 DEF BoxTypes
  <2>3. BoxTypes' /\ WorkTypes' /\ FileTypes' /\ Counts'
    BY <1>0, <1>1, <2>2 DEF BoxTypes, WorkTypes, FileTypes, Counts, Read, devVars, workVars, fileVars, spent
  <2>4. Phase' /\ Purpose' /\ Kept'
    BY <1>0, <1>1 DEF Phase, Purpose, Kept, Read, workVars, fileVars, entry
  <2> QED
    BY <2>3, <2>4 DEF Base, Types
<1>2. CASE TimeOut /\ Counts'
  <2>1. FileTypes' /\ Kept'
    BY <1>0, <1>2 DEF FileTypes, Kept, TimeOut, fileVars
  <2>2. CASE Finish("failed")
    BY <1>2, <2>1, <2>2, BaseFinish DEF TimeOut
  <2>3. CASE wire' = Append(wire, req) /\ UNCHANGED <<pc, req, pending, workVars, result>>
    <3>1. req \in Requests
      BY <1>0, <1>2 DEF TimeOut, Phase
    <3>2. BoxTypes' /\ WorkTypes'
      BY <1>0, <1>2, <2>3, <3>1, Queues DEF BoxTypes, WorkTypes, TimeOut, devVars, workVars
    <3>3. Phase' /\ Purpose'
      BY <1>0, <1>2, <2>3 DEF Phase, Purpose, TimeOut, workVars, fileVars, entry
    <3> QED
      BY <1>2, <2>1, <3>2, <3>3 DEF Base, Types
  <2> QED
    BY <1>2, <2>2, <2>3 DEF TimeOut
<1>3. CASE NoAnswer
  BY <1>0, <1>2, <1>3 DEF NoAnswer, Counts, spent
<1>4. CASE LateAnswer
  BY <1>0, <1>2, <1>4 DEF LateAnswer, Counts
<1>5. CASE OnError
  <2>1. FileTypes' /\ Kept' /\ Counts'
    BY <1>0, <1>5 DEF FileTypes, Kept, Counts, OnError, fileVars, spent
  <2> QED
    BY <1>5, <2>1, BaseFinish DEF OnError
<1> QED
  BY <1>1, <1>3, <1>4, <1>5

LEMMA BaseAnswers ==
  ASSUME Base, OnHello \/ OnItem \/ OnListEnd \/ SayBye \/ OnBye
  PROVE  Base'
<1>0. BoxTypes /\ WorkTypes /\ FileTypes /\ Counts /\ Phase /\ Purpose /\ Kept
  BY DEF Base, Types
<1>1. /\ Plain("BYE") \in Requests /\ Plain("BYE").op = "BYE"
      /\ Plain("LIST") \in Requests /\ Plain("LIST").op = "LIST"
  BY PlainRequests
<1>2. CASE OnHello
  <2>1. CASE Ask(Plain("BYE")) /\ pc' = "bye"
    BY <1>1, <1>2, <2>1, BaseAsk DEF OnHello, Waits
  <2>2. CASE Ask(Plain("LIST")) /\ pc' = "list"
    BY <1>1, <1>2, <2>2, BaseAsk DEF OnHello, Waits
  <2>3. CASE job # "sync" /\ Ask(Frame("DELETE", job, 0, 0, <<>>)) /\ pc' = "delete"
    <3>1. job \in Labels /\ job \in Names /\ "DELETE" \in Asked /\ <<>> \in Bytes
      BY <1>0, <2>3, BytesAreNotAbsent, NameTypes DEF WorkTypes, Asked
    <3>2. /\ Frame("DELETE", job, 0, 0, <<>>) \in Requests
          /\ Frame("DELETE", job, 0, 0, <<>>).op = "DELETE"
      BY <3>1 DEF Frame, Frames, Requests
    <3> QED
      BY <1>2, <2>3, <3>2, BaseAsk DEF OnHello, Waits
  <2> QED
    BY <1>2, <2>1, <2>2, <2>3 DEF OnHello
<1>3. CASE OnItem
  <2>1. pc = "list" /\ Taken \in Replies /\ Taken.op = "ITEM" /\ Tail(pending) \in Seq(Replies)
    BY <1>3, AnsweredWhere, Hands DEF OnItem
  <2>2. Taken.name \in Names /\ Taken.len \in Nat /\ Taken.len = Len(Content[Taken.name])
    BY <2>1, ReplyFields
  <2>3. todo' \in Seq(Entries)
    <3>1. [name |-> Taken.name, size |-> Taken.len] \in Entries
      BY <2>2 DEF Entries
    <3> QED
      BY <1>0, <1>3, <3>1, Queues DEF OnItem, WorkTypes
  <2>4. BoxTypes' /\ WorkTypes' /\ FileTypes' /\ Counts'
    BY <1>0, <1>3, <2>1, <2>3 DEF BoxTypes, WorkTypes, FileTypes, Counts, OnItem, devVars, fileVars, spent
  <2>5. Phase' /\ Purpose' /\ Kept'
    BY <1>0, <1>3, <2>1 DEF Phase, Purpose, Kept, OnItem, fileVars
  <2> QED
    BY <2>4, <2>5 DEF Base, Types
<1>4. CASE OnListEnd
  <2>1. FileTypes' /\ Kept' /\ Counts'
    BY <1>0, <1>4 DEF FileTypes, Kept, Counts, OnListEnd, fileVars, spent
  <2>2. CASE Finish("failed")
    BY <1>4, <2>1, <2>2, BaseFinish DEF OnListEnd
  <2>3. CASE Quiet /\ pc' = "entry" /\ UNCHANGED <<workVars, result>>
    <3>1. BoxTypes' /\ WorkTypes'
      BY <1>0, <1>4, <2>3 DEF BoxTypes, WorkTypes, OnListEnd, Quiet, devVars, workVars
    <3>2. Phase' /\ Purpose'
      BY <2>3 DEF Phase, Purpose, Quiet
    <3> QED
      BY <2>1, <3>1, <3>2 DEF Base, Types
  <2> QED
    BY <1>4, <2>2, <2>3 DEF OnListEnd
<1>5. CASE SayBye
  BY <1>1, <1>5, BaseAsk DEF SayBye, Waits
<1>6. CASE OnBye
  <2>1. FileTypes' /\ Kept' /\ Counts'
    BY <1>0, <1>6 DEF FileTypes, Kept, Counts, OnBye, fileVars, spent
  <2> QED
    BY <1>6, <2>1, BaseFinish DEF OnBye
<1> QED
  BY <1>2, <1>3, <1>4, <1>5, <1>6

\* The steps of a command between two requests: what is asked is about the entry
\* in hand.
LEMMA BaseAsks ==
  ASSUME Base, AskCrc \/ AskData
  PROVE  Base'
<1>1. todo # <<>> /\ entry.name \in Names /\ entry.size \in Nat /\ entry.name \in Labels
  BY Hands, NameTypes DEF Base, Phase, AskCrc, AskData
<1>2. offset \in Nat /\ crc \in Bytes /\ "CRC" \in Asked /\ "FETCH" \in Asked /\ <<>> \in Bytes
  BY BytesAreNotAbsent DEF Base, Types, WorkTypes, Asked
<1>3. CASE AskCrc
  <2>1. Summed(goal) \in Bytes
    BY <1>1, <1>3 DEF Base, Types, FileTypes, Files, Purpose, AskCrc, Summed
  <2>2. Len(Summed(goal)) - offset \in Nat
    BY <1>2, <1>3, <2>1 DEF AskCrc, Bytes
  <2>3. Min({CrcMax, Len(Summed(goal)) - offset}) \in Nat
    BY <2>2, MinNat, DeviceAssumption
  <2> DEFINE r == Frame("CRC", entry.name, offset, Min({CrcMax, Len(Summed(goal)) - offset}), crc)
  <2>4. r \in Requests /\ r.op = "CRC"
    BY <1>1, <1>2, <2>3, FrameFields
  <2> HIDE DEF r
  <2>5. Ask(r) /\ pc' = pc /\ pc = "crc"
    BY <1>3 DEF AskCrc, r
  <2> QED
    BY <1>3, <2>4, <2>5, BaseAsk DEF AskCrc, Waits
<1>4. CASE AskData
  <2>2. entry.size - offset \in Nat
    BY <1>1, <1>2, <1>4 DEF AskData
  <2>3. Min({FetchMax, entry.size - offset}) \in Nat
    BY <2>2, MinNat, DeviceAssumption
  <2> DEFINE r == Frame("FETCH", entry.name, offset, Min({FetchMax, entry.size - offset}), <<>>)
  <2>4. r \in Requests /\ r.op = "FETCH"
    BY <1>1, <1>2, <2>3, FrameFields
  <2> HIDE DEF r
  <2>5. Ask(r) /\ pc' = pc /\ pc = "fetch"
    BY <1>4 DEF AskData, r
  <2> QED
    BY <1>4, <2>4, <2>5, BaseAsk DEF AskData, Waits
<1> QED
  BY <1>3, <1>4

\* What may be noted of the entry in hand.
LEMMA NoteTypes ==
  ASSUME Base, todo # <<>>, NEW what \in {"skipped", "conflicts", "fetched"}, Note(what)
  PROVE  report' \in [skipped : SUBSET Names, conflicts : SUBSET Names, fetched : SUBSET Names]
<1>1. entry.name \in Names
  BY Hands
<1> QED
  BY <1>1 DEF Base, Types, FileTypes, Note

LEMMA BaseTake ==
  ASSUME Base, TakeEntry
  PROVE  Base'
<1>0. BoxTypes /\ WorkTypes /\ FileTypes /\ Counts /\ Phase /\ Purpose /\ Kept
  BY DEF Base, Types
<1>1. /\ todo # <<>> /\ entry.name \in Names /\ entry.size \in Nat
      /\ entry.size = Len(Content[entry.name]) /\ Tail(todo) \in Seq(Entries)
  BY Hands DEF TakeEntry
<1>2. BoxTypes' /\ Counts' /\ Kept'
  BY <1>0 DEF BoxTypes, Counts, Kept, TakeEntry, devVars, spent
<1>3. <<>> \in Bytes /\ <<>> # Absent
  BY BytesAreNotAbsent
<1> DEFINE local == final[entry.name]
           piece == part[entry.name]
<1>4. CASE Note("conflicts") /\ NextEntry /\ UNCHANGED part
  <2>1. WorkTypes' /\ FileTypes'
    BY <1>0, <1>1, <1>4, NoteTypes DEF WorkTypes, FileTypes, TakeEntry, NextEntry, reqVars
  <2>2. Phase' /\ Purpose'
    BY <1>4 DEF Phase, Purpose, TakeEntry, NextEntry, reqVars
  <2> QED
    BY <1>2, <2>1, <2>2 DEF Base, Types
<1>5. CASE local # Absent /\ Len(local) = entry.size /\ Sum("same") /\ UNCHANGED <<part, todo, report>>
  <2>1. WorkTypes' /\ FileTypes'
    BY <1>0, <1>1, <1>3, <1>5 DEF WorkTypes, FileTypes, TakeEntry, Sum, reqVars
  <2>2. Phase' /\ Purpose'
    BY <1>1, <1>5 DEF Phase, Purpose, TakeEntry, Sum, reqVars, entry, Waits
  <2> QED
    BY <1>2, <2>1, <2>2 DEF Base, Types
<1>6. CASE local = Absent /\ Usable(piece, entry.size) /\ Sum("resume") /\ UNCHANGED <<part, todo, report>>
  <2>1. WorkTypes' /\ FileTypes'
    BY <1>0, <1>1, <1>3, <1>6 DEF WorkTypes, FileTypes, TakeEntry, Sum, reqVars
  <2>2. Phase' /\ Purpose'
    BY <1>1, <1>6 DEF Phase, Purpose, TakeEntry, Sum, reqVars, entry, Waits, Usable
  <2> QED
    BY <1>2, <2>1, <2>2 DEF Base, Types
<1>7. CASE /\ local = Absent /\ part' = [part EXCEPT ![entry.name] = <<>>]
           /\ Fetch(0) /\ UNCHANGED <<todo, report>>
  <2>1. WorkTypes' /\ FileTypes'
    BY <1>0, <1>1, <1>3, <1>7 DEF WorkTypes, FileTypes, TakeEntry, Fetch, reqVars, Files
  <2>2. Phase' /\ Purpose'
    BY <1>0, <1>1, <1>3, <1>7 DEF Phase, Purpose, TakeEntry, Fetch, reqVars, entry, Waits, FileTypes, Files
  <2> QED
    BY <1>2, <2>1, <2>2 DEF Base, Types
<1> QED
  BY <1>4, <1>5, <1>6, <1>7 DEF TakeEntry

LEMMA BaseData ==
  ASSUME Base, OnCrc \/ OnData \/ Landed
  PROVE  Base'
<1>0. BoxTypes /\ WorkTypes /\ FileTypes /\ Counts /\ Phase /\ Purpose /\ Kept
  BY DEF Base, Types
<1>1. CASE OnCrc
  <2>1. pc = "crc" /\ Taken \in Replies /\ req \in Requests
    BY <1>1, AnsweredWhere, Hands DEF OnCrc
  <2>2. Taken.data \in Bytes /\ req.len \in Nat
    BY <2>1, ReplyFields, RequestFields
  <2>3. BoxTypes' /\ WorkTypes' /\ FileTypes' /\ Counts'
    BY <1>0, <1>1, <2>2 DEF BoxTypes, WorkTypes, FileTypes, Counts, OnCrc, Quiet, devVars, fileVars, spent
  <2>4. Phase' /\ Purpose' /\ Kept'
    BY <1>0, <1>1, <2>1 DEF Phase, Purpose, Kept, OnCrc, Quiet, fileVars, entry
  <2> QED
    BY <2>3, <2>4 DEF Base, Types
<1>2. CASE OnData
  <2>1. /\ pc = "fetch" /\ Taken \in Replies /\ Taken.data \in Bytes
        /\ entry.name \in Names
    BY <1>0, <1>2, AnsweredWhere, Hands, ReplyFields DEF OnData, Phase
  <2>2. Kept' /\ Counts'
    BY <1>0, <1>2 DEF Kept, Counts, OnData, spent
  <2>3. CASE Finish("failed") /\ UNCHANGED part
    <3>1. FileTypes'
      BY <1>0, <1>2, <2>3 DEF FileTypes, OnData
    <3> QED
      BY <1>2, <2>2, <2>3, <3>1, BaseFinish DEF OnData
  <2>4. CASE /\ part' = [part EXCEPT ![entry.name] = @ \o Taken.data]
             /\ offset' = offset + Len(Taken.data)
             /\ Quiet /\ UNCHANGED <<pc, todo, goal, crc, result>>
    <3>1. part[entry.name] \in Bytes
      BY <1>0, <2>1 DEF Purpose, FileTypes, Files
    <3>2. part[entry.name] \o Taken.data \in Bytes /\ Len(Taken.data) \in Nat
      BY <2>1, <3>1 DEF Bytes
    <3>3. part' \in Files /\ part'[entry.name] # Absent
      BY <1>0, <2>1, <2>4, <3>2, BytesAreNotAbsent DEF FileTypes, Files
    <3>4. BoxTypes' /\ WorkTypes' /\ FileTypes'
      BY <1>0, <1>2, <2>4, <3>2, <3>3 DEF BoxTypes, WorkTypes, FileTypes, OnData, Quiet, devVars
    <3>5. Phase' /\ Purpose'
      BY <1>0, <1>2, <2>1, <2>4, <3>3 DEF Phase, Purpose, OnData, Quiet, entry
    <3> QED
      BY <2>2, <3>4, <3>5 DEF Base, Types
  <2> QED
    BY <1>2, <2>3, <2>4 DEF OnData
<1>3. CASE Landed
  <2>1. Kept' /\ Counts' /\ FileTypes'
    BY <1>0, <1>3 DEF Kept, Counts, FileTypes, Landed, fileVars, spent
  <2>2. CASE Finish("failed")
    BY <1>3, <2>1, <2>2, BaseFinish DEF Landed
  <2>3. CASE /\ Len(part[entry.name]) = entry.size
             /\ Sum("whole") /\ UNCHANGED <<wire, reqVars, todo, result>>
    <3>1. BoxTypes' /\ WorkTypes'
      BY <1>0, <1>3, <2>3, BytesAreNotAbsent DEF BoxTypes, WorkTypes, Landed, Sum, reqVars, devVars
    <3>2. Phase' /\ Purpose'
      BY <1>0, <1>3, <2>3 DEF Phase, Purpose, Landed, Sum, reqVars, fileVars, entry, Waits
    <3> QED
      BY <2>1, <3>1, <3>2 DEF Base, Types
  <2> QED
    BY <1>3, <2>2, <2>3 DEF Landed
<1> QED
  BY <1>1, <1>2, <1>3

LEMMA BaseKill ==
  ASSUME Base, Kill
  PROVE  Base'
<1>1. Kept' /\ Counts'
  BY DEF Base, Types, Kept, Counts, Kill
<1>2. FileTypes'
  <2>1. FileTypes
    BY DEF Base, Types
  <2>2. CASE UNCHANGED part
    BY <2>1, <2>2 DEF FileTypes, Kill
  <2>3. CASE pc = "fetch"
    <3>1. entry.name \in Names /\ part[entry.name] \in Bytes
      BY <2>1, <2>3, Hands DEF Base, Phase, Purpose, FileTypes, Files
    <3>2. \A k \in 0..Len(part[entry.name]) : SubSeq(part[entry.name], 1, k) \in Bytes
      BY <3>1 DEF Bytes
    <3>3. part' \in Files
      BY <2>1, <2>3, <3>1, <3>2 DEF FileTypes, Files, Kill
    <3> QED
      BY <2>1, <3>3 DEF FileTypes, Kill
  <2> QED
    BY <2>2, <2>3 DEF Kill
<1> QED
  BY <1>1, <1>2, BaseFinish DEF Kill

\* What Compare decides, and the bytes it decides about.
LEMMA BaseCompare ==
  ASSUME Base, Compare
  PROVE  Base'
<1>0. BoxTypes /\ WorkTypes /\ FileTypes /\ Counts /\ Phase /\ Purpose /\ Kept /\ pc = "crc"
  BY DEF Base, Types, Compare
<1>1. /\ todo # <<>> /\ entry.name \in Names /\ entry.size \in Nat
      /\ entry.size = Len(Content[entry.name]) /\ Tail(todo) \in Seq(Entries)
  BY <1>0, Hands DEF Phase
<1>2. Counts'
  BY <1>0 DEF Counts, Compare, spent
<1>3. <<>> \in Bytes /\ <<>> # Absent /\ Absent \notin Bytes
  BY BytesAreNotAbsent
<1>4. CASE /\ goal = "same" /\ NextEntry /\ UNCHANGED <<wire, reqVars, final, part, result>>
           /\ Note(IF Agree(goal) THEN "skipped" ELSE "conflicts")
  <2>1. BoxTypes' /\ WorkTypes' /\ FileTypes'
    BY <1>0, <1>1, <1>4, NoteTypes
    DEF BoxTypes, WorkTypes, FileTypes, Compare, NextEntry, reqVars, devVars
  <2>2. Phase' /\ Purpose' /\ Kept'
    BY <1>0, <1>4 DEF Phase, Purpose, Kept, Compare, NextEntry, reqVars
  <2> QED
    BY <1>2, <2>1, <2>2 DEF Base, Types
<1>5. CASE /\ goal = "resume" /\ UNCHANGED <<wire, reqVars, todo, final, report, result>>
           /\ IF Agree(goal) THEN Fetch(Len(part[entry.name])) /\ UNCHANGED part
                     ELSE Fetch(0) /\ part' = [part EXCEPT ![entry.name] = <<>>]
  <2>1. part[entry.name] \in Bytes /\ Len(part[entry.name]) \in Nat
    BY <1>0, <1>1, <1>5 DEF Purpose, FileTypes, Files, Bytes
  <2>2. part' \in Files /\ part'[entry.name] # Absent
    BY <1>0, <1>1, <1>3, <1>5, <2>1 DEF FileTypes, Files
  <2>3. BoxTypes' /\ WorkTypes' /\ FileTypes'
    BY <1>0, <1>5, <2>1, <2>2 DEF BoxTypes, WorkTypes, FileTypes, Compare, Fetch, reqVars, devVars
  <2>4. Phase' /\ Purpose' /\ Kept'
    <3>1. pc' = "fetch" /\ req' = None
      BY <1>5 DEF Compare, Fetch, reqVars
    <3>2. Purpose'
      BY <1>0, <1>5, <2>2, <3>1 DEF Purpose, entry
    <3> QED
      BY <1>0, <1>5, <3>1, <3>2 DEF Phase, Kept, Compare, Waits
  <2> QED
    BY <1>2, <2>3, <2>4 DEF Base, Types
<1>6. CASE /\ goal = "whole" /\ part' = [part EXCEPT ![entry.name] = Absent]
           /\ Finish("failed") /\ UNCHANGED <<final, report>>
  <2>1. FileTypes' /\ Kept'
    BY <1>0, <1>1, <1>6 DEF FileTypes, Files, Kept, Compare
  <2> QED
    BY <1>2, <1>6, <2>1, BaseFinish DEF Compare
<1>7. CASE Finish("crashed") /\ UNCHANGED <<final, part, report>>
  <2>1. FileTypes' /\ Kept'
    BY <1>0, <1>7 DEF FileTypes, Kept, Compare
  <2> QED
    BY <1>2, <1>7, <2>1, BaseFinish DEF Compare
<1>8. CASE /\ goal = "whole" /\ part[entry.name] \notin Unreadable
           /\ final' = [final EXCEPT ![entry.name] = part[entry.name]]
           /\ part' = [part EXCEPT ![entry.name] = Absent]
           /\ Note("fetched") /\ NextEntry
           /\ UNCHANGED <<wire, reqVars, result>>
  <2>1. /\ part[entry.name] \in Bytes /\ Len(part[entry.name]) = entry.size
        /\ final[entry.name] = Absent
    BY <1>0, <1>1, <1>8 DEF Purpose, FileTypes, Files
  <2>2. BoxTypes' /\ WorkTypes' /\ FileTypes'
    BY <1>0, <1>1, <1>8, <2>1, NoteTypes
    DEF BoxTypes, WorkTypes, FileTypes, Files, Compare, NextEntry, reqVars, devVars
  <2>3. Kept'
    <3> SUFFICES ASSUME NEW n \in Names
                 PROVE  IF had[n] # Absent THEN final'[n] = had[n]
                        ELSE final'[n] # Absent =>
                               Len(final'[n]) = Len(Content[n]) /\ final'[n] \notin Unreadable
      BY DEF Kept, Compare
    <3>1. n # entry.name => final'[n] = final[n]
      BY <1>0, <1>1, <1>8 DEF FileTypes, Files
    <3>2. n = entry.name => final'[n] = part[n] /\ had[n] = Absent
      BY <1>0, <1>1, <1>8, <2>1 DEF FileTypes, Files, Kept
    <3> QED
      BY <1>0, <1>1, <1>8, <2>1, <3>1, <3>2 DEF Kept
  <2>4. Phase' /\ Purpose'
    BY <1>0, <1>8 DEF Phase, Purpose, Compare, NextEntry, reqVars
  <2> QED
    BY <1>2, <2>2, <2>3, <2>4 DEF Base, Types
<1> QED
  BY <1>4, <1>5, <1>6, <1>7, <1>8 DEF Compare

LEMMA BaseNext ==
  ASSUME Base, [Next]_vars
  PROVE  Base'
<1>1. CASE UNCHANGED vars
  BY <1>1 DEF Base, Types, BoxTypes, WorkTypes, FileTypes, Counts, Phase, Purpose, Kept, entry,
              vars, devVars, hostVars, reqVars, workVars, fileVars, spent
<1>2. CASE Host
  BY <1>2, BaseWait, BaseAnswers, BaseAsks, BaseTake, BaseData, BaseCompare DEF Host
<1> QED
  BY <1>1, <1>2, BaseStart, BaseWait, BaseKill, BaseBox DEF Next
-----------------------------------------------------------------------------
(* With nothing late: one request, or its answer *)

LEMMA Concat ==
  ASSUME NEW S, NEW a \in Seq(S), NEW b \in Seq(S)
  PROVE  /\ a \o b \in Seq(S) /\ Len(a \o b) = Len(a) + Len(b)
         /\ \A i \in 1..Len(a) : (a \o b)[i] = a[i]
         /\ \A i \in 1..Len(b) : (a \o b)[Len(a) + i] = b[i]
OBVIOUS

\* What is read and what is still on the line, as one queue.
LEMMA Joins ==
  ASSUME NEW S, NEW p \in Seq(S), NEW l \in Seq(S)
  PROVE  /\ p \o l \in Seq(S) /\ Len(p \o l) = Len(p) + Len(l)
         /\ <<>> \o l = l /\ p \o <<>> = p
         /\ p # <<>> => p \o l # <<>> /\ (p \o l)[1] = Head(p)
                        /\ Tail(p) \o l = Tail(p \o l) /\ Len(p) >= 1
         /\ p \o l = <<>> => p = <<>> /\ l = <<>>
         /\ \A k \in 1..Len(l) : SubSeq(l, 1, k) \o SubSeq(l, k + 1, Len(l)) = l
<1>1. p \o l \in Seq(S) /\ Len(p \o l) = Len(p) + Len(l) /\ Len(p) \in Nat /\ Len(l) \in Nat
  OBVIOUS
<1>2. <<>> \o l = l /\ p \o <<>> = p
  OBVIOUS
<1>3. ASSUME p # <<>>
      PROVE  p \o l # <<>> /\ (p \o l)[1] = Head(p) /\ Tail(p) \o l = Tail(p \o l) /\ Len(p) >= 1
  <2>1. Len(p) >= 1
    BY <1>3
  <2>2. (p \o l)[1] = p[1] /\ p \o l # <<>>
    BY <2>1
  <2>3. Tail(p) \in Seq(S) /\ Len(Tail(p)) = Len(p) - 1
    BY <1>3
  <2> DEFINE u == Tail(p) \o l
             v == Tail(p \o l)
  <2>4. u \in Seq(S) /\ v \in Seq(S) /\ Len(u) = Len(p) - 1 + Len(l) /\ Len(v) = Len(u)
    BY <1>1, <2>2, <2>3
  <2>5. ASSUME NEW i \in 1..Len(u) PROVE u[i] = v[i]
    <3>1. v[i] = (p \o l)[i + 1]
      BY <1>1, <2>2, <2>4
    <3>2. CASE i <= Len(p) - 1
      BY <1>3, <2>3, <3>1, <3>2
    <3>3. CASE i > Len(p) - 1
      BY <1>1, <2>3, <2>4, <3>1, <3>3
    <3> QED
      BY <1>1, <2>4, <3>2, <3>3
  <2>6. u = v
    BY <2>4, <2>5
  <2> QED
    BY <1>3, <2>1, <2>2, <2>6
<1>4. ASSUME p \o l = <<>> PROVE p = <<>> /\ l = <<>>
  <2>1. Len(p) = 0 /\ Len(l) = 0
    BY <1>1, <1>4
  <2> QED
    BY <2>1
<1>5. ASSUME NEW k \in 1..Len(l)
      PROVE  SubSeq(l, 1, k) \o SubSeq(l, k + 1, Len(l)) = l
  <2> DEFINE a == SubSeq(l, 1, k)
             b == SubSeq(l, k + 1, Len(l))
  <2>1. a \in Seq(S) /\ b \in Seq(S) /\ Len(a) = k /\ Len(b) = Len(l) - k /\ Len(l) \in Nat
    OBVIOUS
  <2>2. \A i \in 1..k : a[i] = l[i]
    OBVIOUS
  <2>3. \A i \in 1..(Len(l) - k) : b[i] = l[k + i]
    OBVIOUS
  <2> DEFINE ab == a \o b
  <2>4. /\ ab \in Seq(S) /\ Len(ab) = Len(a) + Len(b)
        /\ \A i \in 1..Len(a) : ab[i] = a[i]
        /\ \A i \in 1..Len(b) : ab[Len(a) + i] = b[i]
    BY <2>1, Concat
  <2> HIDE DEF a, b, ab
  <2>5. Len(ab) = Len(l)
    BY <2>1, <2>4
  <2>6. ASSUME NEW i \in 1..Len(l) PROVE ab[i] = l[i]
    <3>1. CASE i <= k
      BY <2>1, <2>2, <2>4, <3>1
    <3>2. CASE i > k
      <4>1. i - k \in 1..(Len(l) - k) /\ k + (i - k) = i
        BY <2>1, <3>2
      <4>2. ab[k + (i - k)] = b[i - k]
        BY <2>1, <2>4, <4>1
      <4> QED
        BY <2>3, <4>1, <4>2
    <3>3. i \in Int /\ k \in Int
      BY <2>1
    <3> QED
      BY <3>1, <3>2, <3>3
  <2>7. ab = l
    BY <2>4, <2>5, <2>6
  <2> QED
    BY <2>7 DEF a, b, ab
<1> QED
  BY <1>1, <1>2, <1>3, <1>4, <1>5

\* The frame in hand is the answer to the request under way.
LEMMA InHand ==
  ASSUME Base, Lockstep, req # None, pending # <<>>
  PROVE  /\ pc # "off" /\ wire = <<>> /\ arrived # <<>> /\ arrived \in Seq(Replies)
         /\ Taken = arrived[1] /\ Tail(pending) \o line = Tail(arrived)
         /\ pc # "list" => line = <<>> /\ Len(arrived) = 1 /\ Fits(Taken, req)
         /\ pc = "list" => /\ \A i \in 1..(Len(arrived) - 1) : arrived[i].op # "LIST_END"
                           /\ Taken.op = "LIST_END" => line = <<>> /\ Len(arrived) = 1
<1>1. pc \in DOMAIN Waits /\ pending \in Seq(Replies) /\ line \in Seq(Replies)
  BY DEF Base, Phase, Types, WorkTypes, BoxTypes
<1>2. /\ arrived # <<>> /\ Taken = arrived[1] /\ Tail(pending) \o line = Tail(arrived)
      /\ Len(pending) >= 1 /\ Len(arrived) = Len(pending) + Len(line)
      /\ arrived \in Seq(Replies)
  BY <1>1, Joins DEF arrived, Taken
<1>3. pc # "off"
  BY <1>1 DEF Waits
<1>4. /\ wire = <<>>
      /\ IF pc = "list"
            THEN \A i \in 1..(Len(arrived) - 1) : arrived[i].op # "LIST_END"
            ELSE Len(arrived) = 1 /\ Fits(arrived[1], req)
  BY <1>2, <1>3 DEF Lockstep
<1>5. Len(arrived) = 1 => line = <<>>
  BY <1>1, <1>2
<1>6. pc = "list" /\ Taken.op = "LIST_END" => Len(arrived) = 1
  <2> SUFFICES ASSUME pc = "list", Taken.op = "LIST_END", Len(arrived) # 1 PROVE FALSE
    OBVIOUS
  <2>1. 1 \in 1..(Len(arrived) - 1)
    BY <1>1, <1>2
  <2> QED
    BY <1>2, <1>4, <2>1
<1> QED
  BY <1>2, <1>3, <1>4, <1>5, <1>6

\* A step that asks r when nothing is under way, or takes the answer.
LEMMA LockAsk ==
  ASSUME Base, Lockstep, NEW r \in Requests, Ask(r), pc # "off", pc # "list",
         req = None \/ pending # <<>>, UNCHANGED line
  PROVE  Lockstep'
<1>1. wire = <<>> /\ line = <<>>
  BY InHand DEF Lockstep
<1>2. wire' = <<r>> /\ pending' = <<>> /\ line' = <<>> /\ req' = r /\ r # None
  BY <1>1, PlainRequests DEF Ask
<1>3. arrived' = <<>>
  BY <1>2 DEF arrived
<1> QED
  BY <1>2, <1>3 DEF Lockstep

\* A step of the host that awaits nothing.
LEMMA LockStill ==
  ASSUME Lockstep, pc # "off", req = None, UNCHANGED <<reqVars, wire, line>>
  PROVE  Lockstep'
BY DEF Lockstep, reqVars

LEMMA LockQuiet ==
  ASSUME Base, Lockstep, req # None, pending # <<>>, Quiet, UNCHANGED line,
         pc # "list" \/ Taken.op = "LIST_END"
  PROVE  Lockstep'
<1>1. wire = <<>> /\ line = <<>>
  BY InHand
<1> QED
  BY <1>1 DEF Quiet, Lockstep

\* What the box says fits what it was asked.
LEMMA ServedFits ==
  ASSUME Base, req \in Requests, pc \in DOMAIN Waits, req.op = Waits[pc]
  PROVE  LET a == Answers(req) IN
         /\ a \in Seq(Replies) /\ a # <<>>
         /\ IF pc = "list" THEN \A i \in 1..(Len(a) - 1) : a[i].op # "LIST_END"
            ELSE Len(a) = 1 /\ Fits(a[1], req)
<1>1. Answers(req) \in Seq(Replies)
  BY AnswersAreReplies DEF Base
<1>2. CASE req.op \notin {"CRC", "FETCH", "LIST"}
  <2>1. pc # "list" /\ req.op \in {"HELLO", "DELETE", "BYE"}
    BY <1>2 DEF Waits
  <2>2. Answers(req) # <<>> /\ Len(Answers(req)) = 1
    BY <2>1 DEF Answers, Base, Types, BoxTypes
  <2>3. \A a \in Replies : Fits(a, req)
    BY <1>2 DEF Fits
  <2>4. Answers(req)[1] \in Replies
    BY <1>1, <2>2
  <2> QED
    BY <1>1, <2>1, <2>2, <2>3, <2>4
<1>3. CASE ~ storage_ok /\ req.op \in {"CRC", "FETCH", "LIST"}
  <2>1. Answers(req) = <<Err("STORAGE_FAILED")>>
    BY <1>3 DEF Answers
  <2>2. Err("STORAGE_FAILED").op = "ERR"
    BY DEF Err, Frame
  <2>3. Fits(Err("STORAGE_FAILED"), req)
    BY <2>2 DEF Fits
  <2> HIDE DEF Err
  <2> QED
    BY <1>1, <2>1, <2>3
<1>4. CASE storage_ok /\ req.op = "LIST"
  <2>1. pc = "list"
    BY <1>4 DEF Waits
  <2>2. Answers(req) = Listing
    BY <1>4 DEF Answers
  <2> QED
    BY <1>1, <2>1, <2>2, ListingShape DEF Base
<1>5. CASE storage_ok /\ req.op = "CRC"
  <2>1. req.name \in Names /\ archive[req.name] \in {Absent, Content[req.name]} /\ pc # "list"
    BY <1>5, RequestFields DEF Base, Types, BoxTypes, Waits
  <2>2. Answers(req) = <<CrcAnswer(req)>>
    BY <1>5 DEF Answers
  <2>3. CASE archive[req.name] = Absent \/ req.off + Min({req.len, CrcMax}) > Len(archive[req.name])
    <3>1. CrcAnswer(req).op = "ERR"
      BY <2>3 DEF CrcAnswer, Err, Frame
    <3>2. Fits(CrcAnswer(req), req)
      BY <1>5, <3>1 DEF Fits
    <3> HIDE DEF CrcAnswer
    <3> QED
      BY <1>1, <2>1, <2>2, <3>2
  <2>4. CASE ~ (archive[req.name] = Absent \/ req.off + Min({req.len, CrcMax}) > Len(archive[req.name]))
    <3>1. Min({req.len, CrcMax}) \in Nat
      BY RequestFields, MinNat, DeviceAssumption
    <3>2. /\ CrcAnswer(req).data = req.data \o Part(Content[req.name], req.off, Min({req.len, CrcMax}))
          /\ req.off + Min({req.len, CrcMax}) <= Len(Content[req.name])
      <4>1. Len(Content[req.name]) \in Nat /\ req.off \in Nat
        BY <2>1, NameTypes, RequestFields DEF Bytes
      <4>2. req.off + Min({req.len, CrcMax}) <= Len(Content[req.name])
        BY <2>1, <2>4, <3>1, <4>1
      <4> DEFINE d == req.data \o Part(Content[req.name], req.off, Min({req.len, CrcMax}))
      <4>3. CrcAnswer(req) = Frame("CRC_OK", NoName, 0, 0, d)
        BY <2>1, <2>4 DEF CrcAnswer
      <4>4. CrcAnswer(req).data = d
        <5> HIDE DEF d
        <5> QED
          BY <4>3 DEF Frame
      <4> QED
        BY <4>2, <4>4
    <3>3. Fits(CrcAnswer(req), req)
      BY <1>5, <3>2 DEF Fits
    <3> HIDE DEF CrcAnswer
    <3> QED
      BY <1>1, <2>1, <2>2, <3>3
  <2> QED
    BY <2>3, <2>4
<1>6. CASE storage_ok /\ req.op = "FETCH"
  <2>1. req.name \in Names /\ archive[req.name] \in {Absent, Content[req.name]} /\ pc # "list"
    BY <1>6, RequestFields DEF Base, Types, BoxTypes, Waits
  <2>2. Answers(req) = <<FetchAnswer(req)>>
    BY <1>6 DEF Answers
  <2>3. CASE archive[req.name] = Absent \/ req.off > Len(archive[req.name])
    <3>1. FetchAnswer(req).op = "ERR"
      BY <2>3 DEF FetchAnswer, Err, Frame
    <3>2. Fits(FetchAnswer(req), req)
      BY <1>6, <3>1 DEF Fits
    <3> HIDE DEF FetchAnswer
    <3> QED
      BY <1>1, <2>1, <2>2, <3>2
  <2>4. CASE ~ (archive[req.name] = Absent \/ req.off > Len(archive[req.name]))
    <3>2. /\ FetchAnswer(req).data = Part(Content[req.name], req.off, Min({req.len, FetchMax}))
          /\ req.off <= Len(Content[req.name])
      <4>1. Len(Content[req.name]) \in Nat /\ req.off \in Nat
        BY <2>1, NameTypes, RequestFields DEF Bytes
      <4> QED
        BY <2>1, <2>4, <4>1 DEF FetchAnswer, Frame
    <3>3. Fits(FetchAnswer(req), req)
      BY <1>6, <3>2 DEF Fits
    <3> HIDE DEF FetchAnswer
    <3> QED
      BY <1>1, <2>1, <2>2, <3>3
  <2> QED
    BY <2>3, <2>4
<1> QED
  BY <1>2, <1>3, <1>4, <1>5, <1>6 DEF Base, Types, BoxTypes

LEMMA LockStart ==
  ASSUME Base, StartSync \/ StartRm
  PROVE  Lockstep'
<1>1. wire = <<>> /\ pc' = "hello" /\ pending' = <<>> /\ line' = <<>> /\ req' = Plain("HELLO")
      /\ wire' = wire \o <<Wake, Plain("HELLO")>>
  BY DEF StartSync, StartRm, Start
<1>2. Plain("HELLO") # None
  BY PlainRequests
<1>3. wire' = <<Wake, req'>>
  BY <1>1
<1> QED
  BY <1>1, <1>2, <1>3 DEF Lockstep, arrived

LEMMA LockRead ==
  ASSUME Base, Lockstep, Read
  PROVE  Lockstep' /\ arrived' = arrived
<1>1. PICK k \in 1..Len(line) :
        pending' = SubSeq(line, 1, k) /\ line' = SubSeq(line, k + 1, Len(line))
  BY DEF Read
<1>2. line \in Seq(Replies) /\ pending = <<>>
  BY DEF Base, Types, BoxTypes, Read
<1>3. pending' \o line' = line /\ pending \o line = line
  BY <1>1, <1>2, Joins, Queues
<1>4. arrived' = arrived
  BY <1>3 DEF arrived
<1> QED
  BY <1>4 DEF Lockstep, Read, Fits

\* The requests of the host, resent only when nothing is on its way.
LEMMA LockHost ==
  ASSUME Base, Lockstep, Host
  PROVE  Lockstep'
<1>0. /\ Phase /\ pending \in Seq(Replies) /\ line \in Seq(Replies)
      /\ "HELLO" # "off" /\ \A op \in {"BYE", "LIST"} : Plain(op) \in Requests
  BY PlainRequests DEF Base, Types, WorkTypes, BoxTypes
<1>1. CASE Read
  BY <1>1, LockRead
<1>2. CASE pc' = "off"
  BY <1>2 DEF Lockstep
<1>3. CASE NoAnswer /\ wire' = Append(wire, req) /\ UNCHANGED <<pc, req, pending>>
  <2>1. wire = <<>> /\ line = <<>> /\ pending = <<>> /\ line' = <<>> /\ req # None
    BY <1>3 DEF NoAnswer, Silence, TimeOut
  <2>2. wire' = <<req>> /\ req' = req /\ pending' = <<>>
    BY <1>3, <2>1
  <2>3. arrived' = <<>>
    BY <2>1, <2>2 DEF arrived
  <2> QED
    BY <2>1, <2>2, <2>3 DEF Lockstep
<1>4. CASE OnHello
  <2>1. PICK r : Ask(r) /\ r \in {Plain("BYE"), Plain("LIST"), req'}
    BY <1>4 DEF OnHello, Ask
  <2>2. pc = "hello" /\ req # None /\ pending # <<>> /\ UNCHANGED line
    BY <1>4, AnsweredWhere DEF OnHello
  <2>3. req' \in Requests
    <3>1. Base'
      BY <1>4, BaseAnswers
    <3>2. pc' \in {"bye", "list", "delete"}
      BY <1>4 DEF OnHello
    <3> QED
      BY <3>1, <3>2 DEF Base, Phase
  <2>4. req' = r
    BY <2>1 DEF Ask
  <2> QED
    BY <2>1, <2>2, <2>3, <2>4, LockAsk
<1>5. CASE OnItem
  <2>1. /\ pc = "list" /\ req # None /\ pending # <<>> /\ pending' = Tail(pending)
        /\ UNCHANGED <<wire, line, pc, req>>
    BY <1>5, AnsweredWhere DEF OnItem
  <2>2. /\ wire = <<>> /\ arrived' = Tail(arrived) /\ arrived \in Seq(Replies) /\ arrived # <<>>
        /\ \A i \in 1..(Len(arrived) - 1) : arrived[i].op # "LIST_END"
    BY <2>1, InHand DEF arrived
  <2>3. /\ Tail(arrived) \in Seq(Replies) /\ Len(Tail(arrived)) = Len(arrived) - 1
        /\ Len(arrived) \in Nat
        /\ \A i \in 1..Len(Tail(arrived)) : Tail(arrived)[i] = arrived[i + 1]
    BY <2>2
  <2>4. \A i \in 1..(Len(arrived') - 1) : arrived'[i].op # "LIST_END"
    <3> SUFFICES ASSUME NEW i \in 1..(Len(Tail(arrived)) - 1)
                 PROVE  Tail(arrived)[i].op # "LIST_END"
      BY <2>2
    <3>1. i + 1 \in 1..(Len(arrived) - 1) /\ i \in 1..Len(Tail(arrived))
      BY <2>3
    <3> QED
      BY <2>2, <2>3, <3>1
  <2> QED
    BY <2>1, <2>2, <2>4 DEF Lockstep
<1>6. CASE OnListEnd /\ Quiet
  <2>1. req # None /\ pending # <<>> /\ Taken.op = "LIST_END" /\ UNCHANGED line
    BY <1>6, AnsweredWhere DEF OnListEnd
  <2> QED
    BY <1>6, <2>1, LockQuiet
<1>7. CASE TakeEntry \/ (Landed /\ UNCHANGED <<wire, reqVars>>)
  <2>1. pc # "off" /\ req = None /\ UNCHANGED <<reqVars, wire, line>>
    BY <1>7 DEF TakeEntry, Landed
  <2> QED
    BY <2>1, LockStill
<1>8. CASE Compare /\ UNCHANGED <<wire, reqVars>>
  <2>1. pc # "off" /\ req = None /\ UNCHANGED <<reqVars, wire, line>>
    BY <1>8 DEF Compare
  <2> QED
    BY <2>1, LockStill
<1>9. CASE AskCrc \/ AskData \/ SayBye
  <2>1. PICK r : Ask(r)
    BY <1>9 DEF AskCrc, AskData, SayBye
  <2>2. Base' /\ req' = r /\ pc' \in DOMAIN Waits /\ pc \notin {"off", "list"} /\ UNCHANGED line
    BY <1>0, <1>9, <2>1, BaseAsks, BaseAnswers, AnsweredWhere
    DEF AskCrc, AskData, SayBye, Ask, Waits
  <2>3. req = None \/ pending # <<>>
    BY <1>9, AnsweredWhere DEF AskCrc, AskData, SayBye
  <2>4. r \in Requests
    <3>1. r # None
      BY <1>9, <2>2 DEF AskCrc, AskData, SayBye, Ask, None, Plain, Frame
    <3> QED
      BY <2>2, <3>1 DEF Base, Phase
  <2> QED
    BY <2>1, <2>2, <2>3, <2>4, LockAsk
<1>10. CASE (OnCrc \/ OnData) /\ Quiet
  <2>1. req # None /\ pending # <<>> /\ pc # "list" /\ UNCHANGED line
    BY <1>10, AnsweredWhere DEF OnCrc, OnData
  <2> QED
    BY <1>10, <2>1, LockQuiet
<1>11. OnError \/ OnBye => pc' = "off"
  BY DEF OnError, OnBye, Finish
<1>12. NoAnswer => pc' = "off" \/ (wire' = Append(wire, req) /\ UNCHANGED <<pc, req, pending>>)
  <2> SUFFICES ASSUME NoAnswer, pc' # "off"
               PROVE  wire' = Append(wire, req) /\ UNCHANGED <<pc, req, pending>>
    OBVIOUS
  <2>1. TimeOut /\ ~ Finish("failed")
    BY DEF NoAnswer, Finish
  <2> QED
    BY <2>1 DEF TimeOut
<1>13. /\ OnListEnd => pc' = "off" \/ Quiet
       /\ OnCrc => Quiet
       /\ OnData => pc' = "off" \/ Quiet
       /\ Landed => pc' = "off" \/ UNCHANGED <<wire, reqVars>>
       /\ Compare => pc' = "off" \/ UNCHANGED <<wire, reqVars>>
  BY DEF OnListEnd, OnCrc, OnData, Landed, Compare, Finish
<1>14. OnError \/ OnBye \/ NoAnswer \/ OnListEnd => Lockstep'
  BY <1>2, <1>3, <1>6, <1>11, <1>12, <1>13
<1>15. OnCrc \/ OnData \/ Landed \/ Compare => Lockstep'
  BY <1>2, <1>7, <1>8, <1>10, <1>13
<1>16. TakeEntry => Lockstep'
  BY <1>7
<1> QED
  BY <1>1, <1>4, <1>5, <1>9, <1>14, <1>15, <1>16 DEF Host

\* The box answers the one request, or nothing gets through.
LEMMA LockBox ==
  ASSUME Base, Lockstep, Device \/ SessionEnds \/ CardFixed \/ LoseFrame \/ LoseRequest
  PROVE  Lockstep'
<1>0. /\ pending \in Seq(Replies) /\ line \in Seq(Replies) /\ wire \in Seq(Requests) /\ Phase
      /\ UNCHANGED <<pc, req, pending>>
  BY DEF Base, Types, WorkTypes, BoxTypes, Device, SessionEnds, CardFixed, LoseFrame, LoseRequest, hostVars, reqVars
<1>1. SUFFICES ASSUME pc # "off" PROVE Lockstep'
  BY <1>0 DEF Lockstep
<1>2. CASE UNCHANGED <<wire, line>>
  BY <1>0, <1>2 DEF Lockstep, Fits, arrived
<1>3. CASE wire # <<>> /\ wire' = Tail(wire) /\ (UNCHANGED line \/ (Head(wire) = Wake /\ line' = line \o <<>>))
  <2>1. line' = line /\ arrived' = arrived
    BY <1>0, <1>3 DEF arrived
  <2>2. wire' = <<>> \/ (wire = <<Wake, req>> /\ wire' = <<req>>)
    <3>1. Tail(<<req>>) = <<>> /\ Tail(<<Wake, req>>) = <<req>>
      OBVIOUS
    <3>2. wire = <<req>> \/ wire = <<Wake, req>>
      BY <1>1, <1>3 DEF Lockstep
    <3> QED
      BY <1>3, <3>1, <3>2
  <2>3. req # None /\ arrived = <<>>
    BY <1>1, <1>3 DEF Lockstep
  <2> QED
    BY <1>0, <2>1, <2>2, <2>3 DEF Lockstep
<1>4. CASE Serve /\ Head(wire) # Wake
  <2>1. wire # <<>> /\ line' = line \o Answers(Head(wire)) /\ wire' = Tail(wire)
    BY <1>4 DEF Serve
  <2>2. req # None /\ arrived = <<>> /\ wire = <<req>>
    BY <1>1, <1>4, <2>1 DEF Lockstep
  <2>3. Head(wire) = req /\ wire' = <<>>
    BY <2>1, <2>2
  <2>4. req \in Requests /\ pc \in DOMAIN Waits /\ req.op = Waits[pc]
    BY <1>0, <2>2 DEF Phase
  <2>5. pending = <<>> /\ line = <<>>
    BY <1>0, <2>2, Joins DEF arrived
  <2>6. /\ Answers(req) \in Seq(Replies) /\ Answers(req) # <<>>
        /\ IF pc = "list" THEN \A i \in 1..(Len(Answers(req)) - 1) : Answers(req)[i].op # "LIST_END"
           ELSE Len(Answers(req)) = 1 /\ Fits(Answers(req)[1], req)
    BY <2>4, ServedFits
  <2> DEFINE a == Answers(req)
  <2>7. arrived' = a
    BY <1>0, <2>1, <2>3, <2>5, <2>6, Joins DEF arrived
  <2> HIDE DEF a
  <2> QED
    BY <1>0, <2>2, <2>3, <2>6, <2>7 DEF Lockstep, Fits, a
<1>5. CASE line # <<>> /\ line' = Tail(line) /\ UNCHANGED wire
  <2>1. /\ Tail(line) \in Seq(Replies) /\ Len(line) \in Nat /\ Len(line) > 0 /\ Len(Tail(line)) = Len(line) - 1
        /\ \A i \in 1..Len(Tail(line)) : Tail(line)[i] = line[i + 1]
    BY <1>0, <1>5
  <2>2. /\ arrived \in Seq(Replies) /\ Len(arrived) = Len(pending) + Len(line)
        /\ \A i \in 1..Len(pending) : arrived[i] = pending[i]
        /\ \A i \in 1..Len(line) : arrived[Len(pending) + i] = line[i]
    BY <1>0, Concat DEF arrived
  <2>3. /\ arrived' \in Seq(Replies) /\ Len(arrived') = Len(pending) + Len(line) - 1
        /\ \A i \in 1..Len(pending) : arrived'[i] = pending[i]
        /\ \A i \in 1..(Len(line) - 1) : arrived'[Len(pending) + i] = line[i + 1]
    <3>1. arrived' = pending \o Tail(line)
      BY <1>0, <1>5 DEF arrived
    <3> QED
      BY <1>0, <2>1, <3>1, Concat
  <2>4. Len(pending) \in Nat /\ arrived # <<>>
    BY <1>0, <2>1, <2>2
  <2>5. /\ req # None /\ wire = <<>>
        /\ IF pc = "list" THEN \A i \in 1..(Len(arrived) - 1) : arrived[i].op # "LIST_END"
           ELSE Len(arrived) = 1 /\ Fits(arrived[1], req)
    BY <1>1, <1>5, <2>4 DEF Lockstep
  <2>6. CASE pc # "list"
    <3>1. Len(arrived') = 0
      BY <2>1, <2>2, <2>3, <2>4, <2>5, <2>6
    <3>2. arrived' = <<>>
      BY <2>3, <3>1
    <3> QED
      BY <1>0, <1>5, <2>5, <3>2 DEF Lockstep
  <2>7. CASE pc = "list"
    <3>1. ASSUME NEW i \in 1..(Len(arrived') - 1) PROVE arrived'[i].op # "LIST_END"
      <4>1. CASE i <= Len(pending)
        <5>1. i \in 1..Len(pending) /\ i \in 1..(Len(arrived) - 1)
          BY <2>1, <2>2, <2>3, <2>4, <4>1
        <5> QED
          BY <2>2, <2>3, <2>5, <2>7, <5>1
      <4>2. CASE i > Len(pending)
        <5>1. PICK k \in 1..(Len(line) - 1) : i = Len(pending) + k
          <6>1. i - Len(pending) \in 1..(Len(line) - 1)
            BY <2>1, <2>3, <2>4, <4>2
          <6> QED
            BY <2>4, <6>1
        <5>2. arrived'[i] = line[k + 1] /\ k + 1 \in 1..Len(line) /\ i + 1 = Len(pending) + (k + 1)
          BY <2>1, <2>3, <2>4, <5>1
        <5>3. arrived[i + 1] = line[k + 1] /\ i + 1 \in 1..(Len(arrived) - 1)
          BY <2>1, <2>2, <2>3, <2>4, <5>1, <5>2
        <5> QED
          BY <2>5, <2>7, <5>2, <5>3
      <4> QED
        BY <2>3, <2>4, <4>1, <4>2
    <3> QED
      BY <1>0, <1>5, <2>5, <2>7, <3>1 DEF Lockstep
  <2> QED
    BY <2>6, <2>7
<1>6. /\ Device => UNCHANGED <<wire, line>> \/ Serve \/ Console
      /\ SessionEnds \/ CardFixed => UNCHANGED <<wire, line>>
  BY DEF Device, Leave, IdleExit, SessionEnds, CloseSession, CardFixed
<1>7. Serve /\ Head(wire) = Wake => wire # <<>> /\ wire' = Tail(wire) /\ line' = line \o <<>>
  BY PlainRequests DEF Serve, Answers
<1>8. Console => wire # <<>> /\ wire' = Tail(wire) /\ UNCHANGED line
  BY DEF Console
<1>9. CASE LoseRequest
  <2> DEFINE failed == Err("STORAGE_FAILED")
  <2>1. wire # <<>> /\ line' = Append(line, failed) /\ wire' = Tail(wire) /\ Head(wire) # Wake
    BY <1>9, PlainRequests DEF LoseRequest, CardFails
  <2>2. req # None /\ arrived = <<>> /\ wire = <<req>>
    BY <1>1, <2>1 DEF Lockstep
  <2>3. pending = <<>> /\ line = <<>>
    BY <1>0, <2>2, Joins DEF arrived
  <2>4. failed.op = "ERR"
    BY DEF Err, Frame
  <2> HIDE DEF failed
  <2>5. arrived' = <<failed>> /\ wire' = <<>>
    BY <1>0, <2>1, <2>2, <2>3 DEF arrived
  <2>6. Len(arrived') = 1 /\ arrived'[1] = failed /\ arrived' # <<>> /\ Fits(failed, req)
    BY <2>4, <2>5 DEF Fits
  <2> QED
    BY <1>0, <2>2, <2>5, <2>6 DEF Lockstep
<1> QED
  BY <1>2, <1>3, <1>4, <1>5, <1>6, <1>7, <1>8, <1>9 DEF LoseFrame
-----------------------------------------------------------------------------
(* With nothing late: the checksum and the .part are the device's *)

LEMMA WholeOrNone ==
  ASSUME NEW c \in Bytes
  PROVE  SubSeq(c, 1, 0) = <<>> /\ SubSeq(c, 1, Len(c)) = c /\ Len(c) \in Nat
BY DEF Bytes

\* The entry in hand.
LEMMA EntryInHand ==
  ASSUME Base, pc \in {"crc", "fetch"} \/ todo # <<>>
  PROVE  /\ todo # <<>> /\ entry.name \in Names /\ entry.size = Len(Content[entry.name])
         /\ entry.size \in Nat /\ Content[entry.name] \in Bytes /\ Content[entry.name] # Absent
         /\ offset \in Nat /\ crc \in Bytes
         /\ final[entry.name] # Absent => final[entry.name] \in Bytes
         /\ part[entry.name] # Absent => part[entry.name] \in Bytes
<1>1. todo # <<>>
  BY DEF Base, Phase
<1>2. entry.name \in Names /\ entry.size = Len(Content[entry.name]) /\ entry.size \in Nat
  BY <1>1, Hands
<1> QED
  BY <1>1, <1>2, NameTypes DEF Base, Types, WorkTypes, FileTypes, Files

LEMMA ProgressKeeps ==
  ASSUME Progress, UNCHANGED <<pc, req, todo, goal, offset, crc, part, final>>
  PROVE  Progress'
BY DEF Progress, Summed, entry

LEMMA ProgressElse ==
  ASSUME pc' \notin {"crc", "fetch"}
  PROVE  Progress'
BY DEF Progress

LEMMA ProgressFetch ==
  ASSUME NEW k \in Nat, pc' = "fetch", req' = None, entry' = entry, offset' = k,
         k <= Len(Content[entry.name]), part'[entry.name] = SubSeq(Content[entry.name], 1, k)
  PROVE  Progress'
BY DEF Progress

LEMMA ProgressTake ==
  ASSUME Base, TakeEntry
  PROVE  Progress'
<1>1. todo # <<>> /\ req' = None
  BY DEF TakeEntry, reqVars
<1>2. /\ entry.name \in Names /\ entry.size \in Nat /\ entry.size = Len(Content[entry.name])
      /\ Content[entry.name] \in Bytes
      /\ final[entry.name] # Absent => final[entry.name] \in Bytes
      /\ part[entry.name] # Absent => part[entry.name] \in Bytes
  BY <1>1, EntryInHand
<1>3. SubSeq(Content[entry.name], 1, 0) = <<>>
  BY <1>2, WholeOrNone
<1>4. CASE pc' = "entry"
  BY <1>4, ProgressElse
<1>5. CASE final[entry.name] # Absent /\ Sum("same") /\ UNCHANGED <<part, todo, final>>
  <2>1. Len(final[entry.name]) \in Nat
    BY <1>2, <1>5 DEF Bytes
  <2>2. pc' = "crc" /\ goal' = "same" /\ crc' = <<>> /\ offset' = 0 /\ entry' = entry
    BY <1>5 DEF Sum, entry
  <2> QED
    BY <1>1, <1>3, <1>5, <2>1, <2>2 DEF Progress, Summed
<1>6. CASE part[entry.name] # Absent /\ Sum("resume") /\ UNCHANGED <<part, todo, final>>
  <2>1. Len(part[entry.name]) \in Nat
    BY <1>2, <1>6 DEF Bytes
  <2>2. pc' = "crc" /\ goal' = "resume" /\ crc' = <<>> /\ offset' = 0 /\ entry' = entry
    BY <1>6 DEF Sum, entry
  <2> QED
    BY <1>1, <1>3, <1>6, <2>1, <2>2 DEF Progress, Summed
<1>7. CASE part' = [part EXCEPT ![entry.name] = <<>>] /\ Fetch(0) /\ UNCHANGED todo
  <2>1. part'[entry.name] = <<>>
    BY <1>2, <1>7 DEF Base, Types, FileTypes, Files
  <2>2. pc' = "fetch" /\ offset' = 0 /\ entry' = entry
    BY <1>7 DEF Fetch, entry
  <2>3. Len(Content[entry.name]) \in Nat
    BY <1>2
  <2> QED
    BY <1>1, <1>3, <2>1, <2>2, <2>3, ProgressFetch
<1>8. TakeEntry => UNCHANGED final
  BY DEF TakeEntry
<1>9. NextEntry => pc' = "entry"
  BY DEF NextEntry
<1> QED
  BY <1>4, <1>5, <1>6, <1>7, <1>8, <1>9 DEF TakeEntry, Usable

\* The checksum goes on where it was.
LEMMA ProgressCrc ==
  ASSUME Base, Lockstep, Progress, OnCrc
  PROVE  Progress'
<1> DEFINE n == entry.name
           c == Content[n]
           rest == Len(Summed(goal)) - offset
           span == Min({CrcMax, rest})
<1>1. pc = "crc" /\ req # None /\ pending # <<>> /\ Taken.op = "CRC_OK"
  BY AnsweredWhere DEF OnCrc
<1>2. /\ todo # <<>> /\ n \in Names /\ c \in Bytes /\ offset \in Nat /\ crc \in Bytes
      /\ entry.size = Len(c) /\ entry.size \in Nat
  BY <1>1, EntryInHand
<1>3. /\ crc = SubSeq(c, 1, offset) /\ offset < Len(Summed(goal))
      /\ req = Frame("CRC", n, offset, span, crc)
      /\ goal = "whole" => part[n] = c
  BY <1>1 DEF Progress
<1>4. Fits(Taken, req)
  BY <1>1, InHand
<1>5. Len(Summed(goal)) \in Nat /\ rest \in Nat /\ rest > 0
  <2>1. Len(Summed(goal)) \in Nat
    BY <1>1, <1>2, EntryInHand DEF Base, Purpose, Summed, Bytes
  <2> QED
    BY <1>2, <1>3, <2>1
<1>6. span \in Nat /\ span <= CrcMax /\ span <= rest
  BY <1>5, MinNat, DeviceAssumption
<1> HIDE DEF span, rest
<1>7. Min({span, CrcMax}) = span
  BY <1>6, MinPair, DeviceAssumption
<1>8. req.op = "CRC" /\ req.name = n /\ req.off = offset /\ req.len = span /\ req.data = crc
  BY <1>3 DEF Frame
<1>9. offset + span <= Len(c) /\ Taken.data = crc \o Part(c, offset, span)
  BY <1>1, <1>4, <1>7, <1>8 DEF Fits
<1>10. Taken.data = SubSeq(c, 1, offset + span)
  <2>1. c \in Bytes /\ offset \in Nat /\ span \in Nat /\ offset + span <= Len(c)
    BY <1>2, <1>6, <1>9
  <2> HIDE DEF c
  <2>2. SubSeq(c, 1, offset) \o Part(c, offset, span) = SubSeq(c, 1, offset + span)
    BY <2>1, PartChains
  <2> QED
    BY <1>3, <1>9, <2>2
<1>11. /\ pc' = pc /\ req' = None /\ entry' = entry /\ goal' = goal /\ part' = part /\ final' = final
       /\ crc' = SubSeq(c, 1, offset + span) /\ offset' = offset + span
  BY <1>8, <1>10 DEF OnCrc, Quiet, fileVars, entry
<1>12. offset + span <= Len(Summed(goal))
  BY <1>2, <1>5, <1>6 DEF rest
<1> QED
  BY <1>1, <1>3, <1>11, <1>12 DEF Progress, Summed

\* What lands in the .part is the next piece of the file.
LEMMA ProgressData ==
  ASSUME Base, Lockstep, Progress, OnData
  PROVE  Progress'
<1> DEFINE n == entry.name
           c == Content[n]
           rest == entry.size - offset
           span == Min({FetchMax, rest})
<1>0. CASE pc' = "off"
  BY <1>0, ProgressElse
<1>1. pc = "fetch" /\ req # None /\ pending # <<>> /\ Taken.op = "DATA"
  BY AnsweredWhere DEF OnData
<1>2. /\ todo # <<>> /\ n \in Names /\ c \in Bytes /\ offset \in Nat
      /\ entry.size = Len(c) /\ entry.size \in Nat
  BY <1>1, EntryInHand
<1>3. /\ part[n] = SubSeq(c, 1, offset) /\ offset < Len(c)
      /\ req = Frame("FETCH", n, offset, span, <<>>)
  BY <1>1 DEF Progress
<1>4. Fits(Taken, req)
  BY <1>1, InHand
<1>5. rest \in Nat /\ rest > 0
  BY <1>2, <1>3
<1>6. span \in Nat /\ span <= FetchMax /\ span <= rest
  BY <1>5, MinNat, DeviceAssumption
<1> HIDE DEF span, rest
<1>7. Min({span, FetchMax}) = span
  BY <1>6, MinPair, DeviceAssumption
<1>8. req.op = "FETCH" /\ req.name = n /\ req.off = offset /\ req.len = span
  BY <1>3 DEF Frame
<1>9. Taken.data = Part(c, offset, span)
  BY <1>1, <1>4, <1>7, <1>8 DEF Fits
<1>10. offset + span <= Len(c)
  BY <1>2, <1>5, <1>6 DEF rest
<1>11. /\ part[n] \o Taken.data = SubSeq(c, 1, offset + span)
       /\ Len(Taken.data) = span
  <2>1. c \in Bytes /\ offset \in Nat /\ span \in Nat /\ offset + span <= Len(c)
    BY <1>2, <1>6, <1>10
  <2> HIDE DEF c
  <2>2. SubSeq(c, 1, offset) \o Part(c, offset, span) = SubSeq(c, 1, offset + span)
    BY <2>1, PartChains
  <2>3. Len(Part(c, offset, span)) = span
    BY <2>1, PartChains
  <2> QED
    BY <1>3, <1>9, <2>2, <2>3
<1>12. CASE /\ part' = [part EXCEPT ![entry.name] = @ \o Taken.data]
            /\ offset' = offset + Len(Taken.data)
            /\ Quiet /\ UNCHANGED <<pc, todo, goal, crc, result>>
  <2>1. part'[n] = SubSeq(c, 1, offset + span)
    BY <1>2, <1>11, <1>12 DEF Base, Types, FileTypes, Files
  <2>2. pc' = "fetch" /\ req' = None /\ entry' = entry /\ offset' = offset + span
    BY <1>1, <1>11, <1>12 DEF Quiet, entry
  <2> QED
    BY <1>10, <2>1, <2>2 DEF Progress
<1>13. Finish("failed") => pc' = "off"
  BY DEF Finish
<1> QED
  BY <1>0, <1>12, <1>13 DEF OnData

LEMMA ProgressHost ==
  ASSUME Base, Lockstep, Progress, Host
  PROVE  Progress'
<1>1. CASE pc' \notin {"crc", "fetch"}
  BY <1>1, ProgressElse
<1>2. CASE Read \/ (NoAnswer /\ UNCHANGED <<pc, req, pending, workVars, result>>)
  <2>1. UNCHANGED <<pc, req, todo, goal, offset, crc, part, final>>
    BY <1>2 DEF Read, NoAnswer, TimeOut, workVars, fileVars
  <2> QED
    BY <2>1, ProgressKeeps
<1>3. CASE TakeEntry \/ OnCrc \/ OnData
  BY <1>3, ProgressTake, ProgressCrc, ProgressData
<1>4. CASE AskCrc
  <2>1. /\ pc = "crc" /\ offset < Len(Summed(goal)) /\ req = None
        /\ req' = Frame("CRC", entry.name, offset, Min({CrcMax, Len(Summed(goal)) - offset}), crc)
        /\ UNCHANGED <<pc, todo, goal, offset, crc, part, final>>
    BY <1>4 DEF AskCrc, Ask, workVars, fileVars
  <2> QED
    BY <2>1 DEF Progress, Summed, entry
<1>5. CASE AskData
  <2>0. /\ pc = "fetch" /\ offset < entry.size /\ req = None
        /\ req' = Frame("FETCH", entry.name, offset, Min({FetchMax, entry.size - offset}), <<>>)
        /\ UNCHANGED <<pc, todo, goal, offset, crc, part, final>>
    BY <1>5 DEF AskData, Ask, workVars, fileVars
  <2>1. entry.size = Len(Content[entry.name])
    BY <2>0, EntryInHand
  <2> QED
    BY <2>0, <2>1 DEF Progress, entry
<1>6. CASE Compare /\ goal = "resume"
  <2>1. pc = "crc" /\ offset = Len(Summed(goal)) /\ req' = None /\ UNCHANGED todo
    BY <1>6 DEF Compare, reqVars
  <2>2. /\ part[entry.name] # Absent /\ Len(part[entry.name]) <= entry.size
        /\ entry.size = Len(Content[entry.name])
        /\ Content[entry.name] \in Bytes /\ entry.name \in Names
        /\ crc = SubSeq(Content[entry.name], 1, offset)
    BY <1>6, <2>1, EntryInHand DEF Base, Purpose, Progress
  <2>3. CASE Agree(goal) /\ Fetch(Len(part[entry.name])) /\ UNCHANGED part
    BY <1>6, <2>1, <2>2, <2>3 DEF Progress, Fetch, Agree, Summed, entry
  <2>4. CASE Fetch(0) /\ part' = [part EXCEPT ![entry.name] = <<>>]
    <3>1. part'[entry.name] = <<>>
      BY <2>2, <2>4 DEF Base, Types, FileTypes, Files
    <3>2. SubSeq(Content[entry.name], 1, 0) = <<>> /\ 0 <= Len(Content[entry.name])
      BY <2>2, WholeOrNone
    <3> QED
      BY <2>1, <2>4, <3>1, <3>2 DEF Progress, Fetch, entry
  <2> QED
    BY <1>6, <2>3, <2>4 DEF Compare
<1>7. CASE Landed /\ pc' # "off"
  <2>1. /\ pc = "fetch" /\ offset >= entry.size /\ req' = None /\ Sum("whole")
        /\ Len(part[entry.name]) = entry.size
        /\ UNCHANGED <<todo, part>>
    BY <1>7 DEF Landed, Finish, reqVars, fileVars
  <2>2. /\ entry.size = Len(Content[entry.name]) /\ Content[entry.name] \in Bytes
        /\ offset \in Nat
        /\ part[entry.name] = SubSeq(Content[entry.name], 1, offset)
        /\ offset <= Len(Content[entry.name])
    BY <2>1, EntryInHand DEF Progress
  <2>3. /\ part[entry.name] = Content[entry.name]
        /\ SubSeq(Content[entry.name], 1, 0) = <<>> /\ Len(Content[entry.name]) \in Nat
    <3>1. offset = Len(Content[entry.name])
      BY <2>1, <2>2, WholeOrNone
    <3> QED
      BY <2>2, <3>1, WholeOrNone
  <2> QED
    BY <2>1, <2>3 DEF Progress, Sum, Summed, entry
<1>8. /\ OnError \/ OnHello \/ OnListEnd \/ SayBye \/ OnBye => pc' \notin {"crc", "fetch"}
      /\ Compare => pc' \notin {"crc", "fetch"} \/ goal = "resume"
  BY DEF OnError, OnHello, OnListEnd, SayBye, OnBye, Compare, Finish, NextEntry
<1>9. OnItem => pc' \notin {"crc", "fetch"}
  BY AnsweredWhere DEF OnItem
<1>10. NoAnswer => pc' \notin {"crc", "fetch"} \/ UNCHANGED <<pc, req, pending, workVars, result>>
  <2> SUFFICES ASSUME NoAnswer, pc' # "off"
               PROVE  UNCHANGED <<pc, req, pending, workVars, result>>
    OBVIOUS
  <2>1. TimeOut /\ ~ Finish("failed")
    BY DEF NoAnswer, Finish
  <2> QED
    BY <2>1 DEF TimeOut
<1>11. Read \/ NoAnswer => Progress'
  BY <1>1, <1>2, <1>10
<1>12. Compare \/ Landed => Progress'
  BY <1>1, <1>6, <1>7, <1>8
<1> QED
  BY <1>1, <1>3, <1>4, <1>5, <1>8, <1>9, <1>11, <1>12 DEF Host
-----------------------------------------------------------------------------
(* With nothing late: the files and the report *)

LEMMA VerdictsKeep ==
  ASSUME Verdicts, UNCHANGED <<final, had>>, report' = report \/ report' = Clean
  PROVE  Verdicts'
BY DEF Verdicts, Clean

\* A name is noted, the files stay as they are.
LEMMA VerdictsNote ==
  ASSUME Base, Verdicts, UNCHANGED <<final, had>>, todo # <<>>,
         NEW what \in {"skipped", "conflicts"}, Note(what),
         what = "skipped" => final[entry.name] = Content[entry.name],
         what = "conflicts" => final[entry.name] # Absent /\ final[entry.name] # Content[entry.name]
  PROVE  Verdicts'
<1>1. report' = [report EXCEPT ![what] = @ \cup {entry.name}]
  BY DEF Note
<1>2. report \in [skipped : SUBSET Names, conflicts : SUBSET Names, fetched : SUBSET Names]
  BY DEF Base, Types, FileTypes
<1>3. what = "skipped" => /\ report'.skipped = report.skipped \cup {entry.name}
                          /\ report'.conflicts = report.conflicts
  BY <1>1, <1>2
<1>4. what = "conflicts" => /\ report'.conflicts = report.conflicts \cup {entry.name}
                            /\ report'.skipped = report.skipped
  BY <1>1, <1>2
<1> QED
  BY <1>3, <1>4 DEF Verdicts

LEMMA VerdictsTake ==
  ASSUME Base, Verdicts, TakeEntry
  PROVE  Verdicts'
<1>1. todo # <<>> /\ UNCHANGED <<final, had>> /\ entry.size = Len(Content[entry.name])
  BY EntryInHand DEF TakeEntry
<1>2. CASE UNCHANGED report
  BY <1>1, <1>2, VerdictsKeep
<1>3. CASE final[entry.name] # Absent /\ Len(final[entry.name]) # entry.size /\ Note("conflicts")
  <2>1. final[entry.name] # Content[entry.name]
    BY <1>1, <1>3
  <2> QED
    BY <1>1, <1>3, <2>1, VerdictsNote
<1> QED
  BY <1>2, <1>3 DEF TakeEntry

LEMMA VerdictsCompare ==
  ASSUME Base, Progress, Verdicts, Compare
  PROVE  Verdicts'
<1> DEFINE n == entry.name
           c == Content[n]
<1>1. /\ pc = "crc" /\ todo # <<>> /\ offset = Len(Summed(goal)) /\ had' = had
      /\ n \in Names /\ entry.size = Len(c) /\ c \in Bytes /\ c # Absent
      /\ crc = SubSeq(c, 1, offset)
      /\ goal = "whole" => part[n] = c
  BY EntryInHand DEF Compare, Progress
<1>2. CASE UNCHANGED <<final, report>>
  BY <1>1, <1>2, VerdictsKeep
<1>3. CASE goal = "same" /\ UNCHANGED final /\ Note(IF Agree(goal) THEN "skipped" ELSE "conflicts")
  <2>1. final[n] # Absent /\ offset = Len(c)
    BY <1>1, <1>3 DEF Base, Purpose, Summed
  <2>2. crc = c
    BY <1>1, <2>1, WholeOrNone
  <2>3. Agree(goal) <=> final[n] = c
    BY <1>3, <2>2 DEF Agree, Summed
  <2>4. CASE final[n] = c
    BY <1>1, <1>3, <2>3, <2>4, VerdictsNote
  <2>5. CASE final[n] # c
    BY <1>1, <1>3, <2>1, <2>3, <2>5, VerdictsNote
  <2> QED
    BY <2>4, <2>5
<1>4. CASE /\ goal = "whole" /\ final' = [final EXCEPT ![n] = part[n]]
           /\ Note("fetched")
  <2>1. final[n] = Absent
    BY <1>1, <1>4 DEF Base, Purpose
  <2>2. final'[n] = c /\ \A m \in Names : m # n => final'[m] = final[m]
    BY <1>1, <1>4 DEF Base, Types, FileTypes, Files
  <2>3. report'.skipped = report.skipped /\ report'.conflicts = report.conflicts
    BY <1>4 DEF Base, Types, FileTypes, Note
  <2>4. report.skipped \subseteq Names /\ report.conflicts \subseteq Names
    BY DEF Base, Types, FileTypes
  <2>5. \A m \in Names : had[m] = Absent => final'[m] \in {Absent, Content[m]}
    BY <2>2 DEF Verdicts
  <2>6. \A m \in report.skipped : final'[m] = Content[m]
    BY <2>2, <2>4 DEF Verdicts
  <2>7. \A m \in report.conflicts : m # n
    BY <2>1 DEF Verdicts
  <2>8. \A m \in report.conflicts : final'[m] # Absent /\ final'[m] # Content[m]
    BY <2>2, <2>4, <2>7 DEF Verdicts
  <2> QED
    BY <1>1, <2>3, <2>5, <2>6, <2>8 DEF Verdicts
<1> QED
  BY <1>2, <1>3, <1>4 DEF Compare

LEMMA VerdictsHost ==
  ASSUME Base, Progress, Verdicts, Host
  PROVE  Verdicts'
<1>1. CASE TakeEntry \/ Compare
  BY <1>1, VerdictsTake, VerdictsCompare
<1>2. ASSUME Host, ~ TakeEntry, ~ Compare PROVE UNCHANGED <<final, had, report>>
  BY <1>2 DEF Host, Read, NoAnswer, TimeOut, OnError, OnHello, OnItem, OnListEnd, AskCrc, OnCrc,
       AskData, OnData, Landed, SayBye, OnBye, fileVars
<1> QED
  BY <1>1, <1>2, VerdictsKeep
-----------------------------------------------------------------------------
(* The invariance *)

\* What was late stays late.
LEMMA LateGrows ==
  ASSUME Base, [Next]_vars, late' = 0
  PROVE  late = 0 /\ ~ StartHasty /\ ~ LateAnswer
<1>1. late \in Nat /\ late' \in Nat
  BY BaseNext DEF Base, Types, Counts
<1>2. CASE StartHasty \/ LateAnswer
  BY <1>1, <1>2 DEF StartHasty, LateAnswer
<1>3. CASE UNCHANGED late
  BY <1>1, <1>3 DEF StartHasty, LateAnswer
<1>4. StartSync \/ StartRm \/ Kill \/ Device \/ SessionEnds \/ CardFixed \/ LoseFrame \/ LoseRequest => UNCHANGED late
  BY DEF StartSync, StartRm, Kill, Device, SessionEnds, CardFixed, LoseFrame, LoseRequest, spent
<1>5. Host => UNCHANGED late
  BY DEF Host, Read, NoAnswer, OnError, OnHello, OnItem, OnListEnd, TakeEntry, AskCrc, OnCrc, Compare,
       AskData, OnData, Landed, SayBye, OnBye, spent
<1>6. UNCHANGED vars => UNCHANGED late
  BY DEF vars, spent
<1> QED
  BY <1>2, <1>3, <1>4, <1>5, <1>6 DEF Next

LEMMA InTimeNext ==
  ASSUME Base, late = 0 => InTime, [Next]_vars, late' = 0
  PROVE  InTime'
<1>1. late = 0 /\ ~ StartHasty /\ ~ LateAnswer /\ Lockstep /\ Progress /\ Verdicts
  BY LateGrows DEF InTime
<1>2. CASE UNCHANGED vars
  BY <1>1, <1>2 DEF InTime, Lockstep, Progress, Verdicts, Fits, Summed, arrived, entry,
                    vars, hostVars, reqVars, workVars, fileVars
<1>3. CASE Host
  BY <1>1, <1>3, LockHost, ProgressHost, VerdictsHost DEF InTime
<1>4. CASE StartSync \/ StartRm
  <2>1. pc' = "hello" /\ UNCHANGED <<final, had>> /\ report' = Clean
    BY <1>4 DEF StartSync, StartRm, Start, fileVars
  <2> QED
    BY <1>1, <1>4, <2>1, LockStart, ProgressElse, VerdictsKeep DEF InTime
<1>5. CASE Kill
  <2>1. pc' = "off" /\ UNCHANGED <<final, had, report>>
    BY <1>5 DEF Kill, Finish
  <2> QED
    BY <1>1, <2>1, ProgressElse, VerdictsKeep DEF InTime, Lockstep
<1>6. CASE Device \/ SessionEnds \/ CardFixed \/ LoseFrame \/ LoseRequest
  <2>1. UNCHANGED hostVars
    BY <1>6 DEF Device, SessionEnds, CardFixed, LoseFrame, LoseRequest
  <2>2. UNCHANGED <<pc, req, todo, goal, offset, crc, part, final, had, report>>
    BY <2>1 DEF hostVars, reqVars, workVars, fileVars
  <2> QED
    BY <1>1, <1>6, <2>2, LockBox, ProgressKeeps, VerdictsKeep DEF InTime
<1> QED
  BY <1>1, <1>2, <1>3, <1>4, <1>5, <1>6 DEF Next
-----------------------------------------------------------------------------
(* With no fault at all: every question of edrum sync is answered as it hopes *)

\* What is under way while edrum sync waits.
LEMMA SyncWaits ==
  ASSUME Base, Lockstep, HasLine, NoFailure, Syncing, req # None
  PROVE  /\ req \in Requests /\ pc \in DOMAIN Waits /\ req.op = Waits[pc] /\ pc # "delete"
         /\ wire # <<>> => arrived = <<>> /\ (wire = <<req>> \/ (pc = "hello" /\ wire = <<Wake, req>>))
         /\ arrived = <<>> => wire # <<>>
<1>1. req \in Requests /\ pc \in DOMAIN Waits /\ req.op = Waits[pc] /\ pc # "delete"
  BY DEF Base, Phase, NoFailure, Syncing
<1>2. wire # <<>> => arrived = <<>> /\ (wire = <<req>> \/ (pc = "hello" /\ wire = <<Wake, req>>))
  BY DEF Lockstep, Syncing
<1>3. arrived = <<>> => wire # <<>>
  BY DEF HasLine
<1> QED
  BY <1>1, <1>2, <1>3

\* The answer in hand is of the type that was hoped for.
LEMMA GoodAnswer ==
  ASSUME Base, Lockstep, Prompt, Syncing, req # None, pending # <<>>
  PROVE  /\ Taken.op \in Expected[req.op] /\ pc # "delete"
         /\ pc = "fetch" => Taken.data # <<>>
         /\ pc = "hello" /\ Taken.len # 0 => storage_ok
         /\ pc = "list" /\ Taken.op = "LIST_END" => Taken.len = Len(todo)
<1>0. /\ req \in Requests /\ pc \in DOMAIN Waits /\ req.op = Waits[pc] /\ pc # "delete"
      /\ arrived # <<>> /\ Taken = arrived[1] /\ arrived \in Seq(Replies)
      /\ pc = "list" /\ Taken.op = "LIST_END" => Len(arrived) = 1
  BY SyncWaits, InHand DEF Prompt
<1>1. CASE pc # "list"
  <2>1. Right(Taken, req)
    BY <1>0, <1>1 DEF Prompt, Answering
  <2>2. req.op \in {"HELLO", "CRC", "FETCH", "BYE"}
    BY <1>0, <1>1 DEF Waits
  <2>3. CASE req.op = "HELLO"
    BY <1>0, <1>1, <2>1, <2>3 DEF Right, Expected, Waits
  <2>4. CASE req.op = "CRC"
    BY <1>0, <1>1, <2>1, <2>4 DEF Right, Expected, Waits
  <2>5. CASE req.op = "FETCH"
    BY <1>0, <1>1, <2>1, <2>5 DEF Right, Expected, Waits
  <2>6. CASE req.op = "BYE"
    BY <1>0, <1>1, <2>1, <2>6 DEF Right, Expected, Waits
  <2> QED
    BY <2>2, <2>3, <2>4, <2>5, <2>6
<1>2. CASE pc = "list"
  <2> DEFINE m == Len(arrived)
  <2>1. /\ arrived[m].op = "LIST_END" /\ arrived[m].len = Len(todo) + m - 1
        /\ \A i \in 1..(m - 1) : arrived[i].op = "ITEM"
    BY <1>0, <1>2 DEF Prompt, Answering
  <2>2. m \in Nat /\ m >= 1 /\ Len(todo) \in Nat
    BY <1>0 DEF Base, Types, WorkTypes
  <2>3. Taken.op \in {"ITEM", "LIST_END"}
    <3>1. CASE m = 1
      BY <1>0, <2>1, <3>1
    <3>2. CASE m > 1
      BY <1>0, <2>1, <2>2, <3>2
    <3> QED
      BY <2>2, <3>1, <3>2
  <2>4. Taken.op = "LIST_END" => Taken.len = Len(todo)
    BY <1>0, <1>2, <2>1, <2>2
  <2>5. req.op = "LIST"
    BY <1>0, <1>2 DEF Waits
  <2> QED
    BY <1>0, <1>2, <2>3, <2>4, <2>5 DEF Expected
<1> QED
  BY <1>1, <1>2

\* A step that leaves the result alone.
LEMMA ResultStays ==
  ASSUME NoFailure, pc # "off", UNCHANGED <<job, result>>,
         pc' \in {pc, "entry", "crc", "fetch", "bye", "list"} \/ job # "sync"
  PROVE  NoFailure'
BY DEF NoFailure

\* No step of a sync that meets no fault fails.
LEMMA NoFailureHost ==
  ASSUME Base, Lockstep, Progress, Prompt, Host
  PROVE  NoFailure'
<1>0. NoFailure
  BY DEF Prompt
<1>1. \A type : Answered(type) => req # None /\ pending # <<>> /\ pc # "off" /\ Taken.op = type
  BY DEF Answered, Base, Phase, Waits
<1>2. CASE Read \/ OnItem \/ TakeEntry \/ AskCrc \/ OnCrc \/ AskData \/ SayBye
  <2>1. UNCHANGED <<job, result>>
    BY <1>2 DEF Read, OnItem, TakeEntry, AskCrc, OnCrc, AskData, SayBye
  <2>2. pc # "off"
    BY <1>1, <1>2 DEF Read, OnItem, TakeEntry, AskCrc, OnCrc, AskData, SayBye, Base, Phase, Waits
  <2>3. pc' \in {pc, "entry", "crc", "fetch", "bye"}
    BY <1>2 DEF Read, OnItem, TakeEntry, AskCrc, OnCrc, AskData, SayBye, NextEntry, Sum, Fetch
  <2> QED
    BY <1>0, <2>1, <2>2, <2>3, ResultStays
<1>3. CASE OnHello
  <2>1. job' = job /\ pc # "off" /\ pc' # "off"
    BY <1>1, <1>3 DEF OnHello
  <2>2. result' # "failed" /\ (job = "sync" => pc' # "delete")
    BY <1>0, <1>3, <2>1 DEF OnHello, NoFailure
  <2> QED
    BY <2>1, <2>2 DEF NoFailure
<1>4. CASE NoAnswer
  <2>1. job' = job /\ req # None /\ wire = <<>> /\ pending = <<>> /\ line = <<>>
    BY <1>4 DEF NoAnswer, TimeOut, Silence
  <2>2. pc # "off"
    BY <2>1 DEF Base, Phase, Waits
  <2>3. arrived = <<>>
    BY <2>1 DEF arrived
  <2>4. job # "sync"
    BY <2>1, <2>2, <2>3 DEF Prompt, HasLine, Syncing
  <2>5. CASE pc' = "off"
    BY <2>1, <2>4, <2>5 DEF NoFailure
  <2>6. CASE pc' # "off"
    <3>1. TimeOut /\ ~ Finish("failed")
      BY <1>4, <2>6 DEF NoAnswer, Finish
    <3>2. UNCHANGED <<pc, result>>
      BY <3>1 DEF TimeOut
    <3> QED
      BY <1>0, <2>1, <2>2, <2>4, <3>2, ResultStays
  <2> QED
    BY <2>5, <2>6
<1>5. CASE OnError
  <2>1. /\ req # None /\ pending # <<>> /\ Taken.op \notin Expected[req.op]
        /\ job' = job /\ pc' = "off"
    BY <1>5 DEF OnError, Finish
  <2>2. pc # "off"
    BY <2>1 DEF Base, Phase, Waits
  <2>3. job # "sync"
    BY <2>1, <2>2, GoodAnswer DEF Syncing
  <2> QED
    BY <2>1, <2>3 DEF NoFailure
<1>6. CASE OnListEnd
  <2>1. pc = "list" /\ job' = job /\ req # None /\ pending # <<>> /\ Taken.op = "LIST_END"
    BY <1>6, AnsweredWhere DEF OnListEnd
  <2>2. CASE Taken.len # Len(todo)
    <3>1. job # "sync" /\ pc' = "off"
      BY <1>6, <2>1, <2>2, GoodAnswer DEF Syncing, OnListEnd, Finish
    <3> QED
      BY <2>1, <3>1 DEF NoFailure
  <2>3. CASE Taken.len = Len(todo)
    BY <1>0, <1>6, <2>1, <2>3 DEF NoFailure, OnListEnd
  <2> QED
    BY <2>2, <2>3
<1>7. CASE Compare
  <2>1. pc = "crc" /\ offset = Len(Summed(goal)) /\ job' = job
    BY <1>7 DEF Compare
  <2>2. crc = SubSeq(Content[entry.name], 1, offset) /\ Content[entry.name] \in Bytes
    BY <2>1, EntryInHand DEF Progress
  <2>3. goal = "whole" => Agree(goal)
    <3> SUFFICES ASSUME goal = "whole" PROVE Agree(goal)
      OBVIOUS
    <3>1. part[entry.name] = Content[entry.name] /\ Summed(goal) = part[entry.name]
      BY <2>1 DEF Progress, Summed
    <3>2. SubSeq(Content[entry.name], 1, Len(Content[entry.name])) = Content[entry.name]
      BY <2>2, WholeOrNone
    <3> QED
      BY <2>1, <2>2, <3>1, <3>2 DEF Agree
  <2>4. \/ UNCHANGED result /\ pc' \in {"entry", "fetch"}
        \/ result' = "crashed" /\ pc' = "off"
    BY <1>7, <2>3 DEF Compare, NextEntry, Fetch, Finish
  <2> QED
    BY <1>0, <2>1, <2>4 DEF NoFailure
<1>8. CASE OnData
  <2>1. pc = "fetch" /\ job' = job /\ req # None /\ pending # <<>>
    BY <1>8, AnsweredWhere DEF OnData
  <2>2. CASE Taken.data = <<>>
    <3>1. job # "sync" /\ pc' = "off"
      BY <1>8, <2>1, <2>2, GoodAnswer DEF Syncing, OnData, Finish
    <3> QED
      BY <2>1, <3>1 DEF NoFailure
  <2>3. CASE Taken.data # <<>>
    BY <1>0, <1>8, <2>1, <2>3 DEF NoFailure, OnData
  <2> QED
    BY <2>2, <2>3
<1>9. CASE Landed
  <2>1. pc = "fetch" /\ job' = job /\ offset >= entry.size
    BY <1>9 DEF Landed
  <2>2. /\ entry.size = Len(Content[entry.name]) /\ offset \in Nat /\ offset <= Len(Content[entry.name])
        /\ part[entry.name] = SubSeq(Content[entry.name], 1, offset) /\ Content[entry.name] \in Bytes
    BY <2>1, EntryInHand DEF Progress
  <2>3. part[entry.name] = Content[entry.name]
    <3>1. offset = Len(Content[entry.name])
      BY <2>1, <2>2, WholeOrNone
    <3> QED
      BY <2>2, <3>1, WholeOrNone
  <2>4. pc' = "crc" /\ UNCHANGED result
    BY <1>9, <2>2, <2>3 DEF Landed, Sum
  <2> QED
    BY <1>0, <2>1, <2>4 DEF NoFailure
<1>10. CASE OnBye
  <2>1. pc' = "off" /\ result' \in {"no storage", "ok"}
    BY <1>10 DEF OnBye, Finish
  <2> QED
    BY <2>1 DEF NoFailure
<1> QED
  BY <1>2, <1>3, <1>4, <1>5, <1>6, <1>7, <1>8, <1>9, <1>10 DEF Host

\* The line stays with the framed protocol until BYE.
LEMMA HasLineHost ==
  ASSUME Base, Lockstep, Prompt, Host
  PROVE  HasLine'
<1>0. HasLine /\ job' = job /\ UNCHANGED <<over, sync_mode, storage_ok>>
  BY DEF Prompt, Host, Read, NoAnswer, TimeOut, OnError, OnHello, OnItem, OnListEnd, TakeEntry,
         AskCrc, OnCrc, Compare, AskData, OnData, Landed, SayBye, OnBye, devVars
<1>0a. /\ line \in Seq(Replies) /\ pending \in Seq(Replies) /\ wire \in Seq(Requests)
       /\ \A type : Answered(type) => req # None /\ pending # <<>> /\ pc # "off" /\ Taken.op = type
  BY DEF Base, Types, BoxTypes, WorkTypes, Answered, Phase, Waits
<1> SUFFICES ASSUME job = "sync", pc' # "off" PROVE HasLine'
  BY <1>0 DEF HasLine, Syncing
\* a question is asked when nothing is under way
<1>1. ASSUME NEW r, Ask(r), pc # "off", UNCHANGED line, req = None \/ (pending # <<>> /\ pc # "list"),
             pc' \notin {"hello", "list"} \/ (pc' = "list" /\ todo' = <<>>),
             sync_mode /\ ~ over, pc' \notin {"hello", "bye"} => storage_ok
      PROVE  HasLine'
  <2>1. wire = <<>>
    BY <1>1, InHand DEF Lockstep
  <2>2. wire' = <<r>> /\ wire' # <<>>
    BY <1>1, <2>1 DEF Ask
  <2> QED
    BY <1>0, <1>1, <2>2 DEF HasLine
\* nothing is awaited
<1>2. ASSUME req' = None, UNCHANGED wire, wire = <<>>, sync_mode, ~ over, storage_ok,
             pc' \in {"entry", "crc", "fetch"}
      PROVE  HasLine'
  BY <1>0, <1>2 DEF HasLine
<1>3. ASSUME pc # "off", pc \notin {"hello", "bye"} PROVE sync_mode /\ ~ over /\ storage_ok
  BY <1>0, <1>3 DEF HasLine, Syncing
<1>4. CASE Read
  <2>1. arrived' = arrived /\ UNCHANGED <<wire, pc, req, todo>> /\ pc # "off"
    BY <1>4, LockRead DEF Read, workVars
  <2> QED
    BY <1>0, <2>1 DEF HasLine, Syncing
<1>5. CASE NoAnswer
  <2>1. req # None /\ wire = <<>> /\ arrived = <<>>
    BY <1>5 DEF NoAnswer, TimeOut, Silence, arrived
  <2>2. pc # "off"
    BY <2>1 DEF Base, Phase, Waits
  <2> QED
    BY <1>0, <2>1, <2>2 DEF HasLine, Syncing
<1>6. CASE OnHello
  <2>1. /\ pc = "hello" /\ req # None /\ pending # <<>> /\ todo = <<>>
        /\ UNCHANGED <<line, todo>>
    BY <1>6, AnsweredWhere DEF OnHello, Base, Phase, workVars
  <2>2. arrived # <<>> /\ (Taken.len # 0 => storage_ok)
    BY <2>1, InHand, GoodAnswer DEF Syncing
  <2>3. ~ over /\ sync_mode
    BY <1>0, <2>1, <2>2 DEF HasLine, Syncing
  <2>4. \/ Ask(Plain("BYE")) /\ pc' = "bye"
        \/ Taken.len # 0 /\ Ask(Plain("LIST")) /\ pc' = "list"
    BY <1>6 DEF OnHello
  <2> QED
    BY <1>1, <2>1, <2>2, <2>3, <2>4
<1>7. CASE OnItem
  <2>1. /\ pc = "list" /\ req # None /\ pending # <<>> /\ pending' = Tail(pending)
        /\ UNCHANGED <<wire, line, pc, req>> /\ Taken.op = "ITEM"
    BY <1>7, AnsweredWhere DEF OnItem
  <2>2. wire = <<>> /\ arrived' = Tail(arrived) /\ arrived \in Seq(Replies) /\ arrived # <<>>
        /\ Taken = arrived[1]
    BY <2>1, InHand DEF arrived
  <2>3. arrived[Len(arrived)].op = "LIST_END"
    BY <2>1, <2>2 DEF Prompt, Answering, Syncing
  <2>4. arrived' # <<>>
    <3>1. Len(arrived) # 1 /\ Len(arrived) \in Nat /\ Len(arrived) # 0
      BY <2>1, <2>2, <2>3
    <3>2. Len(Tail(arrived)) = Len(arrived) - 1
      BY <2>2
    <3>3. Len(Tail(arrived)) # 0 /\ Len(<<>>) = 0
      BY <3>1, <3>2
    <3>4. Tail(arrived) # <<>>
      BY <3>3
    <3> QED
      BY <2>2, <3>4
  <2> QED
    BY <1>0, <1>3, <2>1, <2>2, <2>4 DEF HasLine
<1>8. CASE OnListEnd \/ OnCrc \/ OnData
  <2>1. Answered("LIST_END") \/ Answered("CRC_OK") \/ Answered("DATA")
    BY <1>8 DEF OnListEnd, OnCrc, OnData
  <2>1a. /\ pc \in {"list", "crc", "fetch"} /\ req # None /\ pending # <<>>
         /\ pc = "list" => Taken.op = "LIST_END"
    BY <2>1, AnsweredWhere
  <2>2. Quiet /\ pc' \in {"entry", "crc", "fetch"}
    <3>1. CASE OnListEnd
      BY <3>1 DEF OnListEnd, Finish
    <3>2. CASE OnCrc
      BY <3>2, AnsweredWhere DEF OnCrc
    <3>3. CASE OnData
      BY <3>3, AnsweredWhere DEF OnData, Finish
    <3> QED
      BY <1>8, <3>1, <3>2, <3>3
  <2>3. wire = <<>>
    BY <2>1a, InHand
  <2> QED
    BY <1>2, <1>3, <2>1a, <2>2, <2>3 DEF Quiet
<1>9. CASE TakeEntry \/ Compare \/ Landed
  <2>1. pc \in {"entry", "crc", "fetch"} /\ req = None
    BY <1>9 DEF TakeEntry, Compare, Landed
  <2>2. wire = <<>>
    BY <2>1 DEF Lockstep
  <2>3. UNCHANGED <<wire, reqVars>> /\ pc' \in {"entry", "crc", "fetch"}
    BY <1>9 DEF TakeEntry, Compare, Landed, NextEntry, Sum, Fetch, Finish
  <2>4. req' = None
    BY <2>1, <2>3 DEF reqVars
  <2> QED
    BY <1>2, <1>3, <2>1, <2>2, <2>3, <2>4
<1>10. CASE AskCrc \/ AskData \/ SayBye
  <2>1. pc \in {"entry", "crc", "fetch", "delete"} /\ UNCHANGED line
    BY <1>10, AnsweredWhere DEF AskCrc, AskData, SayBye
  <2>2. pc # "delete"
    BY <2>1 DEF Prompt, NoFailure
  <2>3. req = None /\ pc' \in {pc, "bye"} /\ \E r : Ask(r)
    BY <1>10, <2>2, AnsweredWhere DEF AskCrc, AskData, SayBye
  <2> QED
    BY <1>1, <1>3, <2>1, <2>2, <2>3
<1>11. OnError \/ OnBye => pc' = "off"
  BY DEF OnError, OnBye, Finish
<1> QED
  BY <1>4, <1>5, <1>6, <1>7, <1>8, <1>9, <1>10, <1>11 DEF Host

\* What is still to be replicated is on the card.
LEMMA OnCardHost ==
  ASSUME Base, Lockstep, Prompt, Host
  PROVE  OnCard'
<1>0. OnCard /\ job' = job /\ UNCHANGED archive /\ todo \in Seq(Entries)
  BY DEF Prompt, Host, Read, NoAnswer, TimeOut, OnError, OnHello, OnItem, OnListEnd, TakeEntry,
         AskCrc, OnCrc, Compare, AskData, OnData, Landed, SayBye, OnBye, devVars, Base, Types, WorkTypes
<1> SUFFICES ASSUME job = "sync", pc' # "off", NEW i \in DOMAIN todo' PROVE Whole(todo'[i].name)
  BY <1>0 DEF OnCard, Syncing, Whole
<1>1. pc # "off"
  BY DEF Host, Read, NoAnswer, TimeOut, OnError, OnHello, OnItem, OnListEnd, TakeEntry,
         AskCrc, OnCrc, Compare, AskData, OnData, Landed, SayBye, OnBye, Answered, Base, Phase, Waits
<1>2. \A k \in DOMAIN todo : Whole(todo[k].name)
  BY <1>0, <1>1 DEF OnCard, Syncing
<1>3. CASE UNCHANGED todo
  BY <1>2, <1>3
<1>4. CASE todo # <<>> /\ todo' = Tail(todo)
  <2>1. i + 1 \in DOMAIN todo /\ todo'[i] = todo[i + 1]
    BY <1>0, <1>4
  <2> QED
    BY <1>2, <2>1
<1>5. CASE OnItem
  <2>1. /\ pc = "list" /\ req # None /\ pending # <<>> /\ Taken.op = "ITEM"
        /\ todo' = Append(todo, [name |-> Taken.name, size |-> Taken.len])
    BY <1>5, AnsweredWhere DEF OnItem
  <2>2. arrived # <<>> /\ Taken = arrived[1] /\ arrived \in Seq(Replies)
    BY <2>1, InHand
  <2>3. /\ arrived[Len(arrived)].op = "LIST_END"
        /\ \A k \in 1..(Len(arrived) - 1) : Whole(arrived[k].name)
    BY <2>1, <2>2 DEF Prompt, Answering, Syncing
  <2>4. Whole(Taken.name)
    <3>1. 1 \in 1..(Len(arrived) - 1)
      BY <2>1, <2>2, <2>3
    <3> QED
      BY <2>2, <2>3, <3>1
  <2>5. i <= Len(todo) => i \in DOMAIN todo /\ todo'[i] = todo[i]
    BY <1>0, <2>1
  <2>6. i > Len(todo) => todo'[i].name = Taken.name
    BY <1>0, <2>1
  <2>7. i \in Nat /\ Len(todo) \in Nat
    BY <1>0, <2>1
  <2> QED
    BY <1>2, <2>4, <2>5, <2>6, <2>7
<1>6. CASE TakeEntry \/ Compare
  <2>1. todo # <<>>
    BY <1>6 DEF TakeEntry, Compare, Base, Phase
  <2> QED
    BY <1>3, <1>4, <1>6, <2>1 DEF TakeEntry, Compare, NextEntry, Finish
<1>7. Read \/ OnHello \/ AskCrc \/ OnCrc \/ AskData \/ SayBye => UNCHANGED todo
  BY DEF Read, OnHello, AskCrc, OnCrc, AskData, SayBye, workVars
<1>8. NoAnswer \/ OnListEnd \/ OnData \/ Landed => UNCHANGED todo
  BY DEF NoAnswer, TimeOut, OnListEnd, OnData, Landed, Finish, workVars
<1>9. OnError \/ OnBye => pc' = "off"
  BY DEF OnError, OnBye, Finish
<1> QED
  BY <1>3, <1>5, <1>6, <1>7, <1>8, <1>9 DEF Host

\* Nothing arrives but what the box sends.
LEMMA AnsweringHost ==
  ASSUME Base, Lockstep, Prompt, Host
  PROVE  Answering'
<1>0. Answering /\ job' = job /\ UNCHANGED <<archive, storage_ok>> /\ line \in Seq(Replies)
  BY DEF Prompt, Host, Read, NoAnswer, TimeOut, OnError, OnHello, OnItem, OnListEnd, TakeEntry,
         AskCrc, OnCrc, Compare, AskData, OnData, Landed, SayBye, OnBye, devVars, Base, Types, BoxTypes
<1> SUFFICES ASSUME job = "sync", pc' # "off", req' # None, arrived' # <<>> PROVE Answering'
  BY <1>0 DEF Answering, Syncing
<1>1. CASE Read
  <2>1. arrived' = arrived /\ UNCHANGED <<pc, req, todo>>
    BY <1>1, LockRead DEF Read, workVars
  <2> QED
    BY <1>0, <2>1 DEF Answering, Syncing, Right, Whole
<1>2. CASE NoAnswer
  <2>1. arrived = <<>> /\ wire = <<>> /\ req # None
    BY <1>2 DEF NoAnswer, TimeOut, Silence, arrived
  <2>2. pc # "off"
    BY <2>1 DEF Base, Phase, Waits
  <2> QED
    BY <2>1, <2>2 DEF Prompt, HasLine, Syncing
<1>3. ASSUME NEW r, Ask(r), UNCHANGED line, line = <<>>
      PROVE  FALSE
  BY <1>3 DEF Ask, arrived
<1>4. CASE OnHello
  <2>1. line = <<>> /\ UNCHANGED line
    BY <1>4, AnsweredWhere, InHand DEF OnHello
  <2> QED
    BY <1>3, <1>4, <2>1 DEF OnHello
<1>5. CASE AskCrc \/ AskData \/ SayBye
  <2>1. line = <<>> /\ UNCHANGED line
    BY <1>5, AnsweredWhere, InHand DEF AskCrc, AskData, SayBye, Lockstep
  <2> QED
    BY <1>3, <1>5, <2>1 DEF AskCrc, AskData, SayBye
<1>6. CASE OnItem
  <2>1. /\ pc = "list" /\ req # None /\ pending # <<>> /\ pending' = Tail(pending)
        /\ UNCHANGED <<wire, line, pc, req>> /\ Taken.op = "ITEM"
        /\ todo' = Append(todo, [name |-> Taken.name, size |-> Taken.len])
    BY <1>6, AnsweredWhere DEF OnItem
  <2>2. arrived' = Tail(arrived) /\ arrived \in Seq(Replies) /\ arrived # <<>>
    BY <2>1, InHand DEF arrived
  <2> DEFINE m == Len(arrived)
  <2>3. /\ arrived[m].op = "LIST_END" /\ arrived[m].len = Len(todo) + m - 1
        /\ \A i \in 1..(m - 1) : arrived[i].op = "ITEM" /\ Whole(arrived[i].name)
    BY <2>1, <2>2 DEF Prompt, Answering, Syncing
  <2>4. m \in Nat /\ m > 1 /\ Len(arrived') = m - 1
        /\ \A i \in 1..(m - 1) : arrived'[i] = arrived[i + 1]
    <3>1. Tail(arrived) \in Seq(Replies) /\ Len(Tail(arrived)) = m - 1 /\ m \in Nat /\ m > 0
          /\ \A i \in 1..(m - 1) : Tail(arrived)[i] = arrived[i + 1]
      BY <2>2
    <3>2. m # 1
      <4>1. Len(arrived') # 0
        BY <2>2, <3>1
      <4> QED
        BY <2>2, <3>1, <4>1
    <3> QED
      BY <2>2, <3>1, <3>2
  <2>5. Len(todo') = Len(todo) + 1 /\ Len(todo) \in Nat
    BY <2>1 DEF Base, Types, WorkTypes
  <2> HIDE DEF m
  <2>6. /\ arrived'[m - 1].op = "LIST_END" /\ arrived'[m - 1].len = Len(todo') + (m - 1) - 1
    <3>1. arrived'[m - 1] = arrived[m]
      <4>1. m - 1 \in 1..(m - 1) /\ (m - 1) + 1 = m
        BY <2>4
      <4> QED
        BY <2>4, <4>1
    <3> QED
      BY <2>3, <2>4, <2>5, <3>1
  <2>7. ASSUME NEW i \in 1..((m - 1) - 1)
        PROVE  arrived'[i].op = "ITEM" /\ Whole(arrived'[i].name)
    <3>1. arrived'[i] = arrived[i + 1] /\ i + 1 \in 1..(m - 1)
      BY <2>4
    <3> QED
      BY <2>3, <3>1
  <2>8. \A i \in 1..((m - 1) - 1) :
          arrived'[i].op = "ITEM" /\ archive'[arrived'[i].name] = Content[arrived'[i].name]
    BY <1>0, <2>7 DEF Whole
  <2> QED
    BY <2>1, <2>4, <2>6, <2>8 DEF Answering, Whole
<1>7. CASE TakeEntry \/ Compare \/ Landed
  <2>1. req' = None
    BY <1>7 DEF TakeEntry, Compare, Landed, Finish, reqVars
  <2> QED
    BY <2>1
<1>8. OnError \/ OnBye \/ OnListEnd \/ OnCrc \/ OnData => req' = None
  BY DEF OnError, OnBye, OnListEnd, OnCrc, OnData, Finish, Quiet
<1> QED
  BY <1>1, <1>2, <1>4, <1>5, <1>6, <1>7, <1>8 DEF Host

LEMMA SpanOf ==
  ASSUME NEW k \in Nat \ {0}, NEW rest \in Nat, rest > 0
  PROVE  LET span == Min({k, rest}) IN
         span \in Nat /\ span > 0 /\ span <= rest /\ Min({span, k}) = span
<1> DEFINE span == Min({k, rest})
<1>1. span \in Nat /\ span > 0 /\ span <= rest /\ span <= k
  BY MinPair
<1> HIDE DEF span
<1>2. Min({span, k}) = span
  BY <1>1, MinPair
<1> QED
  BY <1>1, <1>2 DEF span

\* What the box says to edrum sync is what it hopes for.
LEMMA ServedRight ==
  ASSUME Base, Lockstep, Progress, Prompt, Syncing, req # None, wire # <<>>
  PROVE  IF pc # "list" THEN Right(Answers(req)[1], req)
         ELSE LET a == Answers(req)
                  m == Len(a) IN
              /\ a[m].op = "LIST_END" /\ a[m].len = Len(todo) + m - 1
              /\ \A i \in 1..(m - 1) : a[i].op = "ITEM" /\ Whole(a[i].name)
<1>0. req \in Requests /\ pc \in DOMAIN Waits /\ req.op = Waits[pc] /\ pc # "delete"
  BY SyncWaits DEF Prompt
<1>1. pc \notin {"hello", "bye"} => storage_ok
  BY DEF Prompt, HasLine
<1>2. CASE pc = "hello"
  <2>1. req.op = "HELLO"
    BY <1>0, <1>2 DEF Waits
  <2> DEFINE a == Frame("HELLO_OK", NoName, 0, IF storage_ok THEN 1 ELSE 0, <<>>)
  <2>2. Answers(req) = <<a>>
    BY <2>1 DEF Answers
  <2>3. a.op = "HELLO_OK" /\ (a.len # 0 => storage_ok)
    BY DEF Frame, Base, Types, BoxTypes
  <2> HIDE DEF a
  <2>4. Answers(req)[1] = a
    BY <2>2
  <2> QED
    BY <1>2, <2>1, <2>3, <2>4 DEF Right
<1>3. CASE pc = "bye"
  <2>1. req.op = "BYE"
    BY <1>0, <1>3 DEF Waits
  <2>2. Answers(req) = <<Plain("BYE_OK")>>
    BY <2>1 DEF Answers
  <2>3. Plain("BYE_OK").op = "BYE_OK"
    BY DEF Plain, Frame
  <2> QED
    BY <1>3, <2>1, <2>2, <2>3 DEF Right
<1>4. CASE pc = "list"
  <2>1. req.op = "LIST" /\ storage_ok /\ todo = <<>>
    BY <1>0, <1>1, <1>4 DEF Waits, Prompt, HasLine
  <2>2. Answers(req) = Listing
    BY <2>1 DEF Answers
  <2>3. Types /\ Len(todo) = 0
    BY <2>1 DEF Base
  <2> DEFINE m == Len(Listing)
  <2>4. /\ m \in Nat /\ Listing[m].op = "LIST_END" /\ Listing[m].len = m - 1
        /\ \A i \in 1..(m - 1) : Listing[i].op = "ITEM" /\ Whole(Listing[i].name)
    BY <2>3, ListingShape
  <2> HIDE DEF Listing
  <2> QED
    BY <1>4, <2>2, <2>3, <2>4
<1>5. pc \in {"crc", "fetch"} =>
        /\ entry.name \in Names /\ archive[entry.name] = Content[entry.name]
        /\ entry.size = Len(Content[entry.name]) /\ Content[entry.name] \in Bytes
        /\ Content[entry.name] # Absent /\ offset \in Nat /\ Len(Content[entry.name]) \in Nat
  <2> SUFFICES ASSUME pc \in {"crc", "fetch"}
               PROVE  /\ entry.name \in Names /\ archive[entry.name] = Content[entry.name]
                      /\ entry.size = Len(Content[entry.name]) /\ Content[entry.name] \in Bytes
                      /\ Content[entry.name] # Absent /\ offset \in Nat
                      /\ Len(Content[entry.name]) \in Nat
    OBVIOUS
  <2>1. todo # <<>> /\ todo \in Seq(Entries)
    BY EntryInHand DEF Base, Types, WorkTypes
  <2>2. 1 \in DOMAIN todo /\ entry = todo[1]
    BY <2>1 DEF entry
  <2>3. Whole(entry.name)
    BY <2>2 DEF Prompt, OnCard
  <2> QED
    BY <2>3, EntryInHand DEF Whole, Bytes
<1>6. CASE pc = "crc"
  <2> DEFINE rest == Len(Summed(goal)) - offset
             span == Min({CrcMax, rest})
  <2>1. req = Frame("CRC", entry.name, offset, span, crc) /\ offset < Len(Summed(goal))
    BY <1>6 DEF Progress
  <2>2. Len(Summed(goal)) \in Nat /\ Len(Summed(goal)) <= Len(Content[entry.name])
    BY <1>5, <1>6, EntryInHand DEF Base, Purpose, Summed, Bytes
  <2>3. rest \in Nat /\ rest > 0
    BY <1>5, <1>6, <2>1, <2>2
  <2>4. span \in Nat /\ span <= rest /\ Min({span, CrcMax}) = span
    <3> HIDE DEF rest
    <3> QED
      BY <2>3, SpanOf, DeviceAssumption
  <2>5. offset + span <= Len(Content[entry.name])
    <3> HIDE DEF span
    <3> QED
      BY <1>5, <1>6, <2>2, <2>4
  <2> HIDE DEF span
  <2>6. /\ req.op = "CRC" /\ req.name = entry.name /\ req.off = offset /\ req.len = span
        /\ req.data = crc
    BY <2>1 DEF Frame
  <2>7. Answers(req) = <<CrcAnswer(req)>>
    BY <1>1, <1>6, <2>6 DEF Answers
  <2>8. CrcAnswer(req) = Frame("CRC_OK", NoName, 0, 0, crc \o Part(Content[entry.name], offset, span))
    BY <1>5, <1>6, <2>4, <2>5, <2>6 DEF CrcAnswer
  <2>9. CrcAnswer(req).op = "CRC_OK"
    BY <2>8 DEF Frame
  <2>10. Answers(req)[1] = CrcAnswer(req)
    BY <2>7
  <2> QED
    BY <1>6, <2>6, <2>9, <2>10 DEF Right
<1>7. CASE pc = "fetch"
  <2> DEFINE rest == entry.size - offset
             span == Min({FetchMax, rest})
             c == Content[entry.name]
  <2>1. req = Frame("FETCH", entry.name, offset, span, <<>>) /\ offset < Len(c)
    BY <1>7 DEF Progress
  <2>3. rest \in Nat /\ rest > 0
    BY <1>5, <1>7, <2>1
  <2>4. span \in Nat /\ span > 0 /\ span <= rest /\ Min({span, FetchMax}) = span
    <3> HIDE DEF rest
    <3> QED
      BY <2>3, SpanOf, DeviceAssumption
  <2>5. offset + span <= Len(c)
    <3> HIDE DEF span
    <3> QED
      BY <1>5, <1>7, <2>4
  <2> HIDE DEF span
  <2>6. req.op = "FETCH" /\ req.name = entry.name /\ req.off = offset /\ req.len = span
    BY <2>1 DEF Frame
  <2>7. Answers(req) = <<FetchAnswer(req)>>
    BY <1>1, <1>7, <2>6 DEF Answers
  <2>8. FetchAnswer(req) = Frame("DATA", NoName, 0, 0, Part(c, offset, span))
    <3>1. archive[req.name] = c /\ c # Absent
      BY <1>5, <1>7, <2>6
    <3>2. ~ (req.off > Len(c))
      <4>1. offset \in Nat /\ Len(c) \in Nat
        BY <1>5, <1>7
      <4> HIDE DEF c
      <4> QED
        BY <2>1, <2>6, <4>1
    <3>3. Min({req.len, FetchMax}) = span
      BY <2>4, <2>6
    <3> HIDE DEF c
    <3> QED
      BY <2>6, <3>1, <3>2, <3>3 DEF FetchAnswer
  <2>9. FetchAnswer(req).op = "DATA" /\ FetchAnswer(req).data = Part(c, offset, span)
    BY <2>8 DEF Frame
  <2>10. c \in Bytes /\ offset \in Nat
    BY <1>5, <1>7
  <2>11. Len(Part(c, offset, span)) = span
    <3> HIDE DEF c
    <3> QED
      BY <2>4, <2>5, <2>10, PartChains
  <2>12. Part(c, offset, span) # <<>>
    <3>1. Len(<<>>) = 0
      OBVIOUS
    <3> QED
      BY <2>4, <2>11, <3>1
  <2>13. Answers(req)[1] = FetchAnswer(req)
    BY <2>7
  <2> QED
    BY <1>7, <2>6, <2>9, <2>12, <2>13 DEF Right
<1> QED
  BY <1>0, <1>2, <1>3, <1>4, <1>6, <1>7 DEF Waits

\* The box's own steps: it serves, leaves after BYE only, and keeps its files.
LEMMA PromptServe ==
  ASSUME Base, Lockstep, Progress, Prompt, Serve, UNCHANGED hostVars
  PROVE  Prompt'
<1>0. /\ UNCHANGED <<pc, job, req, pending, todo, result, sync_mode, storage_ok>> /\ sync_mode
      /\ line \in Seq(Replies) /\ pending \in Seq(Replies) /\ wire \in Seq(Requests) /\ wire # <<>>
  BY DEF Serve, hostVars, reqVars, workVars, Base, Types, BoxTypes, WorkTypes
<1>1. NoFailure'
  BY <1>0 DEF Prompt, NoFailure
<1>2. CASE ~ Syncing
  BY <1>0, <1>1, <1>2 DEF Prompt, HasLine, OnCard, Answering, Syncing
<1>3. CASE Syncing
  <2>1. req # None
    BY <1>0, <1>3 DEF Lockstep, Syncing
  <2>2. /\ req \in Requests /\ pc \in DOMAIN Waits /\ req.op = Waits[pc] /\ pc # "delete"
        /\ arrived = <<>> /\ (wire = <<req>> \/ (pc = "hello" /\ wire = <<Wake, req>>))
        /\ ~ over
    BY <1>0, <1>3, <2>1, SyncWaits DEF Prompt, HasLine
  <2>3. line = <<>> /\ pending = <<>>
    BY <1>0, <2>2, Joins DEF arrived
  <2>4. Wake.op = "sync" /\ req.op # "DELETE" /\ (req.op = "BYE" <=> pc = "bye") /\ req.op # "sync"
    BY <2>2, PlainRequests DEF Waits
  <2>5. Head(wire) \in {req, Wake} /\ UNCHANGED archive
    <3>1. Head(wire) \in {req, Wake}
      BY <2>2
    <3> QED
      BY <2>4, <3>1 DEF Serve
  <2>6. OnCard'
    BY <1>0, <2>5 DEF Prompt, OnCard, Syncing, Whole
  <2>7. CASE wire = <<Wake, req>> /\ pc = "hello"
    <3>1. Head(wire) = Wake /\ Tail(wire) = <<req>> /\ Answers(Wake) = <<>>
      BY <2>4, <2>7 DEF Answers
    <3>2. line' = <<>> /\ wire' = <<req>> /\ over' = over
      <4>1. line' = line \o Answers(Wake) /\ wire' = Tail(wire) /\ over' = (over \/ Wake.op = "BYE")
        BY <3>1 DEF Serve
      <4>2. <<>> \o <<>> = <<>>
        OBVIOUS
      <4>3. line' = <<>> /\ wire' = <<req>>
        BY <2>3, <3>1, <4>1, <4>2
      <4>4. over' = over
        BY <2>2, <2>4, <4>1 DEF Base, Types, BoxTypes
      <4> QED
        BY <4>3, <4>4
    <3>3. arrived' = <<>> /\ Len(<<req>>) = 1 /\ <<req>> # <<>>
      BY <1>0, <2>3, <3>2 DEF arrived
    <3>4. HasLine' /\ Answering'
      BY <1>0, <2>2, <2>7, <3>2, <3>3 DEF HasLine, Answering
    <3> QED
      BY <1>1, <2>6, <3>4 DEF Prompt
  <2>8. CASE wire = <<req>>
    <3>1. Head(wire) = req /\ Tail(wire) = <<>>
      BY <2>8
    <3>2. Answers(req) \in Seq(Replies) /\ Answers(req) # <<>>
      BY <2>2, ServedFits
    <3>3. arrived' = Answers(req) /\ wire' = <<>> /\ over' = (over \/ req.op = "BYE")
      BY <1>0, <2>3, <3>1, <3>2, Joins DEF Serve, arrived
    <3>4. HasLine'
      BY <1>0, <1>3, <2>2, <2>4, <3>2, <3>3 DEF Prompt, HasLine, Syncing
    <3>5. IF pc # "list" THEN Right(Answers(req)[1], req)
          ELSE LET a == Answers(req)
                   m == Len(a) IN
               /\ a[m].op = "LIST_END" /\ a[m].len = Len(todo) + m - 1
               /\ \A i \in 1..(m - 1) : a[i].op = "ITEM" /\ Whole(a[i].name)
      BY <1>0, <1>3, <2>1, ServedRight
    <3> DEFINE a == Answers(req)
    <3> HIDE DEF a
    <3>6. Answering'
      BY <1>0, <2>5, <3>3, <3>5 DEF Answering, Right, Whole, a
    <3> QED
      BY <1>1, <2>6, <3>4, <3>6 DEF Prompt
  <2> QED
    BY <2>2, <2>7, <2>8
<1> QED
  BY <1>2, <1>3

LEMMA PromptBox ==
  ASSUME Base, Lockstep, Progress, Prompt, Device \/ SessionEnds \/ CardFixed
  PROVE  Prompt'
<1>0. /\ UNCHANGED <<pc, job, req, pending, todo, result>>
      /\ wire \in Seq(Requests)
  BY DEF Device, SessionEnds, CardFixed, hostVars, reqVars, workVars, Base, Types, BoxTypes
<1>1. CASE Serve
  BY <1>1, PromptServe DEF Device, SessionEnds, CardFixed
<1>2. ASSUME ~ Serve PROVE UNCHANGED <<archive, line>> /\ (storage_ok => storage_ok')
  BY <1>2 DEF Device, Leave, IdleExit, Console, SessionEnds, CloseSession, CardFixed
<1>3. CASE ~ Serve
  <2>1. NoFailure' /\ OnCard' /\ Answering'
    BY <1>0, <1>2, <1>3 DEF Prompt, NoFailure, OnCard, Answering, Syncing, Whole, Right, arrived
  <2>2. HasLine'
    <3> SUFFICES ASSUME Syncing PROVE HasLine'
      BY <1>0 DEF HasLine, Syncing
    <3>0. arrived' = arrived /\ HasLine
      BY <1>0, <1>2, <1>3 DEF arrived, Prompt
    <3>1. CASE UNCHANGED <<wire, sync_mode, over>>
      BY <1>0, <1>2, <1>3, <3>0, <3>1 DEF HasLine, Syncing
    <3>2. CASE Leave
      BY <1>0, <1>2, <1>3, <3>0, <3>2 DEF HasLine, Syncing, Leave
    <3>3. CASE Console
      <4>1. ~ sync_mode /\ wire # <<>> /\ sync_mode' = (Head(wire) = Wake) /\ wire' = Tail(wire) /\ UNCHANGED over
        BY <3>3 DEF Console
      <4>2. req # None
        BY <4>1 DEF Lockstep, Syncing
      <4>3. pc = "hello" /\ wire = <<Wake, req>> /\ arrived = <<>> /\ ~ over
        <5>1. Len(wire) # 1
          BY <3>0, <4>1 DEF HasLine
        <5>2. wire # <<req>>
          BY <5>1
        <5> QED
          BY <3>0, <4>1, <4>2, <5>2, SyncWaits DEF Prompt, HasLine
      <4>4. sync_mode' = TRUE /\ wire' = <<req>> /\ <<req>> # <<>>
        <5>1. Head(<<Wake, req>>) = Wake /\ Tail(<<Wake, req>>) = <<req>> /\ <<req>> # <<>>
          OBVIOUS
        <5> QED
          BY <4>1, <4>3, <5>1
      <4> QED
        BY <1>0, <3>0, <4>1, <4>3, <4>4 DEF HasLine
    <3>4. CASE IdleExit(pc = "off")
      BY <3>4 DEF IdleExit, Syncing
    <3> QED
      BY <1>3, <3>1, <3>2, <3>3, <3>4 DEF Device, SessionEnds, CloseSession, CardFixed
  <2> QED
    BY <2>1, <2>2 DEF Prompt
<1> QED
  BY <1>1, <1>3

LEMMA PromptStart ==
  ASSUME Base, StartSync \/ StartRm
  PROVE  Prompt'
<1>1. /\ wire = <<>> /\ pc = "off" /\ ~ over /\ pc' = "hello" /\ line' = <<>> /\ pending' = <<>>
      /\ wire' = wire \o <<Wake, Plain("HELLO")>> /\ result' = "none" /\ UNCHANGED <<over, todo>>
  BY DEF StartSync, StartRm, Start, devVars, workVars
<1>2. wire' = <<Wake, Plain("HELLO")>> /\ Len(wire') = 2 /\ wire' # <<>>
  BY <1>1
<1>3. arrived' = <<>> /\ todo' = <<>>
  BY <1>1 DEF arrived, Base, Phase
<1> QED
  BY <1>1, <1>2, <1>3 DEF Prompt, NoFailure, HasLine, OnCard, Answering

\* A fault counts for good.
LEMMA FaultsGrow ==
  ASSUME Base, [Next]_vars, late' + lost' + kills' = 0
  PROVE  /\ late + lost + kills = 0 /\ late = 0 /\ late' = 0
         /\ ~ StartHasty /\ ~ LateAnswer /\ ~ Kill /\ ~ LoseFrame /\ ~ LoseRequest
<1>1. /\ late \in Nat /\ lost \in Nat /\ kills \in Nat
      /\ late' \in Nat /\ lost' \in Nat /\ kills' \in Nat
  BY BaseNext DEF Base, Types, Counts
<1>2. late' = 0 /\ lost' = 0 /\ kills' = 0
  <2>1. \A a, b, c \in Nat : a + b + c = 0 => a = 0 /\ b = 0 /\ c = 0
    OBVIOUS
  <2> QED
    BY <1>1, <2>1
<1>3. late = 0 /\ ~ StartHasty /\ ~ LateAnswer
  BY <1>2, LateGrows
<1>4. ~ Kill /\ ~ LoseFrame /\ ~ LoseRequest
  BY <1>1, <1>2 DEF Kill, LoseFrame, LoseRequest
<1>5. UNCHANGED <<lost, kills>>
  <2>1. StartSync \/ StartRm \/ Device \/ SessionEnds \/ CardFixed => UNCHANGED <<lost, kills>>
    BY DEF StartSync, StartRm, Device, SessionEnds, CardFixed, spent
  <2>2. Host => UNCHANGED <<lost, kills>>
    BY DEF Host, Read, NoAnswer, OnError, OnHello, OnItem, OnListEnd, TakeEntry, AskCrc, OnCrc, Compare,
         AskData, OnData, Landed, SayBye, OnBye, spent
  <2>3. UNCHANGED vars => UNCHANGED <<lost, kills>>
    BY DEF vars, spent
  <2> QED
    BY <1>3, <1>4, <2>1, <2>2, <2>3 DEF Next
<1>6. late = 0 /\ lost = 0 /\ kills = 0
  BY <1>2, <1>3, <1>5
<1> QED
  BY <1>2, <1>3, <1>4, <1>6

LEMMA PromptNext ==
  ASSUME IInv, [Next]_vars, late' + lost' + kills' = 0
  PROVE  Prompt'
<1>1. /\ Base /\ late = 0 /\ InTime /\ Prompt
      /\ ~ StartHasty /\ ~ LateAnswer /\ ~ Kill /\ ~ LoseFrame /\ ~ LoseRequest
  BY FaultsGrow DEF IInv
<1>2. Lockstep /\ Progress
  BY <1>1 DEF InTime
<1>3. CASE UNCHANGED vars
  BY <1>1, <1>3 DEF Prompt, NoFailure, HasLine, OnCard, Answering, Syncing, Whole, Right, arrived,
                    vars, devVars, hostVars, reqVars, workVars
<1>4. CASE Host
  BY <1>1, <1>2, <1>4, NoFailureHost, HasLineHost, OnCardHost, AnsweringHost DEF Prompt
<1>5. CASE StartSync \/ StartRm
  BY <1>1, <1>5, PromptStart
<1>6. CASE Device \/ SessionEnds \/ CardFixed
  BY <1>1, <1>2, <1>6, PromptBox
<1> QED
  BY <1>1, <1>3, <1>4, <1>5, <1>6 DEF Next
-----------------------------------------------------------------------------
(* The theorems *)

LEMMA IInvInit == Init => IInv
<1> SUFFICES ASSUME Init PROVE IInv
  OBVIOUS
<1>1. Base
  BY BaseInit
<1>2. InTime
  BY DEF Init, InTime, Lockstep, Progress, Verdicts, Clean
<1>3. Prompt
  BY DEF Init, Prompt, NoFailure, HasLine, OnCard, Answering, Syncing
<1> QED
  BY <1>1, <1>2, <1>3 DEF IInv

LEMMA IInvNext == IInv /\ [Next]_vars => IInv'
<1> SUFFICES ASSUME IInv, [Next]_vars PROVE IInv'
  OBVIOUS
<1>1. Base'
  BY BaseNext DEF IInv
<1>2. late' = 0 => InTime'
  BY InTimeNext DEF IInv
<1>3. late' + lost' + kills' = 0 => Prompt'
  BY PromptNext
<1> QED
  BY <1>1, <1>2, <1>3 DEF IInv

\* The state has its types and what the command waits for is what it asked for,
\* whatever was lost, late or killed (devlink.py _request, sync_sessions).
THEOREM Inductive == Spec => []IInv
<1>1. IInv /\ UNCHANGED vars => IInv'
  BY IInvNext
<1> QED
  BY IInvInit, IInvNext, <1>1, PTL DEF Spec

\* A file of the sessions directory is one that was there before, untouched, or
\* the device's, byte for byte; with late answers of a new one only the length is
\* sure and that read_log accepts it (devlink.py sync_sessions).
THEOREM Replicated == Spec => []ReplicaExact
<1>1. IInv => ReplicaExact
  <2> SUFFICES ASSUME IInv, NEW n \in Names
               PROVE  IF had[n] # Absent THEN final[n] = had[n]
                      ELSE \/ final[n] \in {Absent, Content[n]}
                           \/ /\ late > 0 /\ Len(final[n]) = Len(Content[n])
                              /\ final[n] \notin Unreadable
    BY DEF ReplicaExact
  <2>1. late = 0 \/ late > 0
    BY DEF IInv, Base, Types, Counts
  <2> QED
    BY <2>1 DEF IInv, Base, Kept, InTime, Verdicts
<1> QED
  BY <1>1, Inductive, PTL

\* With no answer late, "skipped" means equal and "CONFLICT" means different.
THEOREM ToldTruly == Spec => []VerdictsGenuine
<1>1. IInv => VerdictsGenuine
  BY DEF IInv, InTime, Verdicts, VerdictsGenuine
<1> QED
  BY <1>1, Inductive, PTL

\* With no fault, edrum sync does not fail: the sizes of the files, of the chunks
\* and of the .part files do not matter, nor what they hold.
THEOREM SyncsSucceed == Spec => []CleanSyncsSucceed
<1>1. IInv => CleanSyncsSucceed
  BY DEF IInv, Prompt, NoFailure, CleanSyncsSucceed
<1> QED
  BY <1>1, Inductive, PTL
=============================================================================
