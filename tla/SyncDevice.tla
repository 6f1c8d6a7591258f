----------------------------- MODULE SyncDevice -----------------------------
(***************************************************************************)
(* The capture box's side of the sync protocol: SyncService::handle        *)
(* (sync_service.cpp), the pump around it (storage_task.cpp) and the       *)
(* console that hands the line over (console.cpp).                         *)
(*                                                                         *)
(* A file is a sequence of units.  The CRC of units is the sequence        *)
(* itself: it chains over chunks and never collides, which is what the     *)
(* protocol takes CRC-16 for.  Frames that arrive damaged are dropped by   *)
(* either FrameAccumulator, so a frame on the way is whole or lost.        *)
(***************************************************************************)
EXTENDS Naturals, Sequences, SequencesExt, FiniteSetsExt, Ascending

CONSTANTS
  Order,     \* the files' names in the order of the card's directory
  Content,   \* what each closed file holds
  FetchMax,  \* kFetchMax, in units
  CrcMax,    \* kCrcChunkMax, in units
  ListMax    \* kListMax

Names == Range(Order)
Unit == Nat \ {0}
Absent == <<0>>  \* no file; 0 is no unit
NoName == "-"

ASSUME DeviceAssumption ==
  /\ Order \in Seq(Names) /\ "sync" \notin Names
  /\ Content \in [Names -> Seq(Unit)]
  /\ FetchMax \in Nat \ {0} /\ CrcMax \in Nat \ {0}

VARIABLES
  archive,    \* what the card holds of each name, or Absent
  open_name,  \* the session that is being written, or NoName
  storage_ok, \* the card is there and the writer has not failed
  sync_mode,  \* the line belongs to the framed protocol
  over,       \* pump_sync has seen BYE in the bytes it is working through
  wire,       \* from the host: frames, and the word "sync"
  line        \* to the host: frames

devVars == <<archive, open_name, storage_ok, sync_mode, over>>

\* One shape for all frames; a field that a type does not have is zero or empty.
Frame(op, name, off, len, data) ==
  [op |-> op, name |-> name, off |-> off, len |-> len, data |-> data]
Plain(op) == Frame(op, NoName, 0, 0, <<>>)
Wake == Plain("sync")
Err(why) == Frame("ERR", why, 0, 0, <<>>)

Part(c, off, len) == SubSeq(c, off + 1, Min({off + len, Len(c)}))

-----------------------------------------------------------------------------
(* SyncService::handle *)

\* LIST: at most ListMax names of the directory, less the open session
Listed ==
  LET here == {i \in DOMAIN Order : archive[Order[i]] # Absent}
      read == {i \in here : Cardinality({j \in here : j < i}) < ListMax}
      at == Sorted({i \in read : Order[i] # open_name})
  IN  [k \in DOMAIN at |-> Order[at[k]]]

Listing ==
  LET Item(n) == Frame("ITEM", n, 0, Len(archive[n]), <<>>)
  IN  [i \in DOMAIN Listed |-> Item(Listed[i])]
        \o <<Frame("LIST_END", NoName, 0, Len(Listed), <<>>)>>

FetchAnswer(r) ==
  IF archive[r.name] = Absent THEN Err("UNKNOWN_NAME")
  ELSE IF r.off > Len(archive[r.name]) THEN Err("BAD_RANGE")
  ELSE Frame("DATA", NoName, 0, 0, Part(archive[r.name], r.off, Min({r.len, FetchMax})))

\* mutant: the chunk that ends with the file is out of range
CrcAnswerOffByOne(r) ==
  LET span == Min({r.len, CrcMax})
  IN  IF archive[r.name] = Absent THEN Err("UNKNOWN_NAME")
      ELSE IF r.off + span >= Len(archive[r.name]) THEN Err("BAD_RANGE")
      ELSE Frame("CRC_OK", NoName, 0, 0, r.data \o Part(archive[r.name], r.off, span))

\* mutant: the seed is not carried on, each chunk is summed afresh
CrcAnswerUnseeded(r) ==
  LET span == Min({r.len, CrcMax})
  IN  IF archive[r.name] = Absent THEN Err("UNKNOWN_NAME")
      ELSE IF r.off + span > Len(archive[r.name]) THEN Err("BAD_RANGE")
      ELSE Frame("CRC_OK", NoName, 0, 0, Part(archive[r.name], r.off, span))

CrcAnswer(r) ==
  LET span == Min({r.len, CrcMax})
  IN  IF archive[r.name] = Absent THEN Err("UNKNOWN_NAME")
      ELSE IF r.off + span > Len(archive[r.name]) THEN Err("BAD_RANGE")
      ELSE Frame("CRC_OK", NoName, 0, 0, r.data \o Part(archive[r.name], r.off, span))

DeleteAnswer(r) ==
  IF r.name = open_name THEN Err("SESSION_OPEN")
  ELSE IF archive[r.name] = Absent THEN Err("UNKNOWN_NAME")
  ELSE Plain("DELETE_OK")

\* The frames that answer a request; the word "sync" is noise between frames
Answers(r) ==
  CASE r.op = "sync"  -> <<>>
    [] r.op = "HELLO" -> <<Frame("HELLO_OK", NoName, 0, IF storage_ok THEN 1 ELSE 0, <<>>)>>
    [] r.op = "BYE"   -> <<Plain("BYE_OK")>>
    [] r.op \notin {"sync", "HELLO", "BYE"} /\ ~ storage_ok -> <<Err("STORAGE_FAILED")>>
    [] r.op = "LIST" /\ storage_ok -> Listing
    [] r.op = "FETCH" /\ storage_ok -> <<FetchAnswer(r)>>
    [] r.op = "CRC" /\ storage_ok -> <<CrcAnswer(r)>>
    [] r.op = "DELETE" /\ storage_ok -> <<DeleteAnswer(r)>>

\* pump_sync: one frame of the chunk it has read
Serve ==
  /\ sync_mode /\ wire # <<>>
  /\ LET r == Head(wire) IN
       /\ line' = line \o Answers(r)
       /\ archive' = IF r.op = "DELETE" /\ storage_ok /\ DeleteAnswer(r).op = "DELETE_OK"
                       THEN [archive EXCEPT ![r.name] = Absent] ELSE archive
       /\ over' = (over \/ r.op = "BYE")
  /\ wire' = Tail(wire)
  /\ UNCHANGED <<open_name, storage_ok, sync_mode>>

\* In the middle of a request that storage_ok has let through the card fails.  (If
\* it is the file's size that cannot be had, the ERR says UNKNOWN_NAME.)
CardFails ==
  /\ sync_mode /\ wire # <<>> /\ storage_ok
  /\ Head(wire).op \in {"LIST", "FETCH", "CRC", "DELETE"}
  /\ Answers(Head(wire))[1].op # "ERR"
  /\ line' = Append(line, Err("STORAGE_FAILED"))
  /\ wire' = Tail(wire)
  /\ UNCHANGED <<archive, open_name, storage_ok, sync_mode, over>>

\* The end of a chunk with BYE in it
Leave ==
  /\ sync_mode /\ over
  /\ sync_mode' = FALSE /\ over' = FALSE
  /\ UNCHANGED <<archive, open_name, storage_ok, wire, line>>

\* kSyncIdleTimeoutMs without a byte: longer than any silence of a running host
IdleExit(quiet) ==
  /\ sync_mode /\ wire = <<>> /\ quiet
  /\ sync_mode' = FALSE /\ over' = FALSE
  /\ UNCHANGED <<archive, open_name, storage_ok, wire, line>>

\* console_poll: frames are unknown commands there
Console ==
  /\ ~ sync_mode /\ wire # <<>>
  /\ sync_mode' = (Head(wire) = Wake)
  /\ wire' = Tail(wire)
  /\ UNCHANGED <<archive, open_name, storage_ok, over, line>>

\* The session that was being recorded ends and its file is closed
CloseSession ==
  /\ open_name # NoName /\ open_name' = NoName
  /\ UNCHANGED <<archive, storage_ok, sync_mode, over, wire, line>>

DeviceInit ==
  /\ archive = Content /\ open_name \in {NoName, Order[1]}
  /\ storage_ok \in BOOLEAN
  /\ sync_mode = FALSE /\ over = FALSE
  /\ wire = <<>> /\ line = <<>>
=============================================================================
