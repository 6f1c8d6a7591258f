----------------------------- MODULE LogWriter -----------------------------
(***************************************************************************)
(* LogWriter (logwriter.cpp) and the card it writes to (sd_storage.h): one *)
(* record from the ring becomes one line of the open session file, and     *)
(* what has been synced survives a loss of power.                          *)
(*                                                                         *)
(* A call of handle() is made of its storage calls, a step each; each may  *)
(* fail, and power may go between any two of them.  A line weighs one unit *)
(* in place of its bytes; the diagnostic counters are left out.            *)
(***************************************************************************)
EXTENDS LogReader

CONSTANTS
  SyncEvery,   \* cfg_.sync_every_bytes, in lines
  Latch,       \* consecutive failed appends that declare the card dead: 3
  MaxFaults    \* bound: storage calls that fail

ASSUME WriterAssumption ==
  SyncEvery \in Nat \ {0} /\ Latch \in Nat \ {0} /\ MaxFaults \in Nat

VARIABLES
  files,     \* the card: every session file, in order of creation
  open,      \* open_; the open file is always the newest one
  failed,    \* failed_
  consec,    \* consec_write_errors_
  unsynced,  \* unsynced_bytes_
  cur,       \* the record handle() is working on
  step,      \* the storage call it makes next; "idle" between records
  faults     \* how many storage calls have failed so far

cardVars == <<files, faults>>
writerVars == <<open, failed, consec, unsynced, cur, step>>
logVars == <<cardVars, writerVars>>

NoLine == [kind |-> "none", sid |-> 0, t |-> 0]

WriterInit ==
  /\ open = FALSE /\ failed = FALSE /\ consec = 0 /\ unsynced = 0
  /\ cur = NoLine /\ step = "idle"

LogInit == files = <<>> /\ faults = 0 /\ WriterInit

MetaLine(sid) == [kind |-> "meta", sid |-> sid, t |-> 0]

-----------------------------------------------------------------------------
(* The card.  `durable' is what a file holds after a loss of power, and    *)
(* `clean' remembers that every append to it has succeeded.                *)

Fault == faults < MaxFaults /\ faults' = faults + 1
NoFault == faults' = faults

Newest == Len(files)

\* write() returned the whole length
AppendOk(line) ==
  /\ NoFault
  /\ files' = [files EXCEPT ![Newest].lines = Joined(@, line)]

\* write() returned less: nothing, or a piece of the line, is in the file
AppendFails(line) ==
  /\ Fault
  /\ \/ files' = [files EXCEPT ![Newest].clean = FALSE]
     \/ files' = [files EXCEPT
                    ![Newest].clean = FALSE,
                    ![Newest].lines = Joined(@, [line EXCEPT !.kind = "part"])]

MakeDurable == files' = [files EXCEPT ![Newest].durable = files[Newest].lines]

\* What a loss of power may leave of a file: what was synced, or more of what
\* was written since, cut anywhere, within a line too.
Cuts(f) ==
  LET kept == Len(f.durable)
      cut(k) == SubSeq(f.lines, 1, k)
      piece(k) == [f.lines[k] EXCEPT !.kind = "part"]
  IN  {f.durable} \cup {cut(k) : k \in kept..Len(f.lines)}
        \cup {Append(cut(k - 1), piece(k)) : k \in (kept + 1)..Len(f.lines)}

-----------------------------------------------------------------------------
(* Calls that several paths share; each goes on to the step `next'.        *)

\* sync_if_due once it is due: storage_.sync()
Sync(next) ==
  /\ step' = next
  /\ \/ NoFault /\ MakeDurable /\ unsynced' = 0
     \/ Fault /\ UNCHANGED <<files, unsynced>>
  /\ UNCHANGED <<open, failed, consec, cur>>

\* sync_if_due(true): no call with nothing pending
ForcedSync(next) ==
  \/ unsynced > 0 /\ Sync(next)
  \/ /\ unsynced = 0
     /\ step' = next
     /\ UNCHANGED <<cardVars, open, failed, consec, unsynced, cur>>

\* storage_.close() writes back what is pending; its result is not looked at
Close(next) ==
  /\ step' = next
  /\ open' = FALSE
  /\ (NoFault /\ MakeDurable) \/ (Fault /\ UNCHANGED files)
  /\ UNCHANGED <<consec, unsynced, cur>>

\* append_line of either kind of line.  Enough failures in a row have the file
\* closed and the writer latched (CloseDead).
AppendLine(line, next) ==
  /\ \/ /\ AppendOk(line)
        /\ consec' = 0
        /\ unsynced' = unsynced + 1
     \/ /\ AppendFails(line)
        /\ consec' = consec + 1
        /\ UNCHANGED unsynced
  /\ step' \in IF consec' >= Latch THEN {"closeDead"} ELSE next
  /\ UNCHANGED <<open, failed, cur>>

\* mutant: open_ survives the latch
CloseDeadStaysOpen ==
  /\ step = "closeDead"
  /\ step' = "idle"
  /\ (NoFault /\ MakeDurable) \/ (Fault /\ UNCHANGED files)
  /\ failed' = TRUE
  /\ UNCHANGED <<open, consec, unsynced, cur>>

CloseDead ==
  /\ step = "closeDead"
  /\ Close("idle")
  /\ failed' = TRUE

-----------------------------------------------------------------------------
(* handle(), with the record the storage task has popped.  A record that   *)
(* has no file is counted and discarded, whatever the reason.              *)

Handle(rec) ==
  /\ step = "idle"
  /\ \/ /\ rec.kind = "start"
        /\ step' = IF open THEN "syncOld" ELSE "create"
        /\ cur' = rec
     \/ /\ rec.kind # "start" /\ open
        /\ step' = "append"
        /\ cur' = rec
     \/ /\ rec.kind # "start" /\ ~ open
        /\ UNCHANGED <<step, cur>>
  /\ UNCHANGED <<cardVars, open, failed, consec, unsynced>>

\* open_session: a file that is still open is closed first
SyncOld == step = "syncOld" /\ ForcedSync("closeOld")
CloseOld == step = "closeOld" /\ Close("create") /\ UNCHANGED failed

\* mutant: a file that is there already is taken for the new one
CreateReuses ==
  /\ step = "create"
  /\ consec' = 0
  /\ NoFault
  /\ files' = IF files # <<>> THEN files
              ELSE <<[sid |-> cur.sid, lines |-> <<>>, durable |-> <<>>,
                      clean |-> TRUE]>>
  /\ open' = TRUE /\ failed' = FALSE /\ unsynced' = 0
  /\ step' = "meta"
  /\ UNCHANGED cur

\* mutant: the writer counts the file as open although it was not created
CreateUnchecked ==
  /\ step = "create"
  /\ consec' = 0
  /\ \/ /\ NoFault
        /\ files' = Append(files, [sid |-> cur.sid, lines |-> <<>>,
                                   durable |-> <<>>, clean |-> TRUE])
        /\ open' = TRUE /\ failed' = FALSE /\ unsynced' = 0
        /\ step' = "meta"
     \/ /\ Fault
        /\ open' = (files # <<>>)
        /\ failed' = TRUE
        /\ step' = "idle"
        /\ UNCHANGED <<files, unsynced>>
  /\ UNCHANGED cur

\* every new session tries the card again
Create ==
  /\ step = "create"
  /\ consec' = 0
  /\ \/ /\ NoFault
        /\ files' = Append(files, [sid |-> cur.sid, lines |-> <<>>,
                                   durable |-> <<>>, clean |-> TRUE])
        /\ open' = TRUE /\ failed' = FALSE /\ unsynced' = 0
        /\ step' = "meta"
     \/ /\ Fault
        /\ failed' = TRUE
        /\ step' = "idle"
        /\ UNCHANGED <<files, open, unsynced>>
  /\ UNCHANGED cur

AppendMeta == step = "meta" /\ AppendLine(MetaLine(cur.sid), {"syncMeta"})
SyncMeta == step = "syncMeta" /\ ForcedSync("idle")

\* A session_end closes the file; after anything else sync_if_due looks at the
\* bytes that are pending, and at the time, which may be up or not.
Due(pending) ==
  IF pending = 0 THEN {"idle"}
  ELSE IF pending >= SyncEvery THEN {"syncDue"}
  ELSE {"idle", "syncDue"}

AppendRecord ==
  /\ step = "append"
  /\ AppendLine(cur, IF cur.kind = "end" THEN {"syncEnd"} ELSE Due(unsynced'))

SyncDue == step = "syncDue" /\ Sync("idle")
SyncEnd == step = "syncEnd" /\ ForcedSync("closeEnd")
CloseEnd == step = "closeEnd" /\ Close("idle") /\ UNCHANGED failed

\* mutant: only the bytes count
IdleByBytes ==
  /\ step = "idle"
  /\ open /\ unsynced >= SyncEvery
  /\ step' = "syncDue"
  /\ UNCHANGED <<cardVars, open, failed, consec, unsynced, cur>>

\* idle(), when the ring is empty: the time is up for what is pending
Idle ==
  /\ step = "idle"
  /\ open /\ unsynced > 0
  /\ step' = "syncDue"
  /\ UNCHANGED <<cardVars, open, failed, consec, unsynced, cur>>

StorageCall ==
  \/ SyncOld \/ CloseOld \/ Create \/ AppendMeta \/ SyncMeta
  \/ AppendRecord \/ SyncDue \/ SyncEnd \/ CloseEnd \/ CloseDead
=============================================================================
