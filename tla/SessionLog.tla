----------------------------- MODULE SessionLog -----------------------------
(***************************************************************************)
(* From the capture task to the card and back to the brain: sessions as    *)
(* SessionProtocol promises them, the ring between the cores as            *)
(* BoundedFifo promises it, the writer behind it (storage_task.cpp), loss  *)
(* of power at any moment, and read_log on whatever the card then holds.   *)
(***************************************************************************)
EXTENDS SessionProtocol, BoundedFifo, LogWriter

CONSTANTS
  MaxSessions,  \* bound: sessions that are begun
  MaxCrashes    \* bound: losses of power

ASSUME LogAssumption ==
  /\ Time \subseteq Nat /\ 0 \in Time
  /\ N \in Nat /\ MaxSessions \in Nat /\ MaxCrashes \in Nat

VARIABLES
  session,  \* the number of the latest session, its id
  dropped,  \* a record has been refused by the ring
  crashes   \* losses of power so far

vars == <<protoVars, fifoVars, logVars, session, dropped, crashes>>

Init ==
  /\ ProtoInit /\ FifoInit /\ LogInit
  /\ session = 0 /\ dropped = FALSE /\ crashes = 0

\* The capture task's stream; a record is known by its session and its stamp,
\* which therefore counts the session's records here.
Emit ==
  \/ Begin /\ session < MaxSessions /\ session' = session + 1
  \/ Record /\ mark' = mark + 1 /\ UNCHANGED session
  \/ End /\ mark' = mark + 1 /\ UNCHANGED session

\* mutant: a refusal leaves no trace
PushSilent ==
  /\ Emit
  /\ Accept([kind |-> sent'.kind, sid |-> session', t |-> sent'.t]) \/ Refuse
  /\ UNCHANGED <<logVars, dropped, crashes>>

\* SessionController::push into the ring: a refusal is only counted
Push ==
  /\ Emit
  /\ \/ /\ Accept([kind |-> sent'.kind, sid |-> session', t |-> sent'.t])
        /\ UNCHANGED dropped
     \/ Refuse /\ dropped' = TRUE
  /\ UNCHANGED <<logVars, crashes>>

\* storage_task: pop a record and handle it; idle() when there is none
Drain ==
  /\ Take /\ Handle(Head(q))
  /\ UNCHANGED <<protoVars, session, dropped, crashes>>

Rest ==
  /\ q = <<>> /\ Idle
  /\ UNCHANGED <<protoVars, fifoVars, session, dropped, crashes>>

Store ==
  /\ StorageCall
  /\ UNCHANGED <<protoVars, fifoVars, session, dropped, crashes>>

\* Everything but the card starts afresh.
PowerLoss ==
  /\ crashes < MaxCrashes
  /\ crashes' = crashes + 1
  /\ \E left \in [DOMAIN files -> UNION {Cuts(files[i]) : i \in DOMAIN files}] :
       /\ \A i \in DOMAIN files : left[i] \in Cuts(files[i])
       /\ files' = [i \in DOMAIN files |->
                      [files[i] EXCEPT !.lines = left[i], !.durable = left[i]]]
  /\ live' = FALSE /\ mark' = 0 /\ sent' = Nothing
  /\ q' = <<>> /\ got' = {} /\ verdict' = "none"
  /\ open' = FALSE /\ failed' = FALSE /\ consec' = 0 /\ unsynced' = 0
  /\ cur' = NoLine /\ step' = "idle"
  /\ UNCHANGED <<faults, session, dropped>>

StorageTask == Drain \/ Rest \/ Store

Next == Push \/ StorageTask \/ PowerLoss

\* The storage task's loop runs for ever; idle() comes round every poll, so
\* sync_every_ms does run out.
Spec == Init /\ [][Next]_vars /\ WF_vars(StorageTask)

-----------------------------------------------------------------------------
Kinds == {"none", "start", "body", "end", "meta", "part", "junk"}
Line == [kind : Kinds, sid : 0..MaxSessions, t : Time]

TypeOK ==
  /\ \A i \in DOMAIN files :
       /\ files[i].sid \in 1..MaxSessions /\ files[i].clean \in BOOLEAN
       /\ \A k \in DOMAIN files[i].lines : files[i].lines[k] \in Line
  /\ {open, failed, live, dropped} \subseteq BOOLEAN
  /\ consec \in 0..Latch /\ unsynced \in Nat
  /\ cur \in Line
  /\ Len(q) <= N

\* Crash recovery.  Unless an append failed, a file whose meta line has reached
\* the card is a session log for read_log at any moment and after any loss of
\* power: what is damaged is at most its tail.
CleanLogsRecover ==
  \A i \in DOMAIN files :
    LET f == files[i] IN
    f.clean /\ f.durable # <<>> /\ f.durable[1].kind = "meta" =>
      Verdict(f.lines) = "ok"

\* A log is one session's records, in order and without a gap, from the first
\* to wherever it stops, and session_end is its last line, as long as the ring
\* has refused nothing: files never mix sessions, whatever fails.
LogsHoldOneSession ==
  \A i \in DOMAIN files :
    LET f == files[i] IN
    ~ dropped /\ f.clean =>
      \A k \in 2..Len(Complete(f.lines)) :
        LET line == f.lines[k] IN
        /\ line.sid = f.sid /\ line.t = k - 1
        /\ line.kind = "end" => k = Len(f.lines)

\* Nothing is lost between the capture task and the card without a sign: with
\* no refusal and no fault, once the storage task has caught up the newest log
\* holds every record of the session so far.
CaughtUpMeansComplete ==
  (live \/ mark > 0) /\ ~ dropped /\ faults = 0 /\ q = <<>> /\ step = "idle" =>
    /\ files[Newest].sid = session
    /\ Len(files[Newest].lines) = mark + 1

\* While the writer is latched it leaves the card alone.
FailSoft == [][failed /\ failed' => UNCHANGED files]_vars

\* What is pending in an open file is synced, or the file closed, in the end,
\* even if nothing more is ever played.
EventuallyDurable == (open /\ unsynced > 0) ~> (unsynced = 0 \/ ~ open)

\* logwriter.h: "after power loss the file is valid up to the last synced line
\* by construction".
SyncedLinesAreValid ==
  \A i \in DOMAIN files :
    Complete(files[i].durable) # <<>> => Verdict(files[i].durable) = "ok"
=============================================================================
