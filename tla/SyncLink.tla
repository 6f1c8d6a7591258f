------------------------------ MODULE SyncLink ------------------------------
(***************************************************************************)
(* edrum sync and edrum rm against the box (io/devlink.py, cli/main.py):   *)
(* one request at a time, resent after a timeout; the archive is           *)
(* replicated file by file into <name>.part and renamed when its checksum  *)
(* agrees.  Frames get lost, answers come late, the host's program is      *)
(* killed and started again.                                               *)
(***************************************************************************)
EXTENDS SyncDevice

CONSTANTS
  Unreadable,  \* contents that read_log refuses
  Local,       \* what the sessions directory may be at first
  Partial,     \* the .part files it may hold then
  Retries,     \* DeviceClient's retries
  MaxFaults,   \* bound: answers late, frames or requests lost and programs killed
  MaxRms       \* bound: edrum rm commands

ASSUME LinkAssumption ==
  Local \cup Partial \subseteq [Names -> Seq(Unit) \cup {Absent}]

VARIABLES
  job,      \* "sync", or the name that edrum rm is to delete
  pc,       \* where the command is; "off": it is not running
  req,      \* the request of _request(), or list_sessions()'s
  tries,    \* attempts made at it
  pending,  \* frames read and not yet taken up
  todo,     \* entries of the listing, first the one in hand
  goal,     \* what the checksum in progress is for
  offset,   \* the local of sync_sessions, or of file_crc
  crc,      \* the chained checksum so far
  final,    \* the sessions directory
  part,     \* its .part files
  report,   \* names by what became of them in this run
  result,   \* how the last command ended
  had,      \* history: the sessions directory at the beginning
  late, lost, kills, rms  \* how often so far; lost: on the line, or to the card

reqVars == <<req, tries, pending>>
fileVars == <<final, part, had>>
workVars == <<todo, goal, offset, crc>>
spent == <<late, lost, kills, rms>>
hostVars == <<job, pc, reqVars, workVars, fileVars, report, result>>
vars == <<devVars, wire, line, hostVars, spent>>

None == Plain("none")
Clean == [skipped |-> {}, conflicts |-> {}, fetched |-> {}]
entry == Head(todo)

Init ==
  /\ DeviceInit
  /\ job = "sync" /\ pc = "off" /\ req = None /\ tries = 0 /\ pending = <<>>
  /\ todo = <<>> /\ goal = "none" /\ offset = 0 /\ crc = <<>>
  /\ \E f \in Local, p \in Partial :
       /\ \A n \in Names : f[n] # Absent => p[n] = Absent
       /\ final = f /\ had = f /\ part = p
  /\ report = Clean /\ result = "none"
  /\ late = 0 /\ lost = 0 /\ kills = 0 /\ rms = 0

Faulty == late + lost + kills < MaxFaults

-----------------------------------------------------------------------------
(* The request layer *)

\* _request(), first attempt: what is pending is stale; what is still on the
\* line is not looked at
Ask(r) == wire' = Append(wire, r) /\ req' = r /\ tries' = 1 /\ pending' = <<>>

Quiet == req' = None /\ tries' = 0 /\ UNCHANGED <<wire, pending>>

\* A command is over.  Before it prints its report it has said BYE.
Finish(how) ==
  /\ pc' = "off" /\ result' = how
  /\ req' = None /\ tries' = 0 /\ pending' = <<>>
  /\ todo' = <<>> /\ goal' = "none" /\ offset' = 0 /\ crc' = <<>>
  /\ UNCHANGED wire

\* The port is opened, which empties its input; "sync" is typed to the console.
\* A program takes longer to start than pump_sync to see the end of its chunk.
Start(j) ==
  /\ pc = "off" /\ ~ over /\ job' = j /\ pc' = "hello"
  /\ line' = <<>> /\ pending' = <<>>
  /\ wire' = wire \o <<Wake, Plain("HELLO")>>
  /\ req' = Plain("HELLO") /\ tries' = 1
  /\ report' = Clean /\ result' = "none"
  /\ UNCHANGED <<devVars, workVars, fileVars>>

\* What has arrived in one burst
Read ==
  /\ req # None /\ pending = <<>>
  /\ \E k \in 1..Len(line) :
       pending' = SubSeq(line, 1, k) /\ line' = SubSeq(line, k + 1, Len(line))
  /\ UNCHANGED <<devVars, wire, job, pc, req, tries, workVars, fileVars, report, result, spent>>

\* No answer in time.  LIST is not asked again.
TimeOut ==
  /\ req # None /\ pending = <<>>
  /\ IF req.op # "LIST" /\ tries <= Retries
       THEN /\ wire' = Append(wire, req) /\ tries' = tries + 1
            /\ UNCHANGED <<pc, req, pending, workVars, result>>
       ELSE Finish("failed")
  /\ UNCHANGED <<devVars, line, job, fileVars, report>>

Silence == wire = <<>> /\ line = <<>>

\* The frame in hand, and whether it is of the type expected
Taken == Head(pending)
Expected == [HELLO |-> {"HELLO_OK"}, LIST |-> {"ITEM", "LIST_END"}, FETCH |-> {"DATA"},
             CRC |-> {"CRC_OK"}, DELETE |-> {"DELETE_OK"}, BYE |-> {"BYE_OK"}]
Answered(type) ==
  req # None /\ pending # <<>> /\ Taken.op = type /\ type \in Expected[req.op]

\* _check_err, or a type that was not expected: the exception ends the command,
\* and nobody says BYE
OnError ==
  /\ req # None /\ pending # <<>> /\ Taken.op \notin Expected[req.op]
  /\ Finish("failed")
  /\ UNCHANGED <<devVars, line, job, fileVars, report, spent>>

-----------------------------------------------------------------------------
(* The commands *)

OnHello ==
  /\ Answered("HELLO_OK")
  /\ CASE Taken.len = 0 -> Ask(Plain("BYE")) /\ pc' = "bye" /\ result' = "no storage"
       [] Taken.len # 0 /\ job = "sync" -> Ask(Plain("LIST")) /\ pc' = "list" /\ UNCHANGED result
       [] OTHER -> Ask(Frame("DELETE", job, 0, 0, <<>>)) /\ pc' = "delete" /\ UNCHANGED result
  /\ UNCHANGED <<devVars, line, job, workVars, fileVars, report, spent>>

OnItem ==
  /\ Answered("ITEM")
  /\ todo' = Append(todo, [name |-> Taken.name, size |-> Taken.len])
  /\ pending' = Tail(pending)
  /\ UNCHANGED <<devVars, wire, line, job, pc, req, tries, goal, offset, crc,
                 fileVars, report, result, spent>>

OnListEnd ==
  /\ Answered("LIST_END")
  /\ IF Taken.len # Len(todo)
       THEN Finish("failed")
       ELSE Quiet /\ pc' = "entry" /\ UNCHANGED <<workVars, result>>
  /\ UNCHANGED <<devVars, line, job, fileVars, report, spent>>

Sum(why) == goal' = why /\ crc' = <<>> /\ offset' = 0 /\ pc' = "crc"
Fetch(from) == pc' = "fetch" /\ offset' = from /\ UNCHANGED <<goal, crc>>
NextEntry == todo' = Tail(todo) /\ pc' = "entry" /\ UNCHANGED <<goal, crc, offset>>
Note(what) == report' = [report EXCEPT ![what] = @ \cup {entry.name}]

\* mutant: a .part may be longer than the file
UsableAnyLength(piece, size) == piece # Absent /\ piece # <<>>

\* 0 < len(existing) <= entry.size
Usable(piece, size) == piece # Absent /\ Len(piece) \in 1..size

\* sync_sessions: the head of its loop
TakeEntry ==
  /\ pc = "entry" /\ todo # <<>> /\ req = None
  /\ LET local == final[entry.name]
         piece == part[entry.name]
     IN \/ /\ local # Absent /\ Len(local) # entry.size
           /\ Note("conflicts") /\ NextEntry /\ UNCHANGED part
        \/ /\ local # Absent /\ Len(local) = entry.size
           /\ Sum("same") /\ UNCHANGED <<part, todo, report>>
        \/ /\ local = Absent /\ Usable(piece, entry.size)
           /\ Sum("resume") /\ UNCHANGED <<part, todo, report>>
        \/ /\ local = Absent /\ ~ Usable(piece, entry.size)
           /\ part' = [part EXCEPT ![entry.name] = <<>>]
           /\ Fetch(0) /\ UNCHANGED <<todo, report>>
  /\ UNCHANGED <<devVars, wire, line, job, reqVars, final, had, result, spent>>

\* What file_crc sums: the file, or a prefix as long as the .part
Summed(why) == IF why = "same" THEN final[entry.name] ELSE part[entry.name]

AskCrc ==
  /\ pc = "crc" /\ req = None /\ offset < Len(Summed(goal))
  /\ Ask(Frame("CRC", entry.name, offset, Min({CrcMax, Len(Summed(goal)) - offset}), crc))
  /\ UNCHANGED <<devVars, line, job, pc, workVars, fileVars, report, result, spent>>

OnCrc ==
  /\ Answered("CRC_OK")
  /\ crc' = Taken.data /\ offset' = offset + req.len
  /\ Quiet
  /\ UNCHANGED <<devVars, line, job, pc, todo, goal, fileVars, report, result, spent>>

\* mutant: only a file that was there before needs to agree
AgreeTrusting(why) == why # "same" \/ crc = Summed(why)

Agree(why) == crc = Summed(why)

\* file_crc is complete: compare, and go on as its caller does.  read_log's
\* refusal of the bytes is not a DeviceError: it ends the program.
Compare ==
  /\ pc = "crc" /\ req = None /\ offset = Len(Summed(goal))
  /\ LET same == Agree(goal) IN
       \/ /\ goal = "same"
          /\ Note(IF same THEN "skipped" ELSE "conflicts") /\ NextEntry
          /\ UNCHANGED <<wire, reqVars, final, part, result>>
       \/ /\ goal = "resume"
          /\ IF same THEN Fetch(Len(part[entry.name])) /\ UNCHANGED part
                     ELSE Fetch(0) /\ part' = [part EXCEPT ![entry.name] = <<>>]
          /\ UNCHANGED <<wire, reqVars, todo, final, report, result>>
       \/ /\ goal = "whole" /\ ~ same
          /\ part' = [part EXCEPT ![entry.name] = Absent]
          /\ Finish("failed") /\ UNCHANGED <<final, report>>
       \/ /\ goal = "whole" /\ same /\ part[entry.name] \in Unreadable
          /\ Finish("crashed") /\ UNCHANGED <<final, part, report>>
       \/ /\ goal = "whole" /\ same /\ part[entry.name] \notin Unreadable
          /\ final' = [final EXCEPT ![entry.name] = part[entry.name]]
          /\ part' = [part EXCEPT ![entry.name] = Absent]
          /\ Note("fetched") /\ NextEntry
          /\ UNCHANGED <<wire, reqVars, result>>
  /\ UNCHANGED <<devVars, line, job, had, spent>>

AskData ==
  /\ pc = "fetch" /\ req = None /\ offset < entry.size
  /\ Ask(Frame("FETCH", entry.name, offset, Min({FetchMax, entry.size - offset}), <<>>))
  /\ UNCHANGED <<devVars, line, job, pc, workVars, fileVars, report, result, spent>>

\* Empty data is the end of the file before its time
OnData ==
  /\ Answered("DATA")
  /\ IF Taken.data = <<>>
       THEN Finish("failed") /\ UNCHANGED part
       ELSE /\ part' = [part EXCEPT ![entry.name] = @ \o Taken.data]
            /\ offset' = offset + Len(Taken.data)
            /\ Quiet /\ UNCHANGED <<pc, todo, goal, crc, result>>
  /\ UNCHANGED <<devVars, line, job, final, had, report, spent>>

\* All of it has landed: the size first, then the checksum of the whole
Landed ==
  /\ pc = "fetch" /\ req = None /\ offset >= entry.size
  /\ IF Len(part[entry.name]) # entry.size
       THEN Finish("failed")
       ELSE Sum("whole") /\ UNCHANGED <<wire, reqVars, todo, result>>
  /\ UNCHANGED <<devVars, line, job, fileVars, report, spent>>

SayBye ==
  \/ /\ pc = "entry" /\ todo = <<>> /\ req = None
     /\ Ask(Plain("BYE")) /\ pc' = "bye"
     /\ UNCHANGED <<devVars, line, job, workVars, fileVars, report, result, spent>>
  \/ /\ Answered("DELETE_OK")
     /\ Ask(Plain("BYE")) /\ pc' = "bye"
     /\ UNCHANGED <<devVars, line, job, workVars, fileVars, report, result, spent>>

OnBye ==
  /\ Answered("BYE_OK")
  /\ Finish(IF result = "no storage" THEN result ELSE "ok")
  /\ UNCHANGED <<devVars, line, job, fileVars, report, spent>>

\* The program is killed or the host loses power: of the .part that is open for
\* writing any prefix may be left
Kill ==
  /\ pc # "off" /\ Faulty /\ kills' = kills + 1 /\ UNCHANGED <<late, lost, rms>>
  /\ Finish("killed")
  /\ \/ pc # "fetch" /\ UNCHANGED part
     \/ /\ pc = "fetch"
        /\ \E k \in 0..Len(part[entry.name]) :
             part' = [part EXCEPT ![entry.name] = SubSeq(@, 1, k)]
  /\ UNCHANGED <<devVars, line, job, final, had, report>>

-----------------------------------------------------------------------------
(* The system *)

\* As a rule the box has dealt with everything by the time the next command starts;
\* one that starts earlier meets the answers to its predecessor's requests.
StartSync == wire = <<>> /\ Start("sync") /\ UNCHANGED spent
StartHasty == /\ wire # <<>> /\ Start("sync")
              /\ Faulty /\ late' = late + 1 /\ UNCHANGED <<lost, kills, rms>>
StartRm == /\ wire = <<>> /\ \E n \in Names : Start(n)
           /\ rms < MaxRms /\ rms' = rms + 1 /\ UNCHANGED <<late, lost, kills>>

LateAnswer == /\ ~ Silence /\ TimeOut
              /\ Faulty /\ late' = late + 1 /\ UNCHANGED <<lost, kills, rms>>
NoAnswer == Silence /\ TimeOut /\ UNCHANGED spent

LoseFrame ==
  /\ Faulty /\ lost' = lost + 1 /\ UNCHANGED <<late, kills, rms>>
  /\ \/ wire # <<>> /\ wire' = Tail(wire) /\ UNCHANGED line
     \/ line # <<>> /\ line' = Tail(line) /\ UNCHANGED wire
  /\ UNCHANGED <<devVars, hostVars>>

\* A request that the card fails in is lost as well, but the host hears of it.
LoseRequest ==
  /\ CardFails
  /\ Faulty /\ lost' = lost + 1 /\ UNCHANGED <<hostVars, late, kills, rms>>

SessionEnds == CloseSession /\ UNCHANGED <<hostVars, spent>>

CardFixed ==
  /\ ~ storage_ok /\ storage_ok' = TRUE
  /\ UNCHANGED <<archive, open_name, sync_mode, over, wire, line, hostVars, spent>>

Host == Read \/ NoAnswer \/ OnError \/ OnHello \/ OnItem \/ OnListEnd \/ TakeEntry \/ AskCrc
          \/ OnCrc \/ Compare \/ AskData \/ OnData \/ Landed \/ SayBye \/ OnBye

Device == (Serve \/ Leave \/ IdleExit(pc = "off") \/ Console) /\ UNCHANGED <<hostVars, spent>>

Next ==
  \/ Host \/ StartSync \/ StartHasty \/ StartRm \/ LateAnswer \/ Kill
  \/ Device \/ SessionEnds \/ CardFixed
  \/ LoseFrame \/ LoseRequest

\* Both programs run; the player types edrum sync again and again, and has put a
\* card in.
Spec == Init /\ [][Next]_vars /\ WF_vars(Host) /\ WF_vars(StartSync) /\ WF_vars(Device)
             /\ WF_vars(CardFixed)

-----------------------------------------------------------------------------
\* Whatever is lost or left over from a killed run, a file of the sessions directory
\* is one that was there before, untouched, or the device's, byte for byte.  Late
\* answers touch no file that was there before either, but a checksum may then be
\* the answer to another request: of a new file only the length is sure, and that
\* read_log accepts it.
ReplicaExact ==
  \A n \in Names :
    IF had[n] # Absent THEN final[n] = had[n]
    ELSE \/ final[n] \in {Absent, Content[n]}
         \/ late > 0 /\ Len(final[n]) = Len(Content[n]) /\ final[n] \notin Unreadable

\* Unless an answer came late, "skipped" means that the files agree and "CONFLICT"
\* that they differ.  With a late answer an identical file may be called a conflict.
VerdictsGenuine ==
  late = 0 =>
    /\ \A n \in report.skipped : final[n] = Content[n]
    /\ \A n \in report.conflicts : final[n] # Content[n]

\* With no fault edrum sync never fails, but for want of a card, however the sizes
\* of the files sit on the chunks and whatever the .part files hold.
CleanSyncsSucceed ==
  result = "failed" /\ late + lost + kills = 0 => job # "sync"

\* Sync converges: what is closed and still on the card gets to the sessions
\* directory in the end, whatever the .part files held at first.
Converges ==
  \A n \in Names : []<>(final[n] # Absent \/ archive[n] = Absent \/ open_name = n)

\* One file that read_log refuses does not keep the others from being replicated.
OthersConverge ==
  \A n \in {m \in Names : Content[m] \notin Unreadable} :
    []<>(final[n] # Absent \/ archive[n] = Absent \/ open_name = n)
=============================================================================
