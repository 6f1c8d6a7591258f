----------------------------- MODULE SessionFsm -----------------------------
(***************************************************************************)
(* SessionController (session_fsm.cpp): the state machine of the capture   *)
(* task that turns hits, controller messages, declarations and silence     *)
(* into the records of a session.                                          *)
(*                                                                         *)
(* A call is made of steps, each of which hands at most one record to the  *)
(* sink (`out'), since the ring may be drained or be full between any two  *)
(* pushes of one call.  The sink's answer only feeds a counter, so it is   *)
(* not an input of this module.  Times are clock microseconds; the time a  *)
(* call is made with is a parameter of its action.                         *)
(***************************************************************************)
EXTENDS Integers

CONSTANTS
  Ref,      \* profile references; one of them is the anonymous one
  Ctrl,     \* controllers with a cached state: a CC number, program, channel
            \* pressure or pitch wheel of some channel
  Val,      \* their values
  Unset,    \* a controller nothing has been heard of
  PauseMs,  \* cfg_.pause_after_ms
  IdleMs,   \* cfg_.idle_end_ms
  UsPerMs,  \* 1000
  U32, U64  \* 2^32 and 2^64

ASSUME FsmAssumption ==
  /\ Unset \notin Val
  /\ PauseMs \in Nat /\ IdleMs \in Nat
  /\ UsPerMs \in Nat \ {0}
  /\ U32 \in Nat \ {0} /\ U64 \in Nat /\ U32 <= U64

VARIABLES
  in_session, paused, grid_open, enroll_open, enroll_ref,
  session_start_us, last_event_us, last_activity_us, last_t,
  cache,   \* cc_val_, pc_val_, at_val_, pw_val_ where the *_set_ bit is set
  dirty,   \* the *_dirty_ bits
  pc,      \* how far the call in progress is; "ready" between calls
  call,    \* that call's operation and arguments
  left,    \* what flush_cache has still to write
  out      \* the record this step hands to the sink

spanVars == <<grid_open, enroll_open, enroll_ref>>
timeVars == <<session_start_us, last_event_us, last_activity_us, last_t>>
cacheVars == <<cache, dirty, left>>
fsmVars == <<in_session, paused, spanVars, timeVars, cacheVars, pc, call, out>>

NoRec == [type |-> "None", t |-> 0]
NoCall == [op |-> "None", now |-> 0]

FsmInit ==
  /\ in_session = FALSE /\ paused = FALSE
  /\ grid_open = FALSE /\ enroll_open = FALSE /\ enroll_ref \in Ref
  /\ session_start_us = 0 /\ last_event_us = 0 /\ last_activity_us = 0
  /\ last_t = 0
  /\ cache = [c \in Ctrl |-> Unset] /\ dirty = {} /\ left = {}
  /\ pc = "ready" /\ call = NoCall /\ out = NoRec

-----------------------------------------------------------------------------
(* Arithmetic of the timeline *)

\* uint64_t subtraction
Since(now, then) == IF now >= then THEN now - then ELSE now - then + U64

Elapsed(now, then) == Since(now, then) \div UsPerMs

\* stamp(): clamped to the previous stamp, then cut to 32 bits
Stamp(now) ==
  LET t == Elapsed(now, session_start_us)
  IN  (IF t < last_t THEN last_t ELSE t) % U32

\* rel_ms(): a reference into the timeline, floored at the session's start
RelMsUnfloored(us) ==    \* mutant
  (Since(us, session_start_us) \div UsPerMs) % U32

RelMs(us) ==
  (IF us < session_start_us THEN 0 ELSE (us - session_start_us) \div UsPerMs) % U32

\* trig_span(): the bracket of the hits a gesture was made of, if it was one
TrigSpan(trig) == [i \in DOMAIN trig |-> RelMs(trig[i])]

-----------------------------------------------------------------------------
(* Steps that several calls share *)

NoTrig == <<>>

\* A plain record stamped with the time of the call.
Emit(type, now, trig) ==
  /\ last_t' = Stamp(now)
  /\ out' = [type |-> type, t |-> Stamp(now), trig |-> TrigSpan(trig)]

Return == pc' = "ready" /\ call' = NoCall

\* mutant: the stamp of the session before is kept
EnsureSessionKeepsStamp ==
  /\ pc = "start"
  /\ session_start_us' = call.now
  /\ last_event_us' = call.now
  /\ last_activity_us' = call.now
  /\ paused' = FALSE
  /\ in_session' = TRUE
  /\ out' = [type |-> "SessionStart", t |-> 0]
  /\ left' = {c \in Ctrl : cache[c] # Unset}
  /\ pc' = "flush"
  /\ UNCHANGED <<spanVars, last_t, cache, dirty, call>>

\* mutant: the baseline ignores which controllers have been heard of
EnsureSessionFlushesAll ==
  /\ pc = "start"
  /\ session_start_us' = call.now
  /\ last_event_us' = call.now
  /\ last_activity_us' = call.now
  /\ last_t' = 0
  /\ paused' = FALSE
  /\ in_session' = TRUE
  /\ out' = [type |-> "SessionStart", t |-> 0]
  /\ left' = Ctrl
  /\ pc' = "flush"
  /\ UNCHANGED <<spanVars, cache, dirty, call>>

\* ensure_session, up to its flush_cache
EnsureSession ==
  /\ pc = "start"
  /\ session_start_us' = call.now
  /\ last_event_us' = call.now
  /\ last_activity_us' = call.now
  /\ last_t' = 0
  /\ paused' = FALSE
  /\ in_session' = TRUE
  /\ out' = [type |-> "SessionStart", t |-> 0]
  /\ left' = {c \in Ctrl : cache[c] # Unset}
  /\ pc' = "flush"
  /\ UNCHANGED <<spanVars, cache, dirty, call>>

\* flush_cache: one record per wanted controller, all with the stamp that is
\* in last_t (0 at the start of a session, the resuming hit's otherwise).  The
\* order of the loop over channels and kinds is left open.
FlushOne ==
  /\ pc = "flush"
  /\ \E c \in left :
       /\ out' = [type |-> "Ctrl", t |-> last_t, ctrl |-> c, val |-> cache[c]]
       /\ left' = left \ {c}
  /\ UNCHANGED <<in_session, paused, spanVars, timeVars, cache, dirty, pc, call>>

\* mutant: the end of a pause rebases the timeline
FlushRebases ==
  /\ pc = "flush"
  /\ left = {}
  /\ dirty' = {}
  /\ paused' = FALSE
  /\ session_start_us' = call.now
  /\ pc' = "body"
  /\ out' = NoRec
  /\ UNCHANGED <<in_session, spanVars, last_event_us, last_activity_us, last_t,
                 cache, left, call>>

FlushDone ==
  /\ pc = "flush"
  /\ left = {}
  /\ dirty' = {}
  /\ paused' = FALSE
  /\ pc' = "body"
  /\ out' = NoRec
  /\ UNCHANGED <<in_session, spanVars, timeVars, cache, left, call>>

\* mutant: grid_end forgets to note that the span is closed
CloseGridForgets(now, trig) ==
  /\ grid_open
  /\ Emit("GridEnd", now, trig)
  /\ last_activity_us' = now
  /\ UNCHANGED <<in_session, paused, spanVars, session_start_us,
                 last_event_us, cacheVars>>

\* grid_end and enroll_end with a span open
CloseGrid(now, trig) ==
  /\ grid_open
  /\ Emit("GridEnd", now, trig)
  /\ grid_open' = FALSE
  /\ last_activity_us' = now
  /\ UNCHANGED <<in_session, paused, enroll_open, enroll_ref,
                 session_start_us, last_event_us, cacheVars>>

CloseEnroll(now, trig) ==
  /\ enroll_open
  /\ Emit("EnrollEnd", now, trig)
  /\ enroll_open' = FALSE
  /\ last_activity_us' = now
  /\ UNCHANGED <<in_session, paused, grid_open, enroll_ref,
                 session_start_us, last_event_us, cacheVars>>

-----------------------------------------------------------------------------
(* Hits and declarations.  A call that needs a session goes through        *)
(* ensure_session first; its own record is the last step, in "body".       *)

Enter(request) ==
  /\ pc = "ready"
  /\ call' = request
  /\ pc' = IF in_session THEN "body" ELSE "start"
  /\ out' = NoRec
  /\ UNCHANGED <<in_session, paused, spanVars, timeVars, cacheVars>>

\* mutant: a hit does not end a pause
OnEventUnpaused(now) == Enter([op |-> "Event", now |-> now])

\* on_event: a hit that ends a pause first writes what changed during it
OnEvent(now) ==
  \/ /\ ~ (in_session /\ paused)
     /\ Enter([op |-> "Event", now |-> now])
  \/ /\ in_session /\ paused
     /\ pc = "ready"
     /\ call' = [op |-> "Event", now |-> now]
     /\ last_t' = Stamp(now)
     /\ left' = dirty
     /\ pc' = "flush"
     /\ out' = NoRec
     /\ UNCHANGED <<in_session, paused, spanVars, session_start_us,
                    last_event_us, last_activity_us, cache, dirty>>

EventBody ==
  /\ pc = "body" /\ call.op = "Event"
  /\ Emit("Event", call.now, NoTrig)
  /\ last_event_us' = call.now
  /\ last_activity_us' = call.now
  /\ Return
  /\ UNCHANGED <<in_session, paused, spanVars, session_start_us, cacheVars>>

Bookmark(now, trig) ==
  Enter([op |-> "Bookmark", now |-> now, trig |-> trig])

BookmarkBody ==
  /\ pc = "body" /\ call.op = "Bookmark"
  /\ Emit("Bookmark", call.now, call.trig)
  /\ last_activity_us' = call.now
  /\ Return
  /\ UNCHANGED <<in_session, paused, spanVars, session_start_us,
                 last_event_us, cacheVars>>

\* A grid_start inside an open span is the re-declaration of a tempo change.
GridStart(now, click, downbeat_us, trig) ==
  Enter([op |-> "GridStart", now |-> now, trig |-> trig,
         click |-> click, downbeat |-> downbeat_us])

GridStartBody ==
  /\ pc = "body" /\ call.op = "GridStart"
  /\ last_t' = Stamp(call.now)
  /\ out' = [type |-> "GridStart", t |-> Stamp(call.now),
             trig |-> TrigSpan(call.trig),
             click |-> call.click, downbeat |-> RelMs(call.downbeat)]
  /\ grid_open' = TRUE
  /\ last_activity_us' = call.now
  /\ Return
  /\ UNCHANGED <<in_session, paused, enroll_open, enroll_ref,
                 session_start_us, last_event_us, cacheVars>>

GridEnd(now, trig) ==
  /\ pc = "ready"
  /\ in_session
  /\ CloseGrid(now, trig)
  /\ UNCHANGED <<pc, call>>

EnrollStart(now, ref, click, downbeat_us, trig) ==
  Enter([op |-> "EnrollStart", now |-> now, trig |-> trig, ref |-> ref,
         click |-> click, downbeat |-> downbeat_us])

\* the span that is still open is closed first, without a trigger
EnrollStartClosesOld ==
  /\ pc = "body" /\ call.op = "EnrollStart"
  /\ CloseEnroll(call.now, NoTrig)
  /\ UNCHANGED <<pc, call>>

EnrollStartBody ==
  /\ pc = "body" /\ call.op = "EnrollStart"
  /\ ~ enroll_open
  /\ last_t' = Stamp(call.now)
  /\ out' = [type |-> "EnrollStart", t |-> Stamp(call.now),
             trig |-> TrigSpan(call.trig), ref |-> call.ref,
             click |-> call.click, downbeat |-> RelMs(call.downbeat)]
  /\ enroll_open' = TRUE
  /\ enroll_ref' = call.ref
  /\ last_activity_us' = call.now
  /\ Return
  /\ UNCHANGED <<in_session, paused, grid_open, session_start_us,
                 last_event_us, cacheVars>>

EnrollEnd(now, trig) ==
  /\ pc = "ready"
  /\ in_session
  /\ CloseEnroll(now, trig)
  /\ UNCHANGED <<pc, call>>

-----------------------------------------------------------------------------
(* The end of a session: asked for, or found by tick() *)

EndSession(now) ==
  /\ pc = "ready"
  /\ in_session
  /\ pc' = "end"
  /\ call' = [op |-> "EndSession", now |-> now]
  /\ out' = NoRec
  /\ UNCHANGED <<in_session, paused, spanVars, timeVars, cacheVars>>

EndClosesGrid ==
  /\ pc = "end"
  /\ CloseGrid(call.now, NoTrig)
  /\ UNCHANGED <<pc, call>>

EndClosesEnroll ==
  /\ pc = "end" /\ ~ grid_open
  /\ CloseEnroll(call.now, NoTrig)
  /\ UNCHANGED <<pc, call>>

\* mutant: the enrollment may still be open
EndMarkEarly ==
  /\ pc = "end" /\ ~ grid_open
  /\ Emit("SessionEnd", call.now, NoTrig)
  /\ in_session' = FALSE
  /\ paused' = FALSE
  /\ Return
  /\ UNCHANGED <<spanVars, session_start_us, last_event_us, last_activity_us,
                 cacheVars>>

\* the controller cache survives: the next session starts with it
EndMark ==
  /\ pc = "end" /\ ~ grid_open /\ ~ enroll_open
  /\ Emit("SessionEnd", call.now, NoTrig)
  /\ in_session' = FALSE
  /\ paused' = FALSE
  /\ Return
  /\ UNCHANGED <<spanVars, session_start_us, last_event_us, last_activity_us,
                 cacheVars>>

\* Both limits are tested on every tick; reaching the idle one calls
\* end_session.  Without a session a tick does nothing.
Tick(now) ==
  /\ pc = "ready"
  /\ in_session
  /\ paused' = (paused \/ Elapsed(now, last_event_us) >= PauseMs)
  /\ IF Elapsed(now, last_activity_us) >= IdleMs
       THEN pc' = "end" /\ call' = [op |-> "EndSession", now |-> now]
       ELSE UNCHANGED <<pc, call>>
  /\ out' = NoRec
  /\ UNCHANGED <<in_session, spanVars, timeVars, cacheVars>>

-----------------------------------------------------------------------------
(* Controller traffic *)

\* on_ctrl with a cacheable message (cache_update): written through while
\* music is being recorded, otherwise only remembered
OnCtrl(now, c, v) ==
  /\ pc = "ready"
  /\ cache' = [cache EXCEPT ![c] = v]
  /\ \/ /\ in_session /\ ~ paused
        /\ dirty' = dirty \ {c}
        /\ last_t' = Stamp(now)
        /\ out' = [type |-> "Ctrl", t |-> Stamp(now), ctrl |-> c, val |-> v]
     \/ /\ ~ (in_session /\ ~ paused)
        /\ dirty' = dirty \cup {c}
        /\ out' = NoRec
        /\ UNCHANGED last_t
  /\ UNCHANGED <<in_session, paused, spanVars, session_start_us,
                 last_event_us, last_activity_us, left, pc, call>>

\* on_ctrl with any other message, and on_sysex: recorded in a session,
\* even a paused one, and counted and dropped outside
OnRaw(now) ==
  /\ pc = "ready"
  /\ in_session
  /\ Emit("Raw", now, NoTrig)
  /\ UNCHANGED <<in_session, paused, spanVars, session_start_us,
                 last_event_us, last_activity_us, cacheVars, pc, call>>

\* The steps of a call in progress
Continue ==
  \/ EnsureSession \/ FlushOne \/ FlushDone
  \/ EventBody \/ BookmarkBody \/ GridStartBody
  \/ EnrollStartClosesOld \/ EnrollStartBody
  \/ EndClosesGrid \/ EndClosesEnroll \/ EndMark
=============================================================================
