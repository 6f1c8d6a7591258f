------------------------------- MODULE Click -------------------------------
(***************************************************************************)
(* ClickScheduler (click_sched.h): beat n of a running click is at         *)
(* start + n * 60e6 / bpm, rounded to the nearest microsecond.             *)
(***************************************************************************)
EXTENDS Integers

CONSTANT BeatUnit  \* 60000000: the microseconds of a beat at 1 bpm

Start(now, bpm) == [running |-> TRUE, bpm |-> bpm, start |-> now]

\* What stop() leaves of the last click is not read before the next one.
Silent == [running |-> FALSE, bpm |-> 1, start |-> 0]

BeatUs(c, n) == c.start + (n * BeatUnit + c.bpm \div 2) \div c.bpm

\* mutant: rounds the other way
EdgeBefore(c, now) ==
  IF now <= c.start THEN c.start
  ELSE BeatUs(c, ((now - c.start) * c.bpm) \div BeatUnit)

NextEdgeAtOrAfter(c, now) ==
  IF now <= c.start THEN c.start
  ELSE BeatUs(c, ((now - c.start) * c.bpm + BeatUnit - 1) \div BeatUnit)
=============================================================================
