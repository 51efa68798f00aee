----------------------------- MODULE SimpleDelay -----------------------------
(***************************************************************************)
(* CSimpleDelay (SimpleDelay.h): the timer of the library.  A delay is a    *)
(* record of its three fields; millis() is a counter of Wrap values, 2^32   *)
(* on the device, and every function takes its current value m.             *)
(***************************************************************************)
EXTENDS Integers

CONSTANT Wrap

ASSUME WrapAssumption == Wrap \in Nat \ {0}

Millis == 0 .. Wrap - 1
Delays == [start : Millis, delay : Millis, expired : BOOLEAN]

\* The sum of two unsigned longs.
Added(a, b) == IF a + b < Wrap THEN a + b ELSE a + b - Wrap

\* CSimpleDelay oDelay;
Unused == [start |-> 0, delay |-> 0, expired |-> FALSE]

Started(d, ms, m) ==
    [start |-> m, delay |-> IF ms > 0 THEN ms ELSE d.delay, expired |-> FALSE]

\* start(ms, false): nothing but setExpired() will ever make it done.
Prepared(d, ms) ==
    [start |-> 0, delay |-> IF ms > 0 THEN ms ELSE d.delay, expired |-> FALSE]

\* A mutant of Stopped: the start time stays.
StoppedKeepsStart(d) == [d EXCEPT !.expired = FALSE]

Stopped(d)      == [d EXCEPT !.start = 0, !.expired = FALSE]
Restarted(d, m) == [d EXCEPT !.start = m, !.expired = FALSE]
Expired(d)      == [d EXCEPT !.expired = TRUE]

IsActive(d) == d.start > 0

\* A mutant of IsDone: the time that ends the delay belongs to it no more.
IsDoneOnTime(d, m) == d.expired \/ (d.start # 0 /\ Added(d.start, d.delay) <= m)

\* A mutant of IsDone: the end is computed in a wider integer.
IsDoneWide(d, m) == d.expired \/ (d.start # 0 /\ d.start + d.delay < m)

IsDone(d, m) == d.expired \/ (d.start # 0 /\ Added(d.start, d.delay) < m)

\* next(): is there another period to skip, and the delay one period later.
IsBehind(d, m) == IsActive(d) /\ Added(d.start, d.delay) < m
Advanced(d)    == [d EXCEPT !.start = Added(d.start, d.delay)]
===============================================================================
