------------------------------- MODULE DelayUse -------------------------------
(***************************************************************************)
(* One CSimpleDelay in the hands of its owner, who may call its functions  *)
(* in any order, while time passes.  The loop of next() is one step per    *)
(* turn, as every turn reads millis() again.                               *)
(*                                                                         *)
(* now and begun are not in the code: the true time, which does not wrap,  *)
(* and the true time at which the current period of the delay began.       *)
(***************************************************************************)
EXTENDS SimpleDelay

CONSTANTS
    Periods,   \* the times the delay is started with
    MaxTime    \* bound: the time at which the model stops

ASSUME PeriodsAssumption == Periods \subseteq Millis /\ MaxTime \in Nat

VARIABLES
    d,         \* the delay
    counter,   \* what millis() returns
    inNext,    \* is the owner in the loop of next()?
    now,
    begun      \* or Never

delayVars == <<d, counter, inNext, now, begun>>

Never == -1

DelayInit ==
    /\ d = Unused /\ inNext = FALSE /\ begun = Never
    /\ counter = 0 /\ now = 0

DelayTick ==
    /\ now < MaxTime
    /\ now' = now + 1
    /\ counter' = IF counter + 1 = Wrap THEN 0 ELSE counter + 1
    /\ UNCHANGED <<d, inNext, begun>>

\* A call that leaves d, in a period that began at b.
Call(new, b) ==
    /\ ~inNext
    /\ d' = new
    /\ begun' = b
    /\ UNCHANGED <<counter, inNext, now>>

DoStart(ms)   == Call(Started(d, ms, counter), now)
DoPrepare(ms) == Call(Prepared(d, ms), Never)
DoStop        == Call(Stopped(d), Never)
DoReset       == Call(Unused, Never)
DoRestart     == Call(Restarted(d, counter), now)
DoSetExpired  == Call(Expired(d), begun)

\* next(): the flag is cleared first, so that an expired delay is moved on too.
DoNext ==
    /\ ~inNext
    /\ inNext' = IsActive(d)
    /\ d' = [d EXCEPT !.expired = FALSE]
    /\ UNCHANGED <<counter, now, begun>>

NextTurn ==
    /\ inNext
    /\ IF IsBehind(d, counter)
       THEN d' = Advanced(d) /\ begun' = begun + d.delay /\ UNCHANGED inNext
       ELSE inNext' = FALSE /\ UNCHANGED <<d, begun>>
    /\ UNCHANGED <<counter, now>>

DelayNext ==
    \/ DelayTick
    \/ \E ms \in Periods : DoStart(ms) \/ DoPrepare(ms)
    \/ DoStop \/ DoReset \/ DoRestart \/ DoSetExpired
    \/ DoNext \/ NextTurn

DelaySpec == DelayInit /\ [][DelayNext]_delayVars

-------------------------------------------------------------------------------
\* The fields of the delay stay unsigned longs.
DelayTypeOK ==
    /\ d \in Delays /\ counter \in Millis /\ inNext \in BOOLEAN
    /\ now \in Nat /\ begun \in Nat \cup {Never}

\* Before the counter wraps, as long as the end of the period is before that too.
BeforeWrap == now < Wrap /\ begun + d.delay < Wrap

\* "Checks if the delay time has elapsed, or the user has stopped the delay with
\* setExpired()" (SimpleDelay.h): until millis() wraps, and for a period that
\* began after the first millisecond, isDone() says exactly that, whatever
\* start(), restart(), stop() and next() have been called before.
DoneIsElapsed ==
    BeforeWrap /\ begun # 0 =>
        (IsDone(d, counter) <=> d.expired \/ (begun # Never /\ now > begun + d.delay))

\* next() never skips into the future: the period that has not ended is the one
\* that the current time is in.
NextIsNotAhead == BeforeWrap /\ begun # Never => begun <= now

\* What the proofs need: millis() is the time until it wraps, and so is the start
\* of a period; without a period the delay is not active.
DelayInv ==
    /\ DelayTypeOK
    /\ now < Wrap => counter = now
    /\ begun = Never => d.start = 0
    /\ begun # Never /\ begun < Wrap /\ now < Wrap => d.start = begun /\ begun <= now

\* The same sentence without the two conditions.
DoneOnlyIfElapsed ==
    IsDone(d, counter) /\ ~d.expired => begun # Never /\ now > begun + d.delay

\* "oDelay.start(1000); EXPECT_TRUE(oDelay.isActive());" (test_SimpleDelay.cpp,
\* testStartActivatesDelay)
StartActivates == begun # Never => IsActive(d)

===============================================================================
