------------------------------ MODULE MqttProofs ------------------------------
(***************************************************************************)
(* Proofs about CSimpleDelay and about CMQTTController, whose connection   *)
(* waits with a delay between two attempts and whose inbox hands messages  *)
(* to the loop: for every size of the millisecond counter, every sequence  *)
(* of calls, every delay and every interval, and for any messages of any   *)
(* length.  What goes over the bus is what was sent, once and in order, and *)
(* the inbox implements a mailbox.                                         *)
(***************************************************************************)
EXTENDS DelayUse, MqttConnection, MqttInbox, SequenceTheorems, FiniteSetTheorems, TLAPS

-------------------------------------------------------------------------------
(* A delay in the hands of its owner.                                        *)

\* The sum of two unsigned longs is one, and is the true sum until it wraps.
LEMMA SumInMillis ==
    \A a, b \in Millis : Added(a, b) \in Millis
  BY WrapAssumption, SMT DEF Millis, Added

\* What the functions return is a delay.
LEMMA CallsAreTyped ==
    ASSUME NEW x \in Delays, NEW ms \in Millis, NEW m \in Millis
    PROVE  /\ Started(x, ms, m) \in Delays /\ Prepared(x, ms) \in Delays
           /\ Stopped(x) \in Delays /\ Unused \in Delays /\ Restarted(x, m) \in Delays
           /\ Expired(x) \in Delays /\ Advanced(x) \in Delays
           /\ [x EXCEPT !.expired = FALSE] \in Delays
<1>1. 0 \in Millis
  BY WrapAssumption, SMT DEF Millis
<1>2. /\ Started(x, ms, m) \in Delays /\ Prepared(x, ms) \in Delays /\ Unused \in Delays
  BY <1>1 DEF Delays, Started, Prepared, Unused
<1>3. /\ Stopped(x) \in Delays /\ Restarted(x, m) \in Delays /\ Expired(x) \in Delays
      /\ [x EXCEPT !.expired = FALSE] \in Delays
  BY <1>1 DEF Delays, Stopped, Restarted, Expired
<1>4. Advanced(x) \in Delays
  <2>1. Added(x.start, x.delay) \in Millis
    BY SumInMillis DEF Delays
  <2>. QED  BY <2>1 DEF Delays, Advanced
<1>. QED  BY <1>2, <1>3, <1>4

\* A call that leaves no period leaves a delay that does not run; one that begins
\* a period begins it at millis().
LEMMA CallKeepsInv ==
    ASSUME DelayInv, NEW new \in Delays, NEW b, Call(new, b),
           \/ b = Never /\ new.start = 0
           \/ b = now /\ new.start = counter
           \/ b = begun /\ new.start = d.start
    PROVE  DelayInv'
<1>1. b \in Nat \cup {Never}
  BY DEF DelayInv, DelayTypeOK
<1>2. DelayTypeOK'
  BY <1>1 DEF DelayInv, DelayTypeOK, Call
<1>3. (now < Wrap => counter = now)'
  BY DEF DelayInv, Call
<1>4. (begun = Never => d.start = 0)'
  BY SMT DEF DelayInv, DelayTypeOK, Call, Never
<1>5. (begun # Never /\ begun < Wrap /\ now < Wrap => d.start = begun /\ begun <= now)'
  BY SMT DEF DelayInv, DelayTypeOK, Call, Never
<1>. QED  BY <1>2, <1>3, <1>4, <1>5 DEF DelayInv

LEMMA DelayTickKeepsInv ==
    ASSUME DelayInv, DelayTick PROVE DelayInv'
<1>1. DelayTypeOK'
  BY WrapAssumption, SMT DEF DelayInv, DelayTypeOK, DelayTick, Millis
<1>2. /\ (now < Wrap => counter = now)'
      /\ (begun = Never => d.start = 0)'
      /\ (begun # Never /\ begun < Wrap /\ now < Wrap => d.start = begun /\ begun <= now)'
  BY WrapAssumption, SMT DEF DelayInv, DelayTypeOK, DelayTick, Millis, Never
<1>. QED  BY <1>1, <1>2 DEF DelayInv

\* One turn of next() moves the period on by its length, but not beyond the time.
LEMMA TurnKeepsInv ==
    ASSUME DelayInv, NextTurn PROVE DelayInv'
<1>1. CASE ~IsBehind(d, counter)
  BY <1>1 DEF DelayInv, DelayTypeOK, NextTurn
<1>2. CASE IsBehind(d, counter)
  <2>1. d' = Advanced(d) /\ begun' = begun + d.delay /\ UNCHANGED <<inNext, counter, now>>
    BY <1>2 DEF NextTurn
  <2>2. d \in Delays /\ d.start \in Millis /\ d.delay \in Millis /\ now \in Nat
        /\ counter \in Millis
    BY DEF DelayInv, DelayTypeOK, Delays
  <2>3. begun \in Nat
    BY <1>2, SMT DEF DelayInv, DelayTypeOK, IsBehind, IsActive, Never
  <2>4. begun' \in Nat
    BY <2>1, <2>2, <2>3, SMT DEF Millis
  <2>5. d' \in Delays
    BY <2>1, <2>2, CallsAreTyped
  <2>6. DelayTypeOK'
    BY <2>1, <2>4, <2>5 DEF DelayInv, DelayTypeOK
  <2>7. (now < Wrap => counter = now)'
    BY <2>1 DEF DelayInv
  <2>8. (begun = Never => d.start = 0)'
    BY <2>4, SMT DEF Never
  <2>9. ASSUME begun' < Wrap, now' < Wrap
        PROVE  d'.start = begun' /\ begun' <= now'
    <3>1. d'.start = Added(d.start, d.delay)
      BY <2>1, <2>2 DEF Advanced, Delays
    <3>2. begun < Wrap /\ now < Wrap
      BY <2>1, <2>2, <2>3, <2>9, WrapAssumption, SMT DEF Millis
    <3>3. d.start = begun /\ counter = now
      BY <2>3, <3>2, SMT DEF DelayInv, Never
    <3>4. Added(d.start, d.delay) = begun'
      BY <2>1, <2>2, <2>3, <2>9, <3>3, WrapAssumption, SMT DEF Added, Millis
    <3>5. Added(d.start, d.delay) < now
      BY <1>2, <3>3 DEF IsBehind
    <3>. QED  BY <2>1, <2>2, <2>4, <3>1, <3>4, <3>5, SMT
  <2>. QED  BY <2>6, <2>7, <2>8, <2>9 DEF DelayInv
<1>. QED  BY <1>1, <1>2

LEMMA DelayNextKeepsInv ==
    ASSUME DelayInv, [DelayNext]_delayVars PROVE DelayInv'
<1>1. d \in Delays /\ counter \in Millis /\ Periods \subseteq Millis
  BY PeriodsAssumption DEF DelayInv, DelayTypeOK
<1>2. CASE DelayTick
  BY <1>2, DelayTickKeepsInv
<1>3. ASSUME NEW ms \in Periods, DoStart(ms)  PROVE DelayInv'
  <2>1. Started(d, ms, counter) \in Delays /\ Started(d, ms, counter).start = counter
    BY <1>1, CallsAreTyped DEF Started
  <2>. QED  BY <1>3, <2>1, CallKeepsInv DEF DoStart
<1>4. ASSUME NEW ms \in Periods, DoPrepare(ms)  PROVE DelayInv'
  <2>1. Prepared(d, ms) \in Delays /\ Prepared(d, ms).start = 0
    BY <1>1, CallsAreTyped DEF Prepared
  <2>. QED  BY <1>4, <2>1, CallKeepsInv DEF DoPrepare
<1>5. CASE DoStop
  <2>1. Stopped(d) \in Delays /\ Stopped(d).start = 0
    BY <1>1, CallsAreTyped DEF Stopped, Delays
  <2>. QED  BY <1>5, <2>1, CallKeepsInv DEF DoStop
<1>6. CASE DoReset
  <2>1. Unused \in Delays /\ Unused.start = 0
    BY <1>1, CallsAreTyped DEF Unused
  <2>. QED  BY <1>6, <2>1, CallKeepsInv DEF DoReset
<1>7. CASE DoRestart
  <2>1. Restarted(d, counter) \in Delays /\ Restarted(d, counter).start = counter
    BY <1>1, CallsAreTyped DEF Restarted, Delays
  <2>. QED  BY <1>7, <2>1, CallKeepsInv DEF DoRestart
<1>8. CASE DoSetExpired
  <2>1. Expired(d) \in Delays /\ Expired(d).start = d.start
    BY <1>1, CallsAreTyped DEF Expired, Delays
  <2>. QED  BY <1>8, <2>1, CallKeepsInv DEF DoSetExpired
<1>9. CASE DoNext
  <2>1. [d EXCEPT !.expired = FALSE] \in Delays
        /\ [d EXCEPT !.expired = FALSE].start = d.start
    BY <1>1, CallsAreTyped DEF Delays
  <2>2. inNext' \in BOOLEAN
    BY <1>9 DEF DoNext, IsActive
  <2>3. d' = [d EXCEPT !.expired = FALSE] /\ UNCHANGED <<counter, now, begun>>
    BY <1>9 DEF DoNext
  <2>4. DelayTypeOK'
    BY <2>1, <2>2, <2>3 DEF DelayInv, DelayTypeOK
  <2>. QED  BY <2>1, <2>3, <2>4 DEF DelayInv
<1>10. CASE NextTurn
  BY <1>10, TurnKeepsInv
<1>11. CASE UNCHANGED delayVars
  BY <1>11 DEF DelayInv, DelayTypeOK, delayVars
<1>. QED
  BY <1>2, <1>3, <1>4, <1>5, <1>6, <1>7, <1>8, <1>9, <1>10, <1>11 DEF DelayNext

\* DelayInv holds in every state.
THEOREM DelayInvariant == DelaySpec => []DelayInv
<1>1. DelayInit => DelayInv
  <2>1. ASSUME DelayInit PROVE DelayInv
    <3>1. 0 \in Millis
      BY WrapAssumption, SMT DEF Millis
    <3>2. Unused \in Delays /\ Unused.start = 0
      BY <3>1 DEF Unused, Delays
    <3>3. DelayTypeOK
      BY <2>1, <3>1, <3>2 DEF DelayInit, DelayTypeOK
    <3>. QED  BY <2>1, <3>2, <3>3 DEF DelayInit, DelayInv
  <2>. QED  BY <2>1
<1>2. DelayInv /\ [DelayNext]_delayVars => DelayInv'
  BY DelayNextKeepsInv
<1>. QED  BY <1>1, <1>2, PTL DEF DelaySpec

\* Until millis() wraps, isDone() is true exactly when the period is over or was
\* ended, and next() does not skip into the future - for a counter of any size
\* and whatever functions have been called.
THEOREM DelayIsExact == DelaySpec => [](DoneIsElapsed /\ NextIsNotAhead)
<1>1. DelayInv => DoneIsElapsed /\ NextIsNotAhead
  <2>1. ASSUME DelayInv, BeforeWrap, begun # Never
        PROVE  d.start = begun /\ begun <= now /\ counter = now
    <3>1. d.delay \in Nat /\ begun \in Nat
      BY <2>1, WrapAssumption, SMT DEF DelayInv, DelayTypeOK, Delays, Millis
    <3>2. begun < Wrap /\ now < Wrap
      BY <2>1, <3>1, WrapAssumption, SMT DEF BeforeWrap
    <3>. QED  BY <2>1, <3>2, SMT DEF DelayInv
  <2>2. ASSUME DelayInv, BeforeWrap, begun # 0
        PROVE  IsDone(d, counter) <=> d.expired \/ (begun # Never /\ now > begun + d.delay)
    <3>1. CASE begun = Never
      BY <2>2, <3>1 DEF DelayInv, IsDone
    <3>2. CASE begun # Never
      <4>1. d.start = begun /\ counter = now
        BY <2>1, <2>2, <3>2
      <4>2. begun \in Nat /\ d.delay \in Nat /\ now \in Nat
        BY <2>2, <3>2, WrapAssumption, SMT DEF DelayInv, DelayTypeOK, Delays, Millis
      <4>3. Added(d.start, d.delay) = begun + d.delay
        BY <2>2, <4>1 DEF BeforeWrap, Added
      <4>4. Added(d.start, d.delay) < counter <=> now > begun + d.delay
        BY <4>1, <4>2, <4>3, SMT
      <4>5. d.start # 0
        BY <2>2, <4>1
      <4>. QED  BY <3>2, <4>4, <4>5 DEF IsDone
    <3>. QED  BY <3>1, <3>2
  <2>. QED  BY <2>1, <2>2 DEF DoneIsElapsed, NextIsNotAhead
<1>. QED  BY <1>1, DelayInvariant, PTL

-------------------------------------------------------------------------------
(* The MQTT connection.                                                      *)

\* A tick later, the sum with one more is the counter's next value.
LEMMA SumOfNext ==
    ASSUME NEW a \in Millis, NEW b \in Millis, b + 1 < Wrap
    PROVE  Added(a, b + 1) = (IF Added(a, b) + 1 = Wrap THEN 0 ELSE Added(a, b) + 1)
  BY WrapAssumption, SMT DEF Added, Millis

\* The delay is not over while no more time than the delay has passed, unless its
\* end is beyond the counter.
LEMMA NotDoneTooEarly ==
    ASSUME ConnectionInv, IsDone(retry, millis)
    PROVE  quiet > TryDelay \/ retry.start + TryDelay >= Wrap
<1>1. retry.start \in Nat /\ TryDelay \in Nat /\ quiet \in Nat
  <2>1. retry.start \in Millis /\ TryDelay \in Millis /\ quiet \in 0 .. TryDelay + 1
    BY ConnectionAssumption DEF ConnectionInv, TypeOK, Delays
  <2>. QED  BY <2>1, WrapAssumption, SMT DEF Millis
<1>. SUFFICES ASSUME quiet <= TryDelay, retry.start + TryDelay < Wrap PROVE FALSE
  BY <1>1, WrapAssumption, SMT
<1>2. ~retry.expired /\ millis = Added(retry.start, quiet) /\ retry.delay = TryDelay
  BY DEF ConnectionInv
<1>3. millis = retry.start + quiet /\ Added(retry.start, TryDelay) = retry.start + TryDelay
  BY <1>1, <1>2, WrapAssumption, SMT DEF Added
<1>. QED  BY <1>1, <1>2, <1>3, SMT DEF IsDone

LEMMA InitIsInv == Init => ConnectionInv
<1>. SUFFICES ASSUME Init PROVE ConnectionInv
  OBVIOUS
<1>1. TryDelay \in Nat \ {0} /\ TryDelay < Wrap /\ 0 \in Millis /\ 1 \in Millis
  BY WrapAssumption, ConnectionAssumption, SMT DEF Millis
<1>2. retry = [start |-> 0, delay |-> TryDelay, expired |-> TRUE]
  <2>1. Prepared(Unused, TryDelay) = [start |-> 0, delay |-> TryDelay, expired |-> FALSE]
    <3>1. TryDelay > 0
      BY <1>1, SMT
    <3>. QED  BY <3>1, Zenon DEF Prepared
  <2>2. retry = [[start |-> 0, delay |-> TryDelay, expired |-> FALSE] EXCEPT !.expired = TRUE]
    BY <2>1, Zenon DEF Init, Expired
  <2>. QED  BY <2>2
<1>3. TypeOK
  <2>1. retry \in Delays /\ last \in Millis /\ millis \in Millis
    BY <1>1, <1>2, ConnectionAssumption DEF Init, Delays
  <2>2. waiting \in 0 .. MaxWaiting /\ quiet \in 0 .. TryDelay + 1 /\ turns \in 0 .. 2
    BY <1>1, ConnectionAssumption, SMT DEF Init
  <2>. QED  BY <2>1, <2>2 DEF Init, TypeOK
<1>. QED  BY <1>1, <1>2, <1>3, SMT DEF Init, ConnectionInv

\* A step that is not an attempt, a test or a tick leaves what the invariant speaks of.
LEMMA OtherKeepsInv ==
    ASSUME ConnectionInv, TypeOK', UNCHANGED <<retry, millis, quiet>>,
           pc' = "connect" => pc = "connect",
           pc' = "setup" => pc = "setup" /\ UNCHANGED configured
    PROVE  ConnectionInv'
  BY DEF ConnectionInv

LEMMA GotoIsTyped ==
    ASSUME TypeOK, NEW next, Goto(next)
    PROVE  pc' = next /\ turns' \in 0 .. 2
  BY DEF TypeOK, Goto

\* The steps of publishHeartBeat().
LEMMA HeartBeatKeepsInv ==
    ASSUME ConnectionInv, NEW check \in Loop, NEW publish \in Loop \ {"connect"},
           NEW next \in Loop \ {"connect"}, HeartBeat(check, publish, next)
    PROVE  ConnectionInv'
<1>1. turns' \in 0 .. 2 /\ pc' \in Loop \ {"connect"}
  BY GotoIsTyped DEF ConnectionInv, HeartBeat, CheckHeartBeat
<1>2. last' \in Millis /\ beat' \in BOOLEAN
  BY DEF ConnectionInv, TypeOK, HeartBeat, CheckHeartBeat, clock
<1>3. UNCHANGED <<config, link, retry, told, home, millis, quiet>>
  BY DEF HeartBeat, CheckHeartBeat
<1>4. TypeOK'
  BY <1>1, <1>2, <1>3 DEF ConnectionInv, TypeOK, config, home
<1>. QED  BY <1>1, <1>3, <1>4, OtherKeepsInv DEF Loop, config

LEMMA LoopKeepsInv ==
    ASSUME ConnectionInv, LoopGoesOn
    PROVE  ConnectionInv'
<1>. USE DEF config, home, clock
<1>1. CASE Setup
  <2>1. TypeOK'
    <3>1. link = "down" /\ link' = (IF enabled THEN "connecting" ELSE "down")
      BY <1>1 DEF ConnectionInv, TypeOK, Setup, Connecting
    <3>. QED  BY <1>1, <3>1 DEF ConnectionInv, TypeOK, Setup
  <2>. QED  BY <1>1, <2>1, OtherKeepsInv DEF Setup
<1>2. CASE ApplStarted
  <2>1. TypeOK'
    BY <1>2 DEF ConnectionInv, TypeOK, ApplStarted, Discovered, Loop
  <2>. QED  BY <1>2, <2>1, OtherKeepsInv DEF ApplStarted
<1>3. CASE CheckConnection
  <2>1. TypeOK'
    <3>1. turns' \in 0 .. 2
      BY <1>3 DEF ConnectionInv, TypeOK, CheckConnection
    <3>. QED  BY <1>3, <3>1 DEF ConnectionInv, TypeOK, CheckConnection, Loop
  <2>2. pc' = "connect" => quiet > TryDelay \/ retry.start + TryDelay >= Wrap
    BY <1>3, NotDoneTooEarly DEF CheckConnection
  <2>. QED  BY <1>3, <2>1, <2>2 DEF ConnectionInv, CheckConnection
<1>4. CASE Connect
  <2>1. retry' = [start |-> millis, delay |-> TryDelay, expired |-> FALSE]
    BY <1>4 DEF Connect, Restarted, ConnectionInv, TypeOK, Delays
  <2>2. quiet' = 0 /\ quiet' \in 0 .. TryDelay + 1 /\ TryDelay \in Millis
    BY <1>4, ConnectionAssumption, SMT DEF Connect, Millis
  <2>3. TypeOK'
    BY <1>4, <2>1, <2>2 DEF ConnectionInv, TypeOK, Connect, Connecting, Delays, Loop
  <2>4. millis' = Added(retry'.start, quiet')
    BY <1>4, <2>1, <2>2, WrapAssumption, SMT DEF ConnectionInv, TypeOK, Connect, Added, Millis
  <2>. QED  BY <1>4, <2>1, <2>3, <2>4 DEF ConnectionInv, Connect
<1>5. CASE Announce
  <2>1. TypeOK'
    BY <1>5 DEF ConnectionInv, TypeOK, Announce, Loop
  <2>. QED  BY <1>5, <2>1, OtherKeepsInv DEF Announce
<1>6. CASE DispatchMessages
  <2>1. (waiting > 0 /\ waiting' = waiting - 1) \/ waiting' = waiting
    BY <1>6, Zenon DEF DispatchMessages
  <2>2. UNCHANGED <<pc, turns>> \/ Goto("heartbeat again")
    BY <1>6, Zenon DEF DispatchMessages
  <2>3. pc = "queue" /\ UNCHANGED <<config, link, retry, last, told, millis, quiet, beat>>
    BY <1>6 DEF DispatchMessages
  <2>4. pc' \in Loop \ {"connect"} /\ turns' \in 0 .. 2
    <3>1. CASE UNCHANGED <<pc, turns>>
      BY <2>3, <3>1 DEF ConnectionInv, TypeOK, Loop
    <3>2. CASE Goto("heartbeat again")
      <4>1. pc' = "heartbeat again" /\ turns' \in 0 .. 2
        BY <3>2 DEF ConnectionInv, TypeOK, Goto
      <4>. QED  BY <4>1 DEF Loop
    <3>. QED  BY <2>2, <3>1, <3>2
  <2>5. waiting' \in 0 .. MaxWaiting
    <3>1. waiting \in 0 .. MaxWaiting
      BY DEF ConnectionInv, TypeOK
    <3>. QED  BY <2>1, <3>1, ConnectionAssumption, SMT
  <2>6. known' \in BOOLEAN
    BY <1>6, Zenon DEF ConnectionInv, TypeOK, DispatchMessages, Discovered
  <2>7. TypeOK'
    BY <2>3, <2>4, <2>5, <2>6 DEF ConnectionInv, TypeOK
  <2>. QED  BY <2>3, <2>4, <2>7, OtherKeepsInv DEF Loop
<1>7. CASE \/ HeartBeat("heartbeat", "publish", "queue")
           \/ HeartBeat("heartbeat again", "publish again", "turn")
  BY <1>7, HeartBeatKeepsInv DEF Loop
<1>. QED  BY <1>1, <1>2, <1>3, <1>4, <1>5, <1>6, <1>7 DEF LoopGoesOn

LEMMA NetworkKeepsInv ==
    ASSUME ConnectionInv,
           Configure \/ OnMqttConnect \/ OnMqttDisconnect \/ HomeAssistantStarts
    PROVE  ConnectionInv'
<1>. USE DEF config, home, clock
<1>1. TypeOK'
  <2>1. CASE Configure
    BY <2>1 DEF ConnectionInv, TypeOK, Configure
  <2>2. CASE OnMqttConnect
    BY <2>2 DEF ConnectionInv, TypeOK, OnMqttConnect
  <2>3. CASE OnMqttDisconnect
    BY <2>3 DEF ConnectionInv, TypeOK, OnMqttDisconnect
  <2>4. CASE HomeAssistantStarts
    <3>1. waiting' \in 0 .. MaxWaiting
      BY <2>4, ConnectionAssumption, SMT DEF ConnectionInv, TypeOK, HomeAssistantStarts
    <3>. QED  BY <2>4, <3>1 DEF ConnectionInv, TypeOK, HomeAssistantStarts
  <2>. QED  BY <2>1, <2>2, <2>3, <2>4
<1>2. UNCHANGED <<retry, millis, quiet, pc>>
  BY DEF Configure, OnMqttConnect, OnMqttDisconnect, HomeAssistantStarts
<1>3. UNCHANGED configured
  BY DEF Configure, OnMqttConnect, OnMqttDisconnect, HomeAssistantStarts
<1>. QED  BY <1>1, <1>2, <1>3, OtherKeepsInv

LEMMA TickKeepsInv ==
    ASSUME ConnectionInv, Tick
    PROVE  ConnectionInv'
<1>1. /\ TryDelay \in Nat /\ TryDelay < Wrap /\ quiet \in Nat /\ quiet <= TryDelay + 1
      /\ millis \in Millis /\ retry.start \in Millis
  BY ConnectionAssumption, WrapAssumption, SMT DEF ConnectionInv, TypeOK, Delays, Millis
<1>2. millis' \in Millis /\ quiet' \in 0 .. TryDelay + 1 /\ quiet' >= quiet
  BY <1>1, WrapAssumption, SMT DEF Tick, Millis
<1>3. UNCHANGED <<config, link, pc, retry, last, told, home>> /\ turns' = 0 /\ beat' = FALSE
  BY DEF Tick
<1>4. TypeOK'
  <2>1. turns' \in 0 .. 2 /\ UNCHANGED <<enabled, configured, waiting, known>>
    BY <1>3 DEF config, home
  <2>. QED  BY <1>2, <1>3, <2>1 DEF ConnectionInv, TypeOK
<1>5. quiet' <= TryDelay => ~retry'.expired /\ millis' = Added(retry'.start, quiet')
  <2>. SUFFICES ASSUME quiet' <= TryDelay
                PROVE  ~retry'.expired /\ millis' = Added(retry'.start, quiet')
    OBVIOUS
  <2>1. quiet <= TryDelay /\ quiet' = quiet + 1 /\ quiet + 1 < Wrap
    BY <1>1, WrapAssumption, SMT DEF Tick
  <2>2. quiet \in Millis
    BY <1>1, <2>1, WrapAssumption, SMT DEF Millis
  <2>3. ~retry.expired /\ millis = Added(retry.start, quiet)
    BY <2>1 DEF ConnectionInv
  <2>4. millis' = Added(retry.start, quiet + 1)
    BY <1>1, <2>1, <2>2, <2>3, SumOfNext DEF Tick
  <2>. QED  BY <1>3, <2>1, <2>3, <2>4
<1>6. pc' = "connect" => quiet' > TryDelay \/ retry'.start + TryDelay >= Wrap
  BY <1>1, <1>2, <1>3, SMT DEF ConnectionInv
<1>. QED  BY <1>3, <1>4, <1>5, <1>6 DEF ConnectionInv, config

LEMMA StepKeepsInv == ConnectionInv /\ [Next]_vars => ConnectionInv'
<1>. SUFFICES ASSUME ConnectionInv, [Next]_vars PROVE ConnectionInv'
  OBVIOUS
<1>1. CASE UNCHANGED vars
  BY <1>1 DEF vars, config, home, clock, ConnectionInv, TypeOK
<1>2. CASE Next
  BY <1>2, LoopKeepsInv, NetworkKeepsInv, TickKeepsInv DEF Next
<1>. QED  BY <1>1, <1>2

\* The types, and what quiet means in the delay behind an attempt.
THEOREM ConnectionInvariant == Spec => []ConnectionInv
  BY InitIsInv, StepKeepsInv, PTL DEF Spec

\* enableConnection() leaves the delay between two attempts, however often the
\* connection fails, unless the end of the delay is beyond the counter.
THEOREM AttemptsAreApart == Spec => AttemptsKeepDistance
<1>1. ConnectionInv /\ [Next]_vars
      => [Connect => quiet > TryDelay \/ retry.start + TryDelay >= Wrap]_vars
  BY DEF ConnectionInv, Connect
<1>. QED  BY <1>1, ConnectionInvariant, PTL DEF Spec, AttemptsKeepDistance

-------------------------------------------------------------------------------
(* The inbox.                                                                *)

\* What a buffer may hold, and the strings that strdup() may make of one.
Cell    == (Messages \X Nat) \cup {ZeroByte}
Buffers == UNION {[1..Total[m] -> Cell] : m \in Messages}
Strings == {StringIn(cells) : cells \in Buffers}

-------------------------------------------------------------------------------
(* strdup()                                                                  *)

\* A set of numbers that is not empty has a least one.
LEMMA LeastNumber ==
    ASSUME NEW T, T \subseteq Nat, T # {}
    PROVE  \E i \in T : \A j \in T : i <= j
<1> DEFINE R == StrictSubsetOrdering(Nat)
           S == FiniteSubsetsOf(Nat)
           I == {0..i : i \in T}
<1>1. IsWellFoundedOn(R, S)
  BY FS_StrictSubsetOrderingWellFounded
<1>2. I \subseteq S
  <2>1. \A i \in T : i \in Int /\ 0..i \in SUBSET Nat
    OBVIOUS
  <2>2. \A i \in T : IsFiniteSet(0..i)
    <3>1. 0 \in Int
      OBVIOUS
    <3> QED BY <2>1, <3>1, FS_Interval
  <2> QED BY <2>1, <2>2 DEF FiniteSubsetsOf
<1>3. I # {}
  OBVIOUS
<1>4. \E x \in I : \A y \in I : ~ (<<y, x>> \in R)
  <2> HIDE DEF R, S, I
  <2> QED BY <1>1, <1>2, <1>3, WFMin
<1>5. PICK i \in T : \A j \in T : ~ (<<0..j, 0..i>> \in R)
  BY <1>4
<1>6. ASSUME NEW j \in T, j < i PROVE FALSE
  <2>1. 0..j \subseteq 0..i /\ 0..j # 0..i
    <3>1. i \in 0..i /\ i \notin 0..j
      BY <1>6
    <3> QED BY <1>6, <3>1
  <2>2. <<0..j, 0..i>> \in R
    BY <2>1 DEF StrictSubsetOrdering
  <2> QED BY <2>2, <1>5, <1>6
<1> QED BY <1>6

\* The end of the string is the first zero, or lies behind the buffer.
LEMMA StringEnds ==
    ASSUME NEW n \in Nat, NEW cells \in [1..n -> Cell]
    PROVE  \E e \in 1..(n + 1) :
              /\ StringIn(cells) = SubSeq(cells, 1, e - 1)
              /\ \A i \in 1..(e - 1) : cells[i] # ZeroByte
              /\ (\A i \in 1..n : cells[i] # ZeroByte) => e = n + 1
<1> DEFINE ends == {i \in 1..Len(cells) : cells[i] = ZeroByte}
           P(i) == \A j \in ends : i <= j
           e == CHOOSE i \in ends \cup {Len(cells) + 1} : P(i)
<1>1. Len(cells) = n
  OBVIOUS
<1>2. ends \subseteq 1..n
  BY <1>1
<1>3. ends \cup {n + 1} \subseteq Nat /\ ends \cup {n + 1} # {}
  BY <1>2
<1>4. PICK least \in ends \cup {n + 1} : \A j \in ends \cup {n + 1} : least <= j
  <2> HIDE DEF ends
  <2> QED BY <1>3, LeastNumber
<1>5. e \in ends \cup {n + 1} /\ P(e)
  <2>1. \E i \in ends \cup {Len(cells) + 1} : P(i)
    BY <1>1, <1>4
  <2>2. e \in ends \cup {Len(cells) + 1} /\ P(e)
    <3> HIDE DEF ends, P
    <3> QED BY <2>1, Zenon
  <2> QED BY <1>1, <2>2
<1>6. StringIn(cells) = SubSeq(cells, 1, e - 1)
  BY DEF StringIn
<1>7. \A i \in 1..n : i < e => cells[i] # ZeroByte
  <2> SUFFICES ASSUME NEW i \in 1..n, i < e, cells[i] = ZeroByte PROVE FALSE
    OBVIOUS
  <2>1. i \in ends
    BY <1>1
  <2>2. e <= i
    BY <2>1, <1>5
  <2> HIDE DEF e
  <2> QED BY <2>2, <1>2, <1>5
<1>8. (\A i \in 1..n : cells[i] # ZeroByte) => ends = {}
  BY <1>1
<1> HIDE DEF e, ends, P
<1>9. e \in 1..(n + 1) /\ (ends = {} => e = n + 1)
  BY <1>2, <1>5
<1>10. \A i \in 1..(e - 1) : cells[i] # ZeroByte
  BY <1>7, <1>9
<1> QED BY <1>6, <1>8, <1>9, <1>10

\* A string has no zero in it.
LEMMA StringHasNoZero ==
    ASSUME InboxAssumption, NEW s \in Strings PROVE ZeroByte \notin Range(s)
<1>1. PICK m \in Messages : \E cells \in [1..Total[m] -> Cell] : s = StringIn(cells)
  BY DEF Strings, Buffers
<1>2. PICK cells \in [1..Total[m] -> Cell] : s = StringIn(cells)
  BY <1>1
<1>3. Total[m] \in Nat
  BY DEF InboxAssumption
<1>4. PICK e \in 1..(Total[m] + 1) : /\ s = SubSeq(cells, 1, e - 1)
                                     /\ \A i \in 1..(e - 1) : cells[i] # ZeroByte
  BY <1>2, <1>3, StringEnds
<1>5. \A i \in 1..(e - 1) : cells[i] \in Cell
  BY <1>3, <1>4
<1>6. /\ SubSeq(cells, 1, e - 1) \in Seq(Cell)
      /\ Len(SubSeq(cells, 1, e - 1)) = e - 1
      /\ \A i \in 1..(e - 1) : SubSeq(cells, 1, e - 1)[i] = cells[i]
  BY <1>3, <1>4, <1>5
<1> QED BY <1>4, <1>6 DEF Range

\* The string of a buffer that holds a message is the message.
LEMMA StringOfText ==
    ASSUME InboxAssumption, NEW m \in Messages PROVE StringIn(Text(m)) = Text(m)
<1>1. Total[m] \in Nat
  BY DEF InboxAssumption
<1>2. Text(m) \in [1..Total[m] -> Cell]
  BY <1>1 DEF Text, Cell
<1>3. \A i \in 1..Total[m] : Text(m)[i] # ZeroByte
  BY <1>1 DEF Text, ZeroByte
<1>4. StringIn(Text(m)) = SubSeq(Text(m), 1, Total[m])
  <2>1. PICK e \in 1..(Total[m] + 1) : StringIn(Text(m)) = SubSeq(Text(m), 1, e - 1) /\ e = Total[m] + 1
    BY <1>1, <1>2, <1>3, StringEnds
  <2> QED BY <2>1, <1>1
<1>5. Text(m) \in Seq(Cell) /\ Len(Text(m)) = Total[m]
  BY <1>1, <1>2
<1> QED BY <1>4, <1>5, SubSeqFull

-------------------------------------------------------------------------------
(* The inductive invariant.                                                  *)

\* What has arrived so far is there, and a buffer is one of the length of the first
\* message since the last complete one of which something arrived.
BufferOf ==
    /\ buffer = NoBuffer => interrupted = Nobody /\ (coming # Nothing => coming.index = 0)
    /\ buffer # NoBuffer =>
        \/ interrupted \in Messages /\ Len(buffer) = Total[interrupted]
        \/ /\ interrupted = Nobody /\ coming # Nothing
           /\ coming.index > 0 /\ Len(buffer) = Total[coming.msg]
    /\ coming # Nothing /\ Len(buffer) = Total[coming.msg] =>
        \A i \in 1..coming.index : buffer[i] = <<coming.msg, i>>

InboxTyped ==
    /\ coming = Nothing \/ coming \in [msg : Messages, index : Nat]
    /\ coming # Nothing => coming.index <= Total[coming.msg]
    /\ buffer = NoBuffer \/ buffer \in Buffers
    /\ queue \in Seq(Strings) /\ delivered \in Seq(Strings)
    /\ sent \in Seq([msg : Messages, before : Messages \cup {Nobody}])
    /\ interrupted \in Messages \cup {Nobody}
    /\ inEvent \in BOOLEAN /\ (inEvent => queue # <<>>)

InboxIInv == InboxTyped /\ BufferOf /\ EachOnceInOrder

LEMMA InboxStartIsInv == ASSUME InboxAssumption, InboxStart PROVE InboxIInv
<1>1. InboxTyped
  <2>1. <<>> \in Seq(Strings) /\ <<>> \in Seq([msg : Messages, before : Messages \cup {Nobody}])
    OBVIOUS
  <2>2. queue \in Seq(Strings) /\ delivered \in Seq(Strings)
        /\ sent \in Seq([msg : Messages, before : Messages \cup {Nobody}])
    BY <2>1 DEF InboxStart
  <2> QED BY <2>2, Zenon DEF InboxStart, InboxTyped
<1>2. BufferOf
  BY DEF InboxStart, BufferOf
<1>3. EachOnceInOrder
  <2>1. delivered \o Waiting = <<>> /\ sent = <<>>
    BY DEF InboxStart, Waiting
  <2> QED BY <2>1 DEF EachOnceInOrder
<1> QED BY <1>1, <1>2, <1>3 DEF InboxIInv

\* What goes from the front of one sequence to the end of another.
LEMMA FrontMoves ==
    ASSUME NEW S, NEW s \in Seq(S), NEW t \in Seq(S), t # <<>>
    PROVE  Append(s, Head(t)) \o Tail(t) = s \o t
<1>1. Head(t) \in S /\ Tail(t) \in Seq(S) /\ Len(Tail(t)) = Len(t) - 1
      /\ \A i \in 1..Len(Tail(t)) : Tail(t)[i] = t[i + 1]
  BY HeadTailProperties
<1>2. Append(s, Head(t)) \in Seq(S)
  BY <1>1
<1> DEFINE a == Append(s, Head(t)) \o Tail(t)
           b == s \o t
<1>3. /\ a \in Seq(S)
      /\ Len(a) = Len(s) + 1 + Len(Tail(t))
      /\ \A i \in 1..(Len(s) + 1 + Len(Tail(t))) :
            a[i] = IF i <= Len(s) + 1 THEN Append(s, Head(t))[i] ELSE Tail(t)[i - (Len(s) + 1)]
  BY <1>1, <1>2, ConcatProperties
<1>4. /\ b \in Seq(S)
      /\ Len(b) = Len(s) + Len(t)
      /\ \A i \in 1..(Len(s) + Len(t)) : b[i] = IF i <= Len(s) THEN s[i] ELSE t[i - Len(s)]
  BY ConcatProperties
<1>5. Len(a) = Len(b)
  BY <1>1, <1>3, <1>4
<1>6. ASSUME NEW i \in 1..Len(a) PROVE a[i] = b[i]
  <2> HIDE DEF a, b
  <2>1. CASE i <= Len(s)
    BY SMTT(30), <2>1, <1>1, <1>3, <1>4, <1>5
  <2>2. CASE i = Len(s) + 1
    BY <2>2, <1>1, <1>3, <1>4, <1>5
  <2>3. CASE i > Len(s) + 1
    <3>1. i - (Len(s) + 1) \in 1..Len(Tail(t)) /\ i - (Len(s) + 1) + 1 = i - Len(s)
      BY <2>3, <1>1, <1>3
    <3>2. a[i] = Tail(t)[i - (Len(s) + 1)] /\ b[i] = t[i - Len(s)]
      BY <2>3, <1>1, <1>3, <1>4, <1>5
    <3> QED BY <3>1, <3>2, <1>1
  <2> QED BY <2>1, <2>2, <2>3, <1>3
<1> HIDE DEF a, b
<1>7. a = b
  BY <1>3, <1>4, <1>5, <1>6, SeqEqual
<1> QED BY <1>7 DEF a, b

\* Appending to the second of two sequences.
LEMMA AppendToSecond ==
    ASSUME NEW S, NEW s \in Seq(S), NEW t \in Seq(S), NEW e \in S
    PROVE  s \o Append(t, e) = Append(s \o t, e)
<1>1. Append(t, e) = t \o <<e>> /\ <<e>> \in Seq(S)
  OBVIOUS
<1>2. s \o (t \o <<e>>) = (s \o t) \o <<e>>
  BY <1>1, ConcatAssociative
<1> QED BY <1>1, <1>2, ConcatProperties

\* dispatch() moves a message from those that wait to those that were delivered.
LEMMA FrontKeepsInv ==
    ASSUME InboxAssumption, InboxIInv, DispatchFront
    PROVE  InboxIInv' /\ Waiting # <<>> /\ delivered' = Append(delivered, Head(Waiting)) /\ Waiting' = Tail(Waiting)
<1>1. Waiting = queue /\ queue # <<>> /\ Waiting' = Tail(queue)
      /\ delivered' = Append(delivered, Head(queue))
  BY DEF DispatchFront, Waiting
<1>2. Head(queue) \in Strings /\ delivered \in Seq(Strings) /\ queue \in Seq(Strings)
  BY <1>1 DEF InboxIInv, InboxTyped
<1>3. InboxTyped'
  BY <1>2 DEF InboxIInv, InboxTyped, DispatchFront
<1>4. BufferOf'
  BY DEF InboxIInv, BufferOf, DispatchFront
<1>5. delivered' \o Waiting' = delivered \o Waiting
  BY <1>1, <1>2, FrontMoves
<1>6. EachOnceInOrder'
  BY <1>5 DEF InboxIInv, EachOnceInOrder, Intact, DispatchFront
<1> QED BY <1>1, <1>3, <1>4, <1>6 DEF InboxIInv

\* ... and its removal from the queue changes neither of them.
LEMMA PopKeepsInv ==
    ASSUME InboxAssumption, InboxIInv, DispatchPop PROVE InboxIInv' /\ UNCHANGED <<Waiting, delivered>>
<1>1. Waiting' = Waiting /\ delivered' = delivered
  BY DEF DispatchPop, Waiting
<1>2. InboxTyped'
  <2>1. queue \in Seq(Strings) /\ queue # <<>>
    BY DEF InboxIInv, InboxTyped, DispatchPop
  <2>2. Tail(queue) \in Seq(Strings)
    BY <2>1
  <2> QED BY <2>2, Zenon DEF InboxIInv, InboxTyped, DispatchPop
<1>3. BufferOf'
  BY DEF InboxIInv, BufferOf, DispatchPop
<1>4. EachOnceInOrder'
  BY <1>1 DEF InboxIInv, EachOnceInOrder, Intact, DispatchPop
<1> QED BY <1>1, <1>2, <1>3, <1>4 DEF InboxIInv

\* A message begins to arrive.
LEMMA BrokerSendsKeepsInv ==
    ASSUME InboxAssumption, InboxIInv, NEW m \in Messages, BrokerSends(m)
    PROVE  InboxIInv' /\ UNCHANGED <<Waiting, delivered>>
<1>1. Waiting' = Waiting /\ delivered' = delivered
  BY DEF BrokerSends, Waiting
<1>2. /\ coming = Nothing
      /\ coming' \in [msg : Messages, index : Nat] /\ coming'.index = 0 /\ coming'.msg = m
      /\ UNCHANGED <<buffer, queue, inEvent, delivered, sent, interrupted>>
  BY DEF BrokerSends
<1>3. Total[m] \in Nat
  BY DEF InboxAssumption
<1>4. InboxTyped'
  BY <1>2, <1>3 DEF InboxIInv, InboxTyped
<1>5. BufferOf'
  BY <1>2 DEF InboxIInv, BufferOf
<1>6. EachOnceInOrder'
  BY <1>1, <1>2 DEF InboxIInv, EachOnceInOrder, Intact
<1> QED BY <1>1, <1>4, <1>5, <1>6 DEF InboxIInv

\* A message ends before it is complete: its part stays in the buffer.
LEMMA ConnectionLostKeepsInv ==
    ASSUME InboxAssumption, InboxIInv, ConnectionLost
    PROVE  InboxIInv' /\ UNCHANGED <<Waiting, delivered>>
<1>1. Waiting' = Waiting /\ delivered' = delivered
  BY DEF ConnectionLost, Waiting
<1>2. /\ coming # Nothing /\ coming' = Nothing /\ coming.msg \in Messages /\ coming.index \in Nat
      /\ interrupted' = IF interrupted = Nobody /\ coming.index > 0 THEN coming.msg ELSE interrupted
      /\ UNCHANGED <<buffer, queue, inEvent, delivered, sent>>
  BY DEF ConnectionLost, InboxIInv, InboxTyped
<1>3. Nobody \notin Messages
  BY DEF InboxAssumption
<1>4. InboxTyped'
  BY <1>2 DEF InboxIInv, InboxTyped
<1>5. BufferOf'
  <2>1. buffer = NoBuffer => interrupted' = Nobody
    BY <1>2 DEF InboxIInv, BufferOf
  <2>2. buffer # NoBuffer => interrupted' \in Messages /\ Len(buffer) = Total[interrupted']
    BY <1>2, <1>3 DEF InboxIInv, BufferOf
  <2> QED BY <1>2, <2>1, <2>2 DEF BufferOf
<1>6. EachOnceInOrder'
  BY <1>1, <1>2 DEF InboxIInv, EachOnceInOrder, Intact
<1> QED BY <1>1, <1>4, <1>5, <1>6 DEF InboxIInv

\* The buffer that a fragment is copied into: its length, and what it holds already.
LEMMA BufferIsReady ==
    ASSUME InboxAssumption, InboxIInv, coming # Nothing
    PROVE  LET m == coming.msg
               b == BufferFor(m)
           IN  /\ b \in Buffers
               /\ interrupted = Nobody => Len(b) = Total[m]
               /\ interrupted \in Messages => buffer # NoBuffer /\ Len(b) = Total[interrupted]
               /\ Len(b) = Total[m] => \A i \in 1..coming.index : b[i] = <<m, i>>
<1> DEFINE m == coming.msg
<1>1. m \in Messages /\ coming.index \in Nat /\ Total[m] \in Nat /\ Nobody \notin Messages
  BY DEF InboxIInv, InboxTyped, InboxAssumption
<1>2. CASE buffer = NoBuffer
  <2>1. BufferFor(m) = Allocated(m) /\ interrupted = Nobody /\ coming.index = 0
    BY <1>2 DEF InboxIInv, BufferOf, BufferFor
  <2>2. Allocated(m) \in [1..Total[m] -> Cell]
    BY DEF Allocated, Cell
  <2>3. Allocated(m) \in Buffers
    BY <1>1, <2>2 DEF Buffers
  <2>4. Len(Allocated(m)) = Total[m]
    BY <1>1 DEF Allocated
  <2> QED BY <1>1, <2>1, <2>3, <2>4
<1>3. CASE buffer # NoBuffer
  <2>1. BufferFor(m) = buffer /\ buffer \in Buffers
    BY <1>3 DEF InboxIInv, InboxTyped, BufferFor
  <2> QED BY <1>1, <1>3, <2>1 DEF InboxIInv, BufferOf
<1> QED BY <1>2, <1>3

\* Copying a fragment into a buffer.
LEMMA CopiedFragment ==
    ASSUME InboxAssumption, NEW b \in Buffers, NEW m \in Messages, NEW index \in Nat, NEW n \in Nat
    PROVE  /\ Copied(b, m, index, n) \in Buffers
           /\ Len(Copied(b, m, index, n)) = Len(b) /\ Len(b) \in Nat
           /\ index + n <= Len(b) /\ (\A i \in 1..index : b[i] = <<m, i>>) =>
                 \A i \in 1..(index + n) : Copied(b, m, index, n)[i] = <<m, i>>
<1>1. PICK k \in Messages : b \in [1..Total[k] -> Cell]
  BY DEF Buffers
<1>2. Total[k] \in Nat /\ Len(b) = Total[k]
  BY <1>1 DEF InboxAssumption
<1>3. CASE index + n <= Len(b)
  <2> DEFINE c == [i \in 1..Len(b) |-> IF i \in index + 1 .. index + n THEN <<m, i>> ELSE b[i]]
  <2>1. Copied(b, m, index, n) = c
    BY <1>3 DEF Copied
  <2>2. c \in [1..Total[k] -> Cell]
    BY <1>1, <1>2 DEF Cell
  <2>3. c \in Buffers
    BY <2>2 DEF Buffers
  <2>4. Len(c) = Len(b)
    BY <1>2
  <2>5. (\A i \in 1..index : b[i] = <<m, i>>) => \A i \in 1..(index + n) : c[i] = <<m, i>>
    BY <1>2, <1>3
  <2> HIDE DEF c
  <2> QED BY <1>2, <2>1, <2>3, <2>4, <2>5
<1>4. CASE ~(index + n <= Len(b))
  BY <1>2, <1>4 DEF Copied
<1> QED BY <1>3, <1>4

\* onMqttMessage(): a fragment that completes nothing changes the buffer only; the last one
\* puts the message behind those that wait.
LEMMA FragmentKeepsInv ==
    ASSUME InboxAssumption, InboxIInv, NEW n \in Nat, OnMqttMessage(n)
    PROVE  /\ InboxIInv'
           /\ UNCHANGED delivered
           /\ \/ UNCHANGED Waiting
              \/ \E text \in Strings : Waiting' = Append(Waiting, text)
<1> DEFINE m == coming.msg
           b == BufferFor(m)
           cells == Copied(b, m, coming.index, n)
           next == coming.index + n
<1>1. /\ coming # Nothing /\ m \in Messages /\ coming.index \in Nat
      /\ Total[m] \in Nat /\ next <= Total[m] /\ (n > 0 \/ Total[m] = 0)
      /\ Nobody \notin Messages
  BY DEF OnMqttMessage, InboxIInv, InboxTyped, InboxAssumption
<1>2. /\ b \in Buffers
      /\ interrupted = Nobody => Len(b) = Total[m]
      /\ interrupted \in Messages => buffer # NoBuffer /\ Len(b) = Total[interrupted]
      /\ Len(b) = Total[m] => \A i \in 1..coming.index : b[i] = <<m, i>>
  BY <1>1, BufferIsReady
<1>3. /\ cells \in Buffers /\ Len(cells) = Len(b) /\ Len(b) \in Nat
      /\ Len(b) = Total[m] => \A i \in 1..next : cells[i] = <<m, i>>
  <2> HIDE DEF b
  <2>1. /\ cells \in Buffers /\ Len(cells) = Len(b) /\ Len(b) \in Nat
        /\ next <= Len(b) /\ (\A i \in 1..coming.index : b[i] = <<m, i>>) =>
              \A i \in 1..next : cells[i] = <<m, i>>
    <3> HIDE DEF m
    <3> QED BY SMTT(30), <1>1, <1>2, CopiedFragment
  <2> HIDE DEF cells
  <2> QED BY <1>1, <1>2, <2>1
<1>4. CASE next = Total[m]
  <2> DEFINE text == StringIn(cells)
             entry == [msg |-> m, before |-> interrupted]
  <2>1. /\ queue' = Append(queue, text) /\ buffer' = NoBuffer /\ coming' = Nothing
        /\ sent' = Append(sent, entry) /\ interrupted' = Nobody
        /\ UNCHANGED <<inEvent, delivered>>
    BY <1>4 DEF OnMqttMessage
  <2>2. text \in Strings /\ entry \in [msg : Messages, before : Messages \cup {Nobody}]
    BY <1>1, <1>3 DEF Strings, InboxIInv, InboxTyped
  <2>3. Intact(text, entry)
    <3>1. CASE Len(b) = Total[m]
      <4>1. PICK k \in Messages : cells \in [1..Total[k] -> Cell]
        BY <1>3 DEF Buffers
      <4>2. Total[k] \in Nat /\ Len(cells) = Total[k]
        BY <4>1 DEF InboxAssumption
      <4>3. cells = [i \in 1..Total[m] |-> cells[i]]
        <5> HIDE DEF cells
        <5> QED BY <3>1, <4>1, <4>2, <1>3
      <4>4. cells = Text(m)
        <5> HIDE DEF cells
        <5> QED BY <3>1, <4>3, <1>3, <1>4 DEF Text
      <4> QED BY <4>4, <1>1, StringOfText DEF Intact
    <3>2. CASE Len(b) # Total[m]
      <4>1. interrupted \in Messages /\ Total[interrupted] # Total[m]
        BY <3>2, <1>2 DEF InboxIInv, InboxTyped
      <4> QED BY <4>1, <1>1 DEF Intact
    <3> QED BY <3>1, <3>2
  <2> HIDE DEF text, entry
  <2>4. queue \in Seq(Strings) /\ delivered \in Seq(Strings) /\ inEvent \in BOOLEAN
        /\ (inEvent => queue # <<>>) /\ Waiting \in Seq(Strings)
        /\ sent \in Seq([msg : Messages, before : Messages \cup {Nobody}])
    BY DEF InboxIInv, InboxTyped, Waiting
  <2>5. Append(queue, text) \in Seq(Strings) /\ Append(queue, text) # <<>>
        /\ Append(sent, entry) \in Seq([msg : Messages, before : Messages \cup {Nobody}])
    <3>1. \A S : \A s \in Seq(S), e \in S : Append(s, e) \in Seq(S) /\ Append(s, e) # <<>>
      OBVIOUS
    <3> QED BY <2>2, <2>4, <3>1
  <2>6. Waiting' = Append(Waiting, text)
    <3>1. CASE inEvent
      <4>1. Tail(Append(queue, text)) = Append(Tail(queue), text)
        BY <2>2, <2>4, <3>1
      <4> QED BY <2>1, <3>1, <4>1 DEF Waiting
    <3>2. CASE ~inEvent
      BY <2>1, <3>2 DEF Waiting
    <3> QED BY <3>1, <3>2
  <2>7. InboxTyped'
    BY <2>1, <2>4, <2>5, Zenon DEF InboxTyped
  <2>8. BufferOf'
    BY <2>1 DEF BufferOf
  <2>9. delivered' \o Waiting' = Append(delivered \o Waiting, text) /\ delivered \o Waiting \in Seq(Strings)
    <3>1. delivered \o Append(Waiting, text) = Append(delivered \o Waiting, text)
      BY SMTT(30), <2>2, <2>4, AppendToSecond
    <3> QED BY <2>1, <2>4, <2>6, <3>1
  <2>10. EachOnceInOrder'
    <3> DEFINE all == delivered \o Waiting
    <3>1. Len(all) = Len(sent) /\ \A i \in 1..Len(sent) : Intact(all[i], sent[i])
      BY DEF InboxIInv, EachOnceInOrder
    <3>2. all \in Seq(Strings) /\ all' = Append(all, text)
      BY <2>9
    <3> HIDE DEF all
    <3>3. Len(all') = Len(sent')
      BY <3>1, <3>2, <2>1, <2>2, <2>4
    <3>4. \A i \in 1..Len(sent') : Intact(all'[i], sent'[i])
      BY <3>1, <3>2, <2>1, <2>2, <2>3, <2>4
    <3>5. \A i \in 1..Len(sent') : Intact(all[i], sent[i])'
      BY <3>4 DEF Intact
    <3> QED BY <3>3, <3>5 DEF EachOnceInOrder, all
  <2> QED BY <2>1, <2>2, <2>6, <2>7, <2>8, <2>10 DEF InboxIInv
<1>5. CASE next # Total[m]
  <2>1. /\ buffer' = cells
        /\ coming' = [coming EXCEPT !.index = @ + n]
        /\ UNCHANGED <<queue, sent, interrupted, inEvent, delivered>>
    BY <1>5 DEF OnMqttMessage
  <2>2. /\ coming' \in [msg : Messages, index : Nat]
        /\ coming'.msg = m /\ coming'.index = next /\ next > 0
    BY <1>1, <1>5, <2>1 DEF InboxIInv, InboxTyped
  <2>3. Waiting' = Waiting
    BY <2>1 DEF Waiting
  <2>4. InboxTyped'
    BY <1>1, <1>3, <2>1, <2>2 DEF InboxIInv, InboxTyped
  <2>5. buffer' # NoBuffer
    <3>1. CASE interrupted = Nobody
      <4>1. Len(cells) > 0
        BY <3>1, <1>1, <1>2, <1>3, <1>5
      <4> QED BY <4>1, <2>1 DEF NoBuffer
    <3>2. CASE interrupted \in Messages
      <4>1. buffer # NoBuffer /\ b = buffer /\ Len(b) \in Nat /\ buffer \in Buffers
        BY <3>2, <1>2, <1>3 DEF BufferFor, InboxIInv, InboxTyped
      <4>2. PICK k \in Messages : buffer \in [1..Total[k] -> Cell] /\ Total[k] \in Nat
        BY <4>1 DEF Buffers, InboxAssumption
      <4>3. Len(buffer) = Total[k] /\ (Total[k] = 0 => buffer = <<>>)
        BY <4>2
      <4>4. Len(buffer) # 0
        BY <4>1, <4>3 DEF NoBuffer
      <4> QED BY <4>1, <4>4, <1>3, <2>1 DEF NoBuffer
    <3> QED BY <3>1, <3>2 DEF InboxIInv, InboxTyped
  <2>6. BufferOf'
    <3> HIDE DEF cells, b
    <3>1. interrupted' = Nobody \/ interrupted' \in Messages
      BY <2>1 DEF InboxIInv, InboxTyped
    <3> QED BY <1>2, <1>3, <2>1, <2>2, <2>5, <3>1 DEF BufferOf, Nothing
  <2>7. EachOnceInOrder'
    BY <2>1, <2>3 DEF InboxIInv, EachOnceInOrder, Intact
  <2> QED BY <2>1, <2>3, <2>4, <2>6, <2>7 DEF InboxIInv
<1> QED BY <1>4, <1>5

-------------------------------------------------------------------------------
(* The theorems.                                                             *)

\* One action of the next-state relation at a time.
LEMMA InboxStepKeepsInv ==
    ASSUME InboxAssumption, InboxIInv, [InboxNext]_inboxVars PROVE InboxIInv'
<1>1. CASE \E m \in Messages : BrokerSends(m)
  BY <1>1, BrokerSendsKeepsInv
<1>2. CASE ConnectionLost
  BY <1>2, ConnectionLostKeepsInv
<1>3. CASE \E m \in Messages : \E n \in 0..Total[m] : OnMqttMessage(n)
  <2>1. \E n \in Nat : OnMqttMessage(n)
    BY <1>3 DEF InboxAssumption
  <2> QED BY <2>1, FragmentKeepsInv
<1>4. CASE DispatchFront
  BY <1>4, FrontKeepsInv
<1>5. CASE DispatchPop
  BY <1>5, PopKeepsInv
<1>6. CASE UNCHANGED inboxVars
  BY <1>6 DEF inboxVars, InboxIInv, InboxTyped, BufferOf, EachOnceInOrder, Intact, Waiting
<1> QED BY <1>1, <1>2, <1>3, <1>4, <1>5, <1>6 DEF InboxNext

\* The inductive invariant holds in every state.
LEMMA AlwaysIInv == ASSUME InboxAssumption PROVE InboxSpec => []InboxIInv
<1>1. InboxStart => InboxIInv
  BY InboxStartIsInv
<1>2. InboxIInv /\ [InboxNext]_inboxVars => InboxIInv'
  BY InboxStepKeepsInv
<1> QED BY <1>1, <1>2, PTL DEF InboxSpec

\* What is queued is text without a zero, a buffer never outgrows its message, and every
\* message goes over the bus once, in the order of arrival and as it was sent, unless one of
\* another length was interrupted before it: onMqttMessage() and dispatch().
THEOREM InboxIsCorrect == ASSUME InboxAssumption PROVE InboxSpec => []InboxInv
<1>1. InboxIInv => InboxInv
  <2> SUFFICES ASSUME InboxIInv PROVE InboxInv
    OBVIOUS
  <2>1. coming # Nothing => coming.index <= Total[coming.msg]
    BY DEF InboxIInv, InboxTyped
  <2>2. buffer = NoBuffer \/ \E m \in Messages : Len(buffer) = Total[m]
    <3> SUFFICES ASSUME buffer \in Buffers PROVE \E m \in Messages : Len(buffer) = Total[m]
      BY DEF InboxIInv, InboxTyped
    <3>1. PICK m \in Messages : buffer \in [1..Total[m] -> Cell]
      BY DEF Buffers
    <3> QED BY <3>1 DEF InboxAssumption
  <2>3. \A i \in 1..Len(queue) : ZeroByte \notin Range(queue[i])
    <3>1. \A i \in 1..Len(queue) : queue[i] \in Strings
      BY DEF InboxIInv, InboxTyped
    <3> QED BY <3>1, StringHasNoZero
  <2>4. InboxTypeOK
    BY <2>1, <2>2, <2>3, Zenon DEF InboxIInv, InboxTyped, InboxTypeOK
  <2> QED BY <2>4 DEF InboxIInv, InboxInv
<1> QED BY <1>1, AlwaysIInv, PTL

\* To the rest of the program the inbox is a mailbox: each step of the two tasks puts one
\* message, takes the one that has waited longest, or changes neither.
THEOREM InboxIsMailbox == ASSUME InboxAssumption PROVE InboxSpec => Inbox!Spec
<1>1. InboxStart => Inbox!Init
  BY DEF InboxStart, Inbox!Init, Waiting
<1>2. InboxIInv /\ [InboxNext]_inboxVars => [Inbox!Next]_<<Waiting, delivered>>
  <2> SUFFICES ASSUME InboxIInv, [InboxNext]_inboxVars PROVE [Inbox!Next]_<<Waiting, delivered>>
    OBVIOUS
  <2>1. CASE \E m \in Messages : BrokerSends(m)
    BY <2>1, BrokerSendsKeepsInv
  <2>2. CASE ConnectionLost
    BY <2>2, ConnectionLostKeepsInv
  <2>3. CASE \E m \in Messages : \E n \in 0..Total[m] : OnMqttMessage(n)
    <3>1. PICK n \in Nat : OnMqttMessage(n)
      BY <2>3 DEF InboxAssumption
    <3>2. /\ UNCHANGED delivered
          /\ UNCHANGED Waiting \/ \E text \in Strings : Waiting' = Append(Waiting, text)
      BY <3>1, FragmentKeepsInv
    <3>3. ASSUME NEW text \in Strings, Waiting' = Append(Waiting, text) PROVE Inbox!PutAny
      <4>1. Waiting \in Seq(Strings)
        BY DEF InboxIInv, InboxTyped, Waiting
      <4>2. \A s \in Seq(Strings) : Append(s, text) # <<>> /\ Append(s, text)[Len(Append(s, text))] = text
        OBVIOUS
      <4>3. Waiting' # <<>> /\ Waiting'[Len(Waiting')] = text
        BY <3>3, <4>1, <4>2
      <4> QED BY <3>2, <3>3, <4>3 DEF Inbox!PutAny, Inbox!Put
    <3> QED BY <3>2, <3>3 DEF Inbox!Next
  <2>4. CASE DispatchFront
    BY <2>4, FrontKeepsInv DEF Inbox!Next, Inbox!Take
  <2>5. CASE DispatchPop
    BY <2>5, PopKeepsInv
  <2>6. CASE UNCHANGED inboxVars
    BY <2>6 DEF inboxVars, Waiting
  <2> QED BY <2>1, <2>2, <2>3, <2>4, <2>5, <2>6 DEF InboxNext
<1> QED BY <1>1, <1>2, AlwaysIInv, PTL DEF InboxSpec, Inbox!Spec
===============================================================================
