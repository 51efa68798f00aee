------------------------------- MODULE BusProofs -------------------------------
(***************************************************************************)
(* Proofs about the message bus, for every set of receivers and tasks and  *)
(* every depth of nesting, and about the reboot protocol that runs on it,  *)
(* for every number of tasks, modules and requests.                        *)
(***************************************************************************)
EXTENDS ApplReboot, SequenceTheorems, TLAPS

-------------------------------------------------------------------------------
(* Sequences.                                                                *)

\* A prefix of a sequence, and a sequence without its last element.
LEMMA PrefixSeq ==
    ASSUME NEW S, NEW q \in Seq(S), NEW n \in Nat, n <= Len(q)
    PROVE  /\ SubSeq(q, 1, n) \in Seq(S)
           /\ Len(SubSeq(q, 1, n)) = n
           /\ \A i \in 1..n : SubSeq(q, 1, n)[i] = q[i]
  OBVIOUS

LEMMA FrontSeq ==
    ASSUME NEW S, NEW q \in Seq(S), q # <<>>
    PROVE  /\ SubSeq(q, 1, Len(q) - 1) \in Seq(S)
           /\ Len(SubSeq(q, 1, Len(q) - 1)) = Len(q) - 1
           /\ \A i \in 1..(Len(q) - 1) : SubSeq(q, 1, Len(q) - 1)[i] = q[i]
<1>1. Len(q) - 1 \in Nat /\ Len(q) - 1 <= Len(q)
  BY EmptySeq
<1>2. QED
  BY <1>1, PrefixSeq, Zenon

\* A sequence with one more element.
LEMMA AppendSeq ==
    ASSUME NEW S, NEW q \in Seq(S), NEW e \in S
    PROVE  /\ Append(q, e) \in Seq(S)
           /\ Len(Append(q, e)) = Len(q) + 1
           /\ Append(q, e)[Len(q) + 1] = e
           /\ \A i \in 1..Len(q) : Append(q, e)[i] = q[i]
  OBVIOUS

\* A sequence whose last element is replaced before another one is added.
LEMMA ReplaceAppendSeq ==
    ASSUME NEW S, NEW q \in Seq(S), q # <<>>, NEW g \in S, NEW n \in S,
           NEW r, r = Append([q EXCEPT ![Len(q)] = g], n)
    PROVE  /\ Len(q) \in 1..Len(q)
           /\ r \in Seq(S)
           /\ Len(r) = Len(q) + 1
           /\ r[Len(q) + 1] = n
           /\ r[Len(q)] = g
           /\ \A i \in 1..(Len(q) - 1) : r[i] = q[i]
<1> DEFINE p == [q EXCEPT ![Len(q)] = g]
<1>1. Len(q) \in Nat \ {0} /\ Len(q) \in 1..Len(q)
  BY EmptySeq
<1>2. /\ p \in Seq(S)
      /\ Len(p) = Len(q)
      /\ \A j \in 1..Len(q) : p[j] = IF j = Len(q) THEN g ELSE q[j]
  BY <1>1, ExceptSeq
<1> HIDE DEF p
<1>3. /\ Append(p, n) \in Seq(S)
      /\ Len(Append(p, n)) = Len(q) + 1
      /\ Append(p, n)[Len(q) + 1] = n
      /\ \A j \in 1..Len(q) : Append(p, n)[j] = p[j]
  BY <1>2, AppendSeq
<1>4. \A i \in 1..(Len(q) - 1) : i \in 1..Len(q) /\ i # Len(q)
  BY <1>1
<1>5. QED
  BY <1>1, <1>2, <1>3, <1>4 DEF p

-------------------------------------------------------------------------------
(* The stacks of activations.                                                *)

\* SetTop changes the last activation of one task and nothing else.
LEMMA SetTopFrames ==
    ASSUME stack \in [Tasks -> Seq(Frames)], NEW t \in Tasks, Busy(t),
           NEW f \in Frames, SetTop(t, f)
    PROVE  /\ stack' \in [Tasks -> Seq(Frames)]
           /\ \A u \in Tasks : u # t => stack'[u] = stack[u]
           /\ Len(stack'[t]) = Len(stack[t])
           /\ Len(stack[t]) \in 1..Len(stack[t])
           /\ stack'[t][Len(stack[t])] = f
           /\ \A i \in 1..(Len(stack[t]) - 1) : stack'[t][i] = stack[t][i]
<1> DEFINE s == stack[t]
<1>1. /\ s \in Seq(Frames)
      /\ Len(s) \in Nat \ {0}
  BY EmptySeq DEF Busy
<1>2. Len(s) \in 1..Len(s)
  BY <1>1
<1>3. stack'[t] = [s EXCEPT ![Len(s)] = f]
  BY DEF SetTop
<1>4. /\ [s EXCEPT ![Len(s)] = f] \in Seq(Frames)
      /\ Len([s EXCEPT ![Len(s)] = f]) = Len(s)
      /\ \A j \in 1..Len(s) :
            [s EXCEPT ![Len(s)] = f][j] = IF j = Len(s) THEN f ELSE s[j]
  BY <1>1, <1>2, ExceptSeq
<1>5. stack' \in [Tasks -> Seq(Frames)]
  BY <1>4 DEF SetTop
<1>6. \A u \in Tasks : u # t => stack'[u] = stack[u]
  BY DEF SetTop
<1>7. \A i \in 1..(Len(s) - 1) : i \in 1..Len(s) /\ i # Len(s)
  BY <1>1
<1>8. QED
  BY <1>2, <1>3, <1>4, <1>5, <1>6, <1>7

\* Push adds an activation to one task and keeps those below.
LEMMA PushFrames ==
    ASSUME stack \in [Tasks -> Seq(Frames)], NEW t \in Tasks,
           NEW f \in Frames, Push(t, f)
    PROVE  /\ stack' \in [Tasks -> Seq(Frames)]
           /\ \A u \in Tasks : u # t => stack'[u] = stack[u]
           /\ Len(stack[t]) \in Nat
           /\ Len(stack'[t]) = Len(stack[t]) + 1
           /\ stack'[t][Len(stack[t]) + 1] = f
           /\ \A i \in 1..Len(stack[t]) : stack'[t][i] = stack[t][i]
<1>1. stack[t] \in Seq(Frames)
  OBVIOUS
<1>2. stack'[t] = Append(stack[t], f)
  BY DEF Push
<1>3. stack' \in [Tasks -> Seq(Frames)]
  BY <1>1 DEF Push
<1>4. \A u \in Tasks : u # t => stack'[u] = stack[u]
  BY DEF Push
<1>5. QED
  BY <1>1, <1>2, <1>3, <1>4

\* Pop removes the last activation of one task and keeps those below.
LEMMA PopFrames ==
    ASSUME stack \in [Tasks -> Seq(Frames)], NEW t \in Tasks, Busy(t), Pop(t)
    PROVE  /\ stack' \in [Tasks -> Seq(Frames)]
           /\ \A u \in Tasks : u # t => stack'[u] = stack[u]
           /\ Len(stack[t]) \in Nat
           /\ Len(stack'[t]) = Len(stack[t]) - 1
           /\ \A i \in 1..(Len(stack[t]) - 1) : stack'[t][i] = stack[t][i]
<1> DEFINE s == stack[t]
<1>1. /\ s \in Seq(Frames)
      /\ Len(s) \in Nat \ {0}
  BY EmptySeq DEF Busy
<1>3. /\ SubSeq(s, 1, Len(s) - 1) \in Seq(Frames)
      /\ Len(SubSeq(s, 1, Len(s) - 1)) = Len(s) - 1
      /\ \A i \in 1..(Len(s) - 1) : SubSeq(s, 1, Len(s) - 1)[i] = s[i]
  BY FrontSeq DEF Busy
<1>4. stack'[t] = SubSeq(s, 1, Len(s) - 1)
  BY DEF Pop
<1>5. QED
  BY <1>1, <1>3, <1>4 DEF Pop

\* A nested event marks the last activation and adds one to it.
LEMMA NestFrames ==
    ASSUME stack \in [Tasks -> Seq(Frames)], NEW t \in Tasks, Busy(t),
           NEW m, NEW s, NewFrame(m, s, FALSE) \in Frames, Nest(t, m, s)
    PROVE  /\ stack' \in [Tasks -> Seq(Frames)]
           /\ \A u \in Tasks : u # t => stack'[u] = stack[u]
           /\ Len(stack[t]) \in 1..Len(stack[t])
           /\ Len(stack'[t]) = Len(stack[t]) + 1
           /\ stack'[t][Len(stack[t]) + 1] = NewFrame(m, s, FALSE)
           /\ stack'[t][Len(stack[t])] = [Top(t) EXCEPT !.nested = TRUE]
           /\ \A i \in 1..(Len(stack[t]) - 1) : stack'[t][i] = stack[t][i]
<1>1. stack[t] \in Seq(Frames) /\ stack[t] # <<>>
  BY DEF Busy
<1>2. Top(t) \in Frames
  BY <1>1, EmptySeq, ElementOfSeq DEF Top
<1>3. [Top(t) EXCEPT !.nested = TRUE] \in Frames
  BY <1>2 DEF Frames
<1> DEFINE g == [Top(t) EXCEPT !.nested = TRUE]
           n == NewFrame(m, s, FALSE)
           r == Append([stack[t] EXCEPT ![Len(stack[t])] = g], n)
<1>4. stack' = [stack EXCEPT ![t] = r]
  BY DEF Nest
<1>5. /\ Len(stack[t]) \in 1..Len(stack[t])
      /\ r \in Seq(Frames)
      /\ Len(r) = Len(stack[t]) + 1
      /\ r[Len(stack[t]) + 1] = n
      /\ r[Len(stack[t])] = g
      /\ \A i \in 1..(Len(stack[t]) - 1) : r[i] = stack[t][i]
  <2>1. g \in Frames /\ n \in Frames
    BY <1>3
  <2> HIDE DEF g, n
  <2>2. r = Append([stack[t] EXCEPT ![Len(stack[t])] = g], n)
    OBVIOUS
  <2> HIDE DEF r
  <2>3. QED
    BY <1>1, <2>1, <2>2, ReplaceAppendSeq
<1> HIDE DEF r
<1>6. QED
  BY <1>4, <1>5

-------------------------------------------------------------------------------
(* One activation: what each step of sendEvent() makes of it.                *)

LEMMA NewFrameOK ==
    ASSUME NEW m \in Messages, NEW s \in Addresses, NEW force \in BOOLEAN,
           table \in Seq(Receivers)
    PROVE  /\ NewFrame(m, s, force) \in Frames
           /\ FrameOK(NewFrame(m, s, force))
<1>1. NewFrame(m, s, force) \in Frames
  BY EmptySeq DEF NewFrame, Frames, OK
<1>2. FrameOK(NewFrame(m, s, force))
  BY EmptySeq DEF NewFrame, FrameOK, FirstPassOK, OK, STOP
<1>3. QED
  BY <1>1, <1>2

Delivered(f) ==
    LET r == Walked(f)[f.pos]
        skipped == f.pass = "first" /\ f.sender = InterfaceOf(r)
    IN  [f EXCEPT !.pos    = @ + 1,
                  !.nested = FALSE,
                  !.cur    = IF skipped THEN NoReceiver ELSE r]

LEMMA DeliveredOK ==
    ASSUME table \in Seq(Receivers), Distinct,
           NEW f \in Frames, FrameOK(f), Walking(f), More(f)
    PROVE  Delivered(f) \in Frames /\ FrameOK(Delivered(f))
<1> DEFINE g == Delivered(f)
<1>0. Walked(f) \in Seq(Receivers)
  BY DEF Walked, Frames
<1>1. f.pos \in 1..Len(Walked(f)) /\ Walked(f)[f.pos] \in Receivers
  BY <1>0, ElementOfSeq DEF More, Frames
<1>2. g \in Frames
  <2> DEFINE p == f.pos + 1
             c == IF f.pass = "first" /\ f.sender = InterfaceOf(Walked(f)[f.pos])
                  THEN NoReceiver ELSE Walked(f)[f.pos]
  <2>1. p \in Nat \ {0}
    BY DEF Frames
  <2>2. c \in Receivers \cup {NoReceiver}
    BY <1>1
  <2>3. g = [f EXCEPT !.pos = p, !.nested = FALSE, !.cur = c]
    BY DEF Delivered
  <2> HIDE DEF p, c, g
  <2>4. QED
    BY <2>1, <2>2, <2>3, Zenon DEF Frames
<1>3. /\ g.pass = f.pass /\ g.total = f.total /\ g.against = f.against
      /\ g.heard = f.heard /\ g.again = f.again /\ g.sender = f.sender
      /\ g.pos = f.pos + 1
  BY DEF Delivered, Frames
<1>4. f.cur = NoReceiver
  BY DEF Walking
<1>5. CASE f.pass = "first"
  <2>1. Walked(f) = table
    BY <1>5 DEF Walked
  <2> DEFINE r == table[f.pos]
  <2>2. r \in Receivers /\ r # NoReceiver /\ f.pos \in 1..Len(table)
    BY <1>1, <2>1, BusAssumption
  <2>3. r \notin f.heard
    <3>1. SUFFICES ASSUME r \in f.heard PROVE FALSE
      OBVIOUS
    <3>2. PICK j \in 1..(f.pos - 1) : r = table[j]
      BY <1>5, <3>1 DEF FrameOK, FirstPassOK
    <3>3. j \in 1..Len(table) /\ j # f.pos
      BY <2>2, <3>2
    <3>4. QED
      BY <2>2, <3>2, <3>3 DEF Distinct
  <2>4. g.cur = IF f.sender = InterfaceOf(r) THEN NoReceiver ELSE r
    BY <1>5, <2>1 DEF Delivered, Frames
  <2>5. \A j \in 1..f.pos : Settled(g, j) \/ g.cur = table[j]
    <3>1. \A j \in 1..(f.pos - 1) : Settled(f, j)
      BY <1>4, <1>5, <2>2, BusAssumption, ElementOfSeq
      DEF FrameOK, FirstPassOK, Frames
    <3>2. \A j \in 1..(f.pos - 1) : Settled(g, j)
      BY <3>1, <1>3 DEF Settled
    <3>3. Settled(g, f.pos) \/ g.cur = table[f.pos]
      BY <2>4, <1>3 DEF Settled
    <3>4. QED
      BY <3>2, <3>3, <2>2
  <2>6. FirstPassOK(f)
    BY <1>5 DEF FrameOK
  <2>7. /\ g.pos <= Len(table) + 1
        /\ g.cur # NoReceiver =>
              g.pos > 1 /\ g.cur = table[g.pos - 1] /\ g.cur \notin g.heard
    BY <1>3, <2>2, <2>3, <2>4
  <2>8. \A q \in g.heard : \E j \in 1..(g.pos - 1) : q = table[j]
    BY <1>3, <2>2, <2>6 DEF FirstPassOK
  <2>9. g.total # STOP
    BY <1>3, <1>5 DEF More, Stopped
  <2>10. FirstPassOK(g)
    BY <1>3, <2>2, <2>5, <2>6, <2>7, <2>8, <2>9 DEF FirstPassOK
  <2>11. QED
    BY <1>2, <1>3, <1>5, <2>9, <2>10 DEF FrameOK
<1>6. CASE f.pass = "again"
  BY <1>2, <1>3, <1>6 DEF FrameOK, AllSettled, Settled
<1>7. QED
  BY <1>5, <1>6 DEF Walking

LEMMA AnsweredOK ==
    ASSUME table \in Seq(Receivers), Distinct,
           NEW f \in Frames, FrameOK(f), f.cur # NoReceiver,
           NEW a \in {OK, WARN, ERROR, STOP, AGAIN}
    PROVE  Answered(f, a) \in Frames /\ FrameOK(Answered(f, a))
<1> DEFINE g == Answered(f, a)
           first == f.pass = "first"
           again == IF first /\ a = AGAIN THEN Append(f.again, f.cur) ELSE f.again
           total == IF a > f.total THEN a ELSE f.total
           heard == f.heard \cup {f.cur}
           against == IF first /\ a > OK THEN f.against \cup {f.cur} ELSE f.against
<1>1. f.cur \in Receivers
  BY DEF Frames
<1>2. again \in Seq(Receivers) /\ total \in {OK, WARN, ERROR, STOP}
  <2>1. f.again \in Seq(Receivers) /\ f.total \in {OK, WARN, ERROR, STOP}
    BY DEF Frames
  <2>2. again \in Seq(Receivers)
    BY <1>1, <2>1, AppendSeq
  <2>3. total \in {OK, WARN, ERROR, STOP}
    BY <2>1 DEF OK, WARN, ERROR, STOP, AGAIN
  <2>4. QED
    BY <2>2, <2>3
<1>3. heard \in SUBSET Receivers /\ against \in SUBSET Receivers
  BY <1>1 DEF Frames
<1>4. g = [f EXCEPT !.cur = NoReceiver, !.again = again, !.total = total,
                    !.heard = heard, !.against = against]
  BY DEF Answered
<1>5. g \in Frames
  <2> HIDE DEF g, again, total, heard, against
  <2>1. QED
    BY <1>2, <1>3, <1>4, Zenon DEF Frames
<1>6. /\ g.cur = NoReceiver /\ g.again = again /\ g.total = total
      /\ g.heard = heard /\ g.against = against
      /\ g.pass = f.pass /\ g.pos = f.pos /\ g.sender = f.sender
  <2> HIDE DEF g, again, total, heard, against
  <2>1. QED
    BY <1>4, Zenon DEF Frames
<1>7. f.pass \in {"first", "again"}
  BY DEF FrameOK
<1>8. g.against # {} => g.total # OK
  <2>1. f.total \in {OK, WARN, ERROR, STOP} /\ (f.against # {} => f.total # OK)
    BY DEF FrameOK, Frames
  <2>2. QED
    BY <1>6, <2>1 DEF OK, WARN, ERROR, STOP, AGAIN
<1>9. \A i \in 1..Len(g.again) : g.again[i] \in g.heard
  <2>1. f.again \in Seq(Receivers) /\ \A i \in 1..Len(f.again) : f.again[i] \in f.heard
    BY DEF FrameOK, Frames
  <2>2. CASE first /\ a = AGAIN
    <3>1. g.again = Append(f.again, f.cur) /\ g.heard = heard
      BY <1>6, <2>2
    <3>2. QED
      BY <1>1, <2>1, <3>1
  <2>3. CASE ~(first /\ a = AGAIN)
    BY <1>6, <2>1, <2>3
  <2>4. QED
    BY <2>2, <2>3
<1>10. \A j \in 1..Len(table) : Settled(f, j) \/ f.cur = table[j] => Settled(g, j)
  BY <1>6 DEF Settled
<1>11. CASE first
  <2>1. FirstPassOK(f)
    BY <1>11 DEF FrameOK
  <2>2. f.pos \in Nat \ {0} /\ Len(table) \in Nat
    BY DEF Frames
  <2>3. \A r \in g.heard : \E j \in 1..(g.pos - 1) : r = table[j]
    BY <1>6, <2>1, <2>2 DEF FirstPassOK
  <2>4. \A j \in 1..(g.pos - 1) : Settled(g, j)
    BY <1>6, <1>10, <2>1, <2>2 DEF FirstPassOK
  <2>5. g.against # {} <=> g.total # OK
    <3>1. f.total \in {OK, WARN, ERROR, STOP} /\ (f.against # {} <=> f.total # OK)
      BY <2>1 DEF Frames, FirstPassOK
    <3>2. a > OK => g.against # {} /\ g.total # OK
      BY <1>6, <1>11, <3>1 DEF OK, WARN, ERROR, STOP, AGAIN
    <3>3. ~(a > OK) => g.against = f.against /\ g.total = f.total
      BY <1>6, <1>11, <3>1 DEF OK, WARN, ERROR, STOP, AGAIN
    <3>4. QED
      BY <3>1, <3>2, <3>3
  <2>6. FirstPassOK(g)
    BY <1>6, <2>1, <2>3, <2>4, <2>5 DEF FirstPassOK
  <2>7. g.total = STOP => IsStopped(g)
    <3> SUFFICES ASSUME g.total = STOP PROVE IsStopped(g)
      OBVIOUS
    <3> DEFINE i == f.pos - 1
    <3>1. i \in 1..Len(table) /\ f.cur = table[i]
      BY <2>1, <2>2 DEF FirstPassOK
    <3>2. f.total # STOP /\ f.total \in {OK, WARN, ERROR, STOP}
      BY <2>1 DEF FirstPassOK, Frames
    <3>3. a = STOP
      BY <1>6, <3>2
    <3>4. table[i] \in g.against
      BY <1>6, <1>11, <3>1, <3>3 DEF OK, STOP
    <3>5. ASSUME NEW j \in (i + 1)..Len(table) PROVE table[j] \notin g.heard
      <4>1. SUFFICES ASSUME table[j] \in g.heard PROVE FALSE
        OBVIOUS
      <4>2. PICK k \in 1..(f.pos - 1) : table[j] = table[k]
        BY <1>6, <2>3, <4>1
      <4>3. j \in 1..Len(table) /\ k \in 1..Len(table) /\ j # k
        BY <2>2, <3>1, <4>2
      <4>4. QED
        BY <4>2, <4>3 DEF Distinct
    <3> HIDE DEF i
    <3>6. QED
      BY <3>1, <3>4, <3>5 DEF IsStopped, StoppedBy
  <2>8. QED
    BY <1>5, <1>6, <1>8, <1>9, <1>11, <2>6, <2>7 DEF FrameOK
<1>12. CASE f.pass = "again"
  <2>1. f.against = {} /\ AllSettled(f)
    BY <1>12 DEF FrameOK
  <2>2. AllSettled(g)
    BY <1>10, <2>1 DEF AllSettled
  <2>3. g.against = {}
    BY <1>6, <1>12, <2>1
  <2>4. QED
    BY <1>5, <1>6, <1>9, <1>12, <2>2, <2>3 DEF FrameOK
<1>13. QED
  BY <1>7, <1>11, <1>12

\* The pass of an activation that has walked its list changes.
LEMMA PassOver ==
    ASSUME table \in Seq(Receivers),
           NEW f \in Frames, FrameOK(f), Walking(f), ~More(f),
           NEW g, \/ f.pass = "first" /\ f.total = OK
                     /\ g = [f EXCEPT !.pass = "again", !.pos = 1]
                  \/ f.pass = "first" /\ f.total # OK
                     /\ g = [f EXCEPT !.pass = "done"]
                  \/ f.pass = "again" /\ g = [f EXCEPT !.pass = "done"]
    PROVE  g \in Frames /\ FrameOK(g)
<1>1. f.cur = NoReceiver
  BY DEF Walking
<1>2. g \in Frames
  <2>1. 1 \in Nat \ {0}
    OBVIOUS
  <2>2. QED
    BY <2>1, ZenonT(40) DEF Frames
<1>3. /\ g.cur = f.cur /\ g.total = f.total /\ g.heard = f.heard
      /\ g.against = f.against /\ g.again = f.again /\ g.sender = f.sender
  <2>1. CASE g = [f EXCEPT !.pass = "again", !.pos = 1]
    BY <2>1, Zenon DEF Frames
  <2>2. CASE g = [f EXCEPT !.pass = "done"]
    BY <2>2, Zenon DEF Frames
  <2>3. QED
    BY <2>1, <2>2
<1>4. f.pass = "first" => f.total = STOP \/ AllSettled(f)
  <2> SUFFICES ASSUME f.pass = "first", f.total # STOP
               PROVE  AllSettled(f)
    OBVIOUS
  <2>1. FirstPassOK(f)
    BY DEF FrameOK
  <2>2. f.pos \in Nat /\ Len(table) \in Nat
    BY DEF Frames
  <2>3. f.pos = Len(table) + 1
    BY <2>1, <2>2 DEF More, Stopped, Walked, FirstPassOK
  <2>4. \A j \in 1..Len(table) : j \in 1..(f.pos - 1) /\ table[j] # NoReceiver
    BY <2>2, <2>3, ElementOfSeq, BusAssumption
  <2>5. QED
    BY <1>1, <2>1, <2>4 DEF FirstPassOK, AllSettled
<1>5. (AllSettled(f) => AllSettled(g)) /\ (IsStopped(f) => IsStopped(g))
  BY <1>3 DEF AllSettled, Settled, IsStopped, StoppedBy
<1>6. CASE f.pass = "first" /\ f.total = OK
  <2>1. g.pass = "again"
    BY <1>6, Zenon DEF Frames
  <2>2. f.against = {} /\ AllSettled(f)
    BY <1>4, <1>6 DEF FrameOK, OK, STOP
  <2>3. QED
    BY <1>1, <1>2, <1>3, <1>5, <2>1, <2>2 DEF FrameOK
<1>7. CASE f.pass = "first" /\ f.total # OK
  <2>1. g.pass = "done"
    BY <1>7, Zenon DEF Frames
  <2>2. QED
    BY <1>1, <1>2, <1>3, <1>4, <1>5, <1>7, <2>1 DEF FrameOK
<1>8. CASE f.pass = "again"
  <2>1. g.pass = "done"
    BY <1>8, Zenon DEF Frames
  <2>2. QED
    BY <1>1, <1>2, <1>3, <1>5, <1>8, <2>1 DEF FrameOK
<1>9. QED
  BY <1>6, <1>7, <1>8

-------------------------------------------------------------------------------
(* The invariant of the bus, step by step.                                   *)

\* An activation of task t may change only into one that is in order.
LEMMA FramesKeepInv ==
    ASSUME BusInv, table' = table, stack' \in [Tasks -> Seq(Frames)],
           NEW t \in Tasks, \A u \in Tasks : u # t => stack'[u] = stack[u],
           \A i \in 1..Len(stack'[t]) :
              \/ i \in 1..Len(stack[t]) /\ stack'[t][i] = stack[t][i]
              \/ FrameOK(stack'[t][i])
    PROVE  BusInv'
<1>1. TypeOK' /\ Distinct'
  BY DEF BusInv, TypeOK, Distinct
<1>3. ASSUME NEW u \in Tasks, NEW i \in 1..Len(stack'[u])
      PROVE  FrameOK(stack'[u][i])
  <2>1. CASE u # t
    BY <2>1 DEF BusInv
  <2>2. CASE u = t
    BY <2>2 DEF BusInv
  <2>3. QED
    BY <2>1, <2>2
<1>4. ASSUME NEW u \in Tasks, NEW i \in 1..Len(stack'[u])
      PROVE  FrameOK(stack[u][i])'
  <2> DEFINE f == stack'[u][i]
  <2>1. FrameOK(f)
    BY <1>3, <1>4
  <2> HIDE DEF f
  <2>2. QED
    BY <2>1 DEF FrameOK, FirstPassOK, AllSettled, Settled, IsStopped, StoppedBy, f
<1>5. QED
  BY <1>1, <1>4 DEF BusInv

LEMMA StutterInv ==
    ASSUME BusInv, stack' = stack, table' = table
    PROVE  BusInv'
<1>1. stack' \in [Tasks -> Seq(Frames)]
  BY DEF BusInv, TypeOK
<1>2. CASE Tasks = {}
  BY <1>2 DEF BusInv, TypeOK, Distinct
<1>3. CASE Tasks # {}
  <2>1. PICK t \in Tasks : TRUE
    BY <1>3
  <2>2. QED
    BY <1>1, <2>1, FramesKeepInv
<1>4. QED
  BY <1>2, <1>3

LEMMA TopOK ==
    ASSUME BusInv, NEW t \in Tasks, Busy(t)
    PROVE  Top(t) \in Frames /\ FrameOK(Top(t)) /\ Len(stack[t]) \in 1..Len(stack[t])
<1>1. Len(stack[t]) \in 1..Len(stack[t])
  BY EmptySeq DEF BusInv, TypeOK, Busy
<1>2. QED
  BY <1>1, ElementOfSeq DEF BusInv, TypeOK, Top

\* A changed last activation that is in order keeps the invariant.
LEMMA SetTopInv ==
    ASSUME BusInv, NEW t \in Tasks, Busy(t), table' = table,
           NEW f \in Frames, FrameOK(f), SetTop(t, f)
    PROVE  BusInv'
<1>1. stack \in [Tasks -> Seq(Frames)]
  BY DEF BusInv, TypeOK
<1>2. /\ stack' \in [Tasks -> Seq(Frames)]
      /\ \A u \in Tasks : u # t => stack'[u] = stack[u]
      /\ Len(stack'[t]) = Len(stack[t])
      /\ Len(stack[t]) \in 1..Len(stack[t])
      /\ stack'[t][Len(stack[t])] = f
      /\ \A i \in 1..(Len(stack[t]) - 1) : stack'[t][i] = stack[t][i]
  BY <1>1, SetTopFrames
<1>3. ASSUME NEW i \in 1..Len(stack'[t])
      PROVE  \/ i \in 1..Len(stack[t]) /\ stack'[t][i] = stack[t][i]
             \/ FrameOK(stack'[t][i])
  <2>1. CASE i = Len(stack[t])
    BY <1>2, <2>1
  <2>2. CASE i # Len(stack[t])
    <3>1. i \in 1..(Len(stack[t]) - 1) /\ i \in 1..Len(stack[t])
      BY <1>2, <2>2
    <3>2. QED
      BY <1>2, <3>1
  <2>3. QED
    BY <2>1, <2>2
<1>4. QED
  BY <1>2, <1>3, FramesKeepInv

LEMMA PushInv ==
    ASSUME BusInv, NEW t \in Tasks, table' = table,
           NEW f \in Frames, FrameOK(f), Push(t, f)
    PROVE  BusInv'
<1>1. stack \in [Tasks -> Seq(Frames)]
  BY DEF BusInv, TypeOK
<1>2. /\ stack' \in [Tasks -> Seq(Frames)]
      /\ \A u \in Tasks : u # t => stack'[u] = stack[u]
      /\ Len(stack[t]) \in Nat
      /\ Len(stack'[t]) = Len(stack[t]) + 1
      /\ stack'[t][Len(stack[t]) + 1] = f
      /\ \A i \in 1..Len(stack[t]) : stack'[t][i] = stack[t][i]
  BY <1>1, PushFrames
<1>3. ASSUME NEW i \in 1..Len(stack'[t])
      PROVE  \/ i \in 1..Len(stack[t]) /\ stack'[t][i] = stack[t][i]
             \/ FrameOK(stack'[t][i])
  BY <1>2
<1>4. QED
  BY <1>2, <1>3, FramesKeepInv

LEMMA PopInv ==
    ASSUME BusInv, NEW t \in Tasks, Busy(t), table' = table, Pop(t)
    PROVE  BusInv'
<1>1. stack \in [Tasks -> Seq(Frames)]
  BY DEF BusInv, TypeOK
<1>2. /\ stack' \in [Tasks -> Seq(Frames)]
      /\ \A u \in Tasks : u # t => stack'[u] = stack[u]
      /\ Len(stack[t]) \in Nat
      /\ Len(stack'[t]) = Len(stack[t]) - 1
      /\ \A i \in 1..(Len(stack[t]) - 1) : stack'[t][i] = stack[t][i]
  BY <1>1, PopFrames
<1>3. ASSUME NEW i \in 1..Len(stack'[t])
      PROVE  i \in 1..Len(stack[t]) /\ stack'[t][i] = stack[t][i]
  BY <1>2
<1>4. QED
  BY <1>2, <1>3, FramesKeepInv

LEMMA NestInv ==
    ASSUME BusInv, NEW t \in Tasks, Busy(t),
           NEW m \in Messages, NEW s \in Addresses, Nest(t, m, s)
    PROVE  BusInv'
<1>1. stack \in [Tasks -> Seq(Frames)] /\ table \in Seq(Receivers) /\ table' = table
  BY DEF BusInv, TypeOK, Nest
<1>2. NewFrame(m, s, FALSE) \in Frames /\ FrameOK(NewFrame(m, s, FALSE))
  BY <1>1, NewFrameOK
<1> DEFINE g == [Top(t) EXCEPT !.nested = TRUE]
<1>3. /\ stack' \in [Tasks -> Seq(Frames)]
      /\ \A u \in Tasks : u # t => stack'[u] = stack[u]
      /\ Len(stack[t]) \in 1..Len(stack[t])
      /\ Len(stack'[t]) = Len(stack[t]) + 1
      /\ stack'[t][Len(stack[t]) + 1] = NewFrame(m, s, FALSE)
      /\ stack'[t][Len(stack[t])] = g
      /\ \A i \in 1..(Len(stack[t]) - 1) : stack'[t][i] = stack[t][i]
  BY <1>1, <1>2, NestFrames
<1>4. FrameOK(g)
  <2>1. Top(t) \in Frames /\ FrameOK(Top(t))
    BY TopOK
  <2>2. /\ g.cur = Top(t).cur /\ g.total = Top(t).total /\ g.heard = Top(t).heard
        /\ g.against = Top(t).against /\ g.again = Top(t).again
        /\ g.sender = Top(t).sender /\ g.pass = Top(t).pass /\ g.pos = Top(t).pos
    BY <2>1, Zenon DEF Frames
  <2> DEFINE f == Top(t)
  <2> HIDE DEF f, g
  <2>3. /\ (AllSettled(f) <=> AllSettled(g)) /\ \A j : Settled(f, j) <=> Settled(g, j)
        /\ IsStopped(f) <=> IsStopped(g)
    BY <2>2 DEF AllSettled, Settled, IsStopped, StoppedBy, f
  <2>4. FirstPassOK(f) => FirstPassOK(g)
    BY <2>2, <2>3 DEF FirstPassOK, f
  <2>5. QED
    BY <2>1, <2>2, <2>3, <2>4 DEF FrameOK, f
<1> HIDE DEF g
<1>5. ASSUME NEW i \in 1..Len(stack'[t])
      PROVE  \/ i \in 1..Len(stack[t]) /\ stack'[t][i] = stack[t][i]
             \/ FrameOK(stack'[t][i])
  <2>1. i \in 1..(Len(stack[t]) - 1) \/ i = Len(stack[t]) \/ i = Len(stack[t]) + 1
    BY <1>3
  <2>2. CASE i \in 1..(Len(stack[t]) - 1)
    BY <1>3, <2>2
  <2>3. CASE i = Len(stack[t])
    BY <1>3, <1>4, <2>3
  <2>4. CASE i = Len(stack[t]) + 1
    BY <1>2, <1>3, <2>4
  <2>5. QED
    BY <2>1, <2>2, <2>3, <2>4
<1>6. QED
  BY <1>1, <1>3, <1>5, FramesKeepInv

LEMMA DeliverInv ==
    ASSUME BusInv, NEW t \in Tasks, Deliver(t)
    PROVE  BusInv'
<1>1. Busy(t) /\ Walking(Top(t)) /\ More(Top(t)) /\ table' = table
  BY DEF Deliver
<1>2. SetTop(t, Delivered(Top(t)))
  BY DEF Deliver, Delivered
<1>3. Top(t) \in Frames /\ FrameOK(Top(t))
  BY <1>1, TopOK
<1>4. Delivered(Top(t)) \in Frames /\ FrameOK(Delivered(Top(t)))
  BY <1>1, <1>3, DeliveredOK DEF BusInv, TypeOK
<1>5. QED
  BY <1>1, <1>2, <1>4, SetTopInv

LEMMA AnswerInv ==
    ASSUME BusInv, NEW t \in Tasks, NEW a \in {OK, WARN, ERROR, STOP, AGAIN}, Answer(t, a)
    PROVE  BusInv'
<1>1. Busy(t) /\ Top(t).cur # NoReceiver /\ table' = table /\ SetTop(t, Answered(Top(t), a))
  BY DEF Answer, Called
<1>2. Top(t) \in Frames /\ FrameOK(Top(t))
  BY <1>1, TopOK
<1>3. Answered(Top(t), a) \in Frames /\ FrameOK(Answered(Top(t), a))
  BY <1>1, <1>2, AnsweredOK DEF BusInv, TypeOK
<1>4. QED
  BY <1>1, <1>3, SetTopInv

LEMMA EndFirstInv ==
    ASSUME BusInv, NEW t \in Tasks, EndFirst(t)
    PROVE  BusInv'
<1> DEFINE f == Top(t)
           g == IF f.total = OK THEN [f EXCEPT !.pass = "again", !.pos = 1]
                                ELSE [f EXCEPT !.pass = "done"]
<1>1. /\ Busy(t) /\ table' = table /\ SetTop(t, g)
      /\ f.pass = "first" /\ Walking(f) /\ ~More(f)
  BY DEF EndFirst
<1>2. f \in Frames /\ FrameOK(f)
  BY <1>1, TopOK
<1>3. \/ f.total = OK /\ g = [f EXCEPT !.pass = "again", !.pos = 1]
      \/ f.total # OK /\ g = [f EXCEPT !.pass = "done"]
  OBVIOUS
<1> HIDE DEF f, g
<1>4. g \in Frames /\ FrameOK(g)
  BY <1>1, <1>2, <1>3, PassOver DEF BusInv, TypeOK
<1>5. QED
  BY <1>1, <1>4, SetTopInv

LEMMA EndAgainInv ==
    ASSUME BusInv, NEW t \in Tasks, EndAgain(t)
    PROVE  BusInv'
<1> DEFINE f == Top(t)
           g == [f EXCEPT !.pass = "done"]
<1>1. /\ Busy(t) /\ table' = table /\ SetTop(t, g)
      /\ f.pass = "again" /\ Walking(f) /\ ~More(f)
  BY DEF EndAgain
<1>2. f \in Frames /\ FrameOK(f)
  BY <1>1, TopOK
<1>3. g = [f EXCEPT !.pass = "done"]
  OBVIOUS
<1> HIDE DEF f, g
<1>4. g \in Frames /\ FrameOK(g)
  BY <1>1, <1>2, <1>3, PassOver DEF BusInv, TypeOK
<1>5. QED
  BY <1>1, <1>4, SetTopInv

LEMMA RegisterInv ==
    ASSUME BusInv, NEW r \in Receivers, Register(r)
    PROVE  BusInv'
<1>1. table \in Seq(Receivers) /\ stack \in [Tasks -> Seq(Frames)]
  BY DEF BusInv, TypeOK
<1>2. table' = Append(table, r) /\ stack' = stack
  BY DEF Register
<1>3. /\ table' \in Seq(Receivers) /\ Len(table') = Len(table) + 1
      /\ table'[Len(table) + 1] = r
      /\ \A i \in 1..Len(table) : table'[i] = table[i]
  BY <1>1, <1>2, AppendSeq
<1>4. Distinct'
  BY <1>1, <1>3 DEF Distinct, BusInv, Register
<1>5. \A u \in Tasks : Len(stack'[u]) = 0
  BY <1>2, EmptySeq DEF Register, Busy
<1>6. QED
  BY <1>1, <1>2, <1>3, <1>4, <1>5 DEF BusInv, TypeOK

\* The bus alone: the invariant holds for every behaviour.
THEOREM BusInvariant == Spec => []BusInv
<1>1. Init => BusInv
  BY EmptySeq DEF Init, BusInv, TypeOK, Distinct
<1>2. BusInv /\ [Next]_busVars => BusInv'
  <2> SUFFICES ASSUME BusInv, [Next]_busVars PROVE BusInv'
    OBVIOUS
  <2>1. \A r \in Receivers : ThisOf(r) \in Addresses
    BY DEF ThisOf, InterfaceOf, Addresses
  <2>2. NoSender \in Addresses
    BY DEF NoSender, Addresses
  <2>3. ASSUME NEW t \in Tasks, NEW m \in Messages, NEW s \in Addresses, Post(t, m, s)
        PROVE  BusInv'
    <3>1. NewFrame(m, s, FALSE) \in Frames /\ FrameOK(NewFrame(m, s, FALSE))
      BY NewFrameOK DEF BusInv, TypeOK
    <3>2. QED
      BY <2>3, <3>1, PushInv DEF Post
  <2>4. ASSUME NEW t \in Tasks, NEW m \in Messages,
               Called(t), Nest(t, m, ThisOf(Top(t).cur))
        PROVE  BusInv'
    <3>1. Top(t).cur \in Receivers
      BY <2>4, TopOK DEF Called, Frames
    <3>2. QED
      BY <2>1, <2>4, <3>1, NestInv DEF Called
  <2>5. ASSUME NEW t \in Tasks, NEW a \in Answers, Answer(t, a)
        PROVE  BusInv'
    BY <2>5, AnswerInv, BusAssumption
  <2>6. ASSUME NEW t \in Tasks, Return(t) PROVE BusInv'
    BY <2>6, PopInv DEF Return
  <2>7. ASSUME NEW t \in Tasks, Step(t) PROVE BusInv'
    BY <2>1, <2>2, <2>3, <2>4, <2>5, <2>6, <2>7, DeliverInv, EndFirstInv, EndAgainInv
    DEF Step
  <2>8. CASE UNCHANGED busVars
    <3>1. stack' = stack /\ table' = table
      BY <2>8 DEF busVars
    <3>2. QED
      BY <3>1, StutterInv
  <2>9. QED
    BY <2>7, <2>8, RegisterInv DEF Next
<1>3. QED
  BY <1>1, <1>2, PTL DEF Spec

LEMMA AllFramesOK ==
    ASSUME BusInv
    PROVE  \A f \in AllFrames : f \in Frames /\ FrameOK(f)
<1>1. ASSUME NEW f \in AllFrames PROVE f \in Frames /\ FrameOK(f)
  <2>1. PICK t \in Tasks : f \in {stack[t][i] : i \in 1..Len(stack[t])}
    BY Zenon DEF AllFrames
  <2>2. PICK i \in 1..Len(stack[t]) : f = stack[t][i]
    BY <2>1
  <2>3. stack[t] \in Seq(Frames)
    BY DEF BusInv, TypeOK
  <2>4. QED
    BY <2>2, <2>3, ElementOfSeq DEF BusInv
<1>2. QED
  BY <1>1

LEMMA RegisteredSettled ==
    ASSUME NEW f, AllSettled(f), NEW r \in Registered, f.sender # InterfaceOf(r)
    PROVE  r \in f.heard
<1>1. PICK j \in 1..Len(table) : r = table[j]
  BY DEF Registered
<1>2. QED
  BY <1>1 DEF AllSettled, Settled

\* BusInv implies the properties of the bus that are checked.
LEMMA BusInvImplies ==
    ASSUME BusInv
    PROVE  NobodyIsMissed /\ NobodyAfterStop /\ SecondCallNeedsConsent /\ ResultTellsObjection
<1>1. \A f \in AllFrames : f \in Frames /\ FrameOK(f)
  BY AllFramesOK
<1>2. NobodyIsMissed
  BY <1>1, RegisteredSettled DEF NobodyIsMissed, FrameOK
<1>3. SecondCallNeedsConsent
  BY <1>1, RegisteredSettled DEF SecondCallNeedsConsent, FrameOK
<1>4. ResultTellsObjection
  BY <1>1 DEF ResultTellsObjection, FrameOK, FirstPassOK
<1>5. NobodyAfterStop
  BY <1>1 DEF NobodyAfterStop, FrameOK
<1>6. QED
  BY <1>2, <1>3, <1>4, <1>5

\* Nobody is missed by a broadcast that is not stopped, nobody is called again
\* against an objection, and the result does not hide one: for every number of
\* receivers, every answer and every nesting.
THEOREM BusDelivers ==
    Spec => [](NobodyIsMissed /\ SecondCallNeedsConsent /\ ResultTellsObjection)
<1>1. BusInv => NobodyIsMissed /\ SecondCallNeedsConsent /\ ResultTellsObjection
  BY BusInvImplies
<1>2. QED
  BY <1>1, BusInvariant, PTL

\* A broadcast that is stopped ends at a receiver that has objected, whatever is
\* sent from within it and whoever else is registered.
THEOREM StopIsTheEnd == Spec => []NobodyAfterStop
<1>1. BusInv => NobodyAfterStop
  BY BusInvImplies
<1>2. QED
  BY <1>1, BusInvariant, PTL

-------------------------------------------------------------------------------
(* The reboot protocol (ApplReboot).                                         *)

\* What the four parts of RebootInv about requests say together.
RequestsOK == NoneBeforeFirst /\ FirstIsAlone /\ FirstIsDeferred /\ FirstDemandsLate

\* A change of the last activation that keeps its message and forgets nobody
\* who has answered it.  m_isRebootPending may be set if it is a request which
\* CAppl has answered now.
LEMMA SetTopRequests ==
    ASSUME RebootInv, NEW t \in Tasks, Busy(t), NEW f \in Frames, SetTop(t, f),
           f.msg = Top(t).msg, Top(t).heard \subseteq f.heard, requests' = requests,
           \/ m_isRebootPending' = m_isRebootPending
           \/ m_isRebootPending' = TRUE /\ f.msg = Reboot /\ Appl \in f.heard
    PROVE  RequestsOK'
<1>1. stack \in [Tasks -> Seq(Frames)]
  BY DEF RebootInv, BusInv, TypeOK
<1>2. /\ \A u \in Tasks : u # t => stack'[u] = stack[u]
      /\ Len(stack'[t]) = Len(stack[t])
      /\ Len(stack[t]) \in 1..Len(stack[t])
      /\ stack'[t][Len(stack[t])] = f
      /\ \A i \in 1..(Len(stack[t]) - 1) : stack'[t][i] = stack[t][i]
  BY <1>1, SetTopFrames
<1>3. \A u \in Tasks : Len(stack'[u]) = Len(stack[u])
  BY <1>2
<1>4. ASSUME NEW u \in Tasks, NEW i \in 1..Len(stack[u])
      PROVE  /\ stack'[u][i].msg = stack[u][i].msg
             /\ stack[u][i].heard \subseteq stack'[u][i].heard
  <2>1. CASE u = t /\ i = Len(stack[t])
    BY <1>2, <2>1 DEF Top
  <2>2. CASE u = t /\ i # Len(stack[t])
    <3>1. i \in 1..(Len(stack[t]) - 1)
      BY <1>2, <2>2
    <3>2. QED
      BY <1>2, <2>2, <3>1
  <2>3. CASE u # t
    BY <1>2, <2>3
  <2>4. QED
    BY <2>1, <2>2, <2>3
<1>5. \A u \in Tasks : Requests(u)' = Requests(u)
  BY <1>3, <1>4 DEF Requests
<1>6. f.msg = Reboot => Len(stack[t]) \in Requests(t)
  BY <1>2 DEF Requests, Top
<1>7. NoneBeforeFirst' /\ FirstIsAlone'
  BY <1>5, <1>6 DEF RebootInv, NoneBeforeFirst, FirstIsAlone
<1>8. FirstIsDeferred'
  <2> SUFFICES ASSUME requests = 1, m_isRebootPending',
                      NEW u \in Tasks, NEW i \in Requests(u)
               PROVE  Appl \in stack'[u][i].heard
    BY <1>5 DEF FirstIsDeferred
  <2>1. CASE m_isRebootPending' = m_isRebootPending
    <3>1. i \in 1..Len(stack[u]) /\ Appl \in stack[u][i].heard
      BY <2>1 DEF RebootInv, FirstIsDeferred, Requests
    <3>2. QED
      BY <1>4, <3>1
  <2>2. CASE f.msg = Reboot /\ Appl \in f.heard
    <3>1. u = t /\ i = Len(stack[t])
      BY <1>6, <2>2 DEF RebootInv, FirstIsAlone
    <3>2. QED
      BY <1>2, <2>2, <3>1
  <2>3. QED
    BY <2>1, <2>2
<1>9. FirstDemandsLate'
  <2> SUFFICES ASSUME requests = 1, NEW u \in Tasks, NEW i \in 1..Len(stack[u]),
                      DemandedBy(u, i)'
               PROVE  stack'[u][i - 1].pass = "again"
    BY <1>3 DEF FirstDemandsLate
  <2>1. i > 1 /\ i - 1 \in 1..(Len(stack[u]) - 1) /\ i - 1 \in 1..Len(stack[u])
    BY <1>1 DEF DemandedBy
  <2>2. stack'[u][i - 1] = stack[u][i - 1]
    BY <1>2, <2>1
  <2>3. DemandedBy(u, i)
    BY <1>4, <2>1, <2>2 DEF DemandedBy
  <2>4. QED
    BY <2>2, <2>3 DEF RebootInv, FirstDemandsLate
<1>10. QED
  BY <1>7, <1>8, <1>9 DEF RequestsOK

\* The end of an activation.
LEMMA PopRequests ==
    ASSUME RebootInv, NEW t \in Tasks, Busy(t), Pop(t),
           UNCHANGED <<m_isRebootPending, requests>>
    PROVE  RequestsOK'
<1>1. stack \in [Tasks -> Seq(Frames)]
  BY DEF RebootInv, BusInv, TypeOK
<1>2. /\ \A u \in Tasks : u # t => stack'[u] = stack[u]
      /\ Len(stack[t]) \in Nat
      /\ Len(stack'[t]) = Len(stack[t]) - 1
      /\ \A i \in 1..(Len(stack[t]) - 1) : stack'[t][i] = stack[t][i]
  BY <1>1, PopFrames
<1>3. \A u \in Tasks : Len(stack[u]) \in Nat /\ Len(stack'[u]) \in Int /\ Len(stack'[u]) <= Len(stack[u])
  BY <1>1, <1>2
<1>4. \A u \in Tasks : \A i \in 1..Len(stack'[u]) :
         i \in 1..Len(stack[u]) /\ stack'[u][i] = stack[u][i]
  BY <1>2, <1>3
<1>5. \A u \in Tasks : Requests(u)' \subseteq Requests(u)
  BY <1>4 DEF Requests
<1>6. NoneBeforeFirst' /\ FirstIsAlone'
  BY <1>5 DEF RebootInv, NoneBeforeFirst, FirstIsAlone
<1>7. FirstIsDeferred'
  BY <1>4, <1>5 DEF RebootInv, FirstIsDeferred, Requests
<1>8. FirstDemandsLate'
  <2> SUFFICES ASSUME requests = 1, NEW u \in Tasks, NEW i \in 1..Len(stack'[u]),
                      DemandedBy(u, i)'
               PROVE  stack'[u][i - 1].pass = "again"
    BY DEF FirstDemandsLate
  <2>1. i > 1 /\ i - 1 \in 1..Len(stack'[u])
    BY <1>3 DEF DemandedBy
  <2>2. stack'[u][i - 1] = stack[u][i - 1] /\ stack'[u][i] = stack[u][i]
    BY <1>4, <2>1
  <2>3. DemandedBy(u, i) /\ i \in 1..Len(stack[u])
    BY <1>4, <2>1, <2>2 DEF DemandedBy
  <2>4. QED
    BY <2>2, <2>3 DEF RebootInv, FirstDemandsLate
<1>9. QED
  BY <1>6, <1>7, <1>8 DEF RequestsOK

\* A new activation that carries no request: if it is a shutdown that CAppl
\* sends while it handles the first request, that is in its second pass.
LEMMA PushRequests ==
    ASSUME RebootInv, NEW t \in Tasks, NEW f \in Frames, Push(t, f),
           f.msg # Reboot, UNCHANGED <<m_isRebootPending, requests>>,
           requests = 1 /\ Busy(t) /\ f.msg = Shutdown /\ ApplIsCalled(t, Reboot)
              => Top(t).pass = "again"
    PROVE  RequestsOK'
<1>1. stack \in [Tasks -> Seq(Frames)]
  BY DEF RebootInv, BusInv, TypeOK
<1>2. /\ \A u \in Tasks : u # t => stack'[u] = stack[u]
      /\ Len(stack[t]) \in Nat
      /\ Len(stack'[t]) = Len(stack[t]) + 1
      /\ stack'[t][Len(stack[t]) + 1] = f
      /\ \A i \in 1..Len(stack[t]) : stack'[t][i] = stack[t][i]
  BY <1>1, PushFrames
<1>3. \A u \in Tasks : \A i \in 1..Len(stack[u]) : stack'[u][i] = stack[u][i]
  BY <1>2
<1>4. \A u \in Tasks : Requests(u)' = Requests(u)
  BY <1>2 DEF Requests
<1>5. NoneBeforeFirst' /\ FirstIsAlone'
  BY <1>4 DEF RebootInv, NoneBeforeFirst, FirstIsAlone
<1>6. FirstIsDeferred'
  BY <1>3, <1>4 DEF RebootInv, FirstIsDeferred, Requests
<1>7. FirstDemandsLate'
  <2> SUFFICES ASSUME requests = 1, NEW u \in Tasks, NEW i \in 1..Len(stack'[u]),
                      DemandedBy(u, i)'
               PROVE  stack'[u][i - 1].pass = "again"
    BY DEF FirstDemandsLate
  <2>1. CASE i \in 1..Len(stack[u])
    <3>1. i - 1 \in 1..Len(stack[u])
      BY <1>1, <2>1 DEF DemandedBy
    <3>2. DemandedBy(u, i)
      BY <1>3, <2>1, <3>1 DEF DemandedBy
    <3>3. QED
      BY <1>3, <2>1, <3>1, <3>2 DEF RebootInv, FirstDemandsLate
  <2>2. CASE i \notin 1..Len(stack[u])
    <3>1. u = t /\ i = Len(stack[t]) + 1
      BY <1>2, <2>2
    <3>2. i - 1 = Len(stack[t]) /\ Len(stack[t]) \in 1..Len(stack[t])
      BY <1>2, <3>1 DEF DemandedBy
    <3>3. stack'[u][i - 1] = Top(t)
      BY <1>3, <3>1, <3>2 DEF Top
    <3>4. Busy(t)
      BY <1>1, <3>2, EmptySeq DEF Busy
    <3>5. f.msg = Shutdown /\ Top(t).msg = Reboot /\ Top(t).cur = Appl
      BY <1>2, <3>1, <3>3 DEF DemandedBy
    <3>6. QED
      BY <3>3, <3>4, <3>5, ApplAssumption, BusAssumption DEF ApplIsCalled, Called
  <2>3. QED
    BY <2>1, <2>2
<1>8. QED
  BY <1>5, <1>6, <1>7 DEF RequestsOK

\* A new request.
LEMMA NewRequest ==
    ASSUME RebootInv, NEW t \in Tasks,
           \A u \in Tasks : u # t => stack'[u] = stack[u],
           Len(stack[t]) \in Nat,
           Len(stack'[t]) = Len(stack[t]) + 1,
           stack'[t][Len(stack[t]) + 1].msg = Reboot,
           \A i \in 1..Len(stack[t]) : stack'[t][i].msg = stack[t][i].msg,
           m_isRebootPending' = m_isRebootPending, requests' = requests + 1
    PROVE  RequestsOK'
<1>1. requests \in Nat
  BY ApplAssumption DEF RebootInv, ApplTypeOK
<1>2. CASE requests # 0
  BY <1>1, <1>2 DEF RequestsOK, NoneBeforeFirst, FirstIsAlone, FirstIsDeferred,
                    FirstDemandsLate
<1>3. CASE requests = 0
  <2>1. ~m_isRebootPending /\ \A u \in Tasks : Requests(u) = {}
    BY <1>3 DEF RebootInv, NoneBeforeFirst
  <2>2. ASSUME NEW u \in Tasks, NEW i \in 1..Len(stack'[u]), stack'[u][i].msg = Reboot
        PROVE  u = t /\ i = Len(stack[t]) + 1
    <3>1. CASE i \in 1..Len(stack[u])
      BY <2>1, <2>2, <3>1 DEF Requests
    <3>2. CASE i \notin 1..Len(stack[u])
      BY <3>2
    <3>3. QED
      BY <3>1, <3>2
  <2>3. NoneBeforeFirst' /\ FirstIsDeferred'
    BY <1>3, <2>1 DEF NoneBeforeFirst, FirstIsDeferred
  <2>4. FirstIsAlone'
    BY <2>2 DEF FirstIsAlone, Requests
  <2>5. ASSUME NEW u \in Tasks, NEW i \in 1..Len(stack'[u]), DemandedBy(u, i)'
        PROVE  FALSE
    <3>1. i - 1 \in 1..Len(stack'[u]) /\ stack'[u][i - 1].msg = Reboot
      <4>1. Len(stack'[u]) \in Int
        <5>1. stack \in [Tasks -> Seq(Frames)]
          BY DEF RebootInv, BusInv, TypeOK
        <5>2. QED
          BY <5>1
      <4>2. QED
        BY <2>5, <4>1 DEF DemandedBy
    <3>2. u = t /\ i - 1 = Len(stack[t]) + 1
      BY <2>2, <3>1
    <3>3. QED
      BY <3>2
  <2>6. QED
    BY <2>3, <2>4, <2>5 DEF RequestsOK, FirstDemandsLate
<1>4. QED
  BY <1>2, <1>3

\* A step of task t leaves the other tasks where they are: ArmingOK stays if t
\* is not between the test and the assignment afterwards.
LEMMA ArmingKept ==
    ASSUME ArmingOK, arming \subseteq Tasks, NEW t \in Tasks,
           \A u \in Tasks : u # t => stack'[u] = stack[u],
           arming' \subseteq arming, t \notin arming'
    PROVE  ArmingOK'
<1> SUFFICES ASSUME NEW u \in arming' PROVE ApplIsCalled(u, Reboot)'
  BY DEF ArmingOK
<1>1. ApplIsCalled(u, Reboot) /\ stack'[u] = stack[u]
  BY DEF ArmingOK
<1>2. QED
  BY <1>1 DEF ApplIsCalled, Called, Busy, Top

LEMMA AnsweredFields ==
    ASSUME NEW f \in Frames, NEW a
    PROVE  /\ Answered(f, a).msg = f.msg
           /\ Answered(f, a).heard = f.heard \cup {f.cur}
<1> DEFINE again == IF f.pass = "first" /\ a = AGAIN THEN Append(f.again, f.cur) ELSE f.again
           total == IF a > f.total THEN a ELSE f.total
           heard == f.heard \cup {f.cur}
           against == IF f.pass = "first" /\ a > OK THEN f.against \cup {f.cur} ELSE f.against
<1>1. Answered(f, a) = [f EXCEPT !.cur = NoReceiver, !.again = again, !.total = total,
                                 !.heard = heard, !.against = against]
  BY DEF Answered
<1> HIDE DEF again, total, heard, against
<1>2. Answered(f, a).msg = f.msg /\ Answered(f, a).heard = heard
  BY <1>1, Zenon DEF Frames
<1>3. QED
  BY <1>2 DEF heard

\* A task is between the test and the assignment only inside of a call of CAppl
\* in one of the two passes of a request.
LEMMA ArmingPlace ==
    ASSUME RebootInv, NEW t \in arming
    PROVE  /\ t \in Tasks /\ Busy(t) /\ Top(t).cur = Appl /\ Top(t).cur # NoReceiver
           /\ Top(t).msg = Reboot /\ Top(t).pass \in {"first", "again"}
<1>1. t \in Tasks /\ Busy(t) /\ Top(t).cur = Appl /\ Top(t).msg = Reboot
      /\ Top(t).cur # NoReceiver
  BY DEF RebootInv, ApplTypeOK, ArmingOK, ApplIsCalled, Called
<1>2. QED
  BY <1>1, TopOK DEF RebootInv, FrameOK

\* A step that changes only the last activation of a task.
LEMMA SetTopStep ==
    ASSUME RebootInv, NEW t \in Tasks, Busy(t), NEW f \in Frames, SetTop(t, f), BusInv',
           f.msg = Top(t).msg, Top(t).heard \subseteq f.heard, t \notin arming,
           UNCHANGED applVars
    PROVE  RebootInv'
<1>1. RequestsOK'
  BY SetTopRequests DEF applVars
<1>2. ArmingOK'
  BY ArmingKept DEF RebootInv, ApplTypeOK, SetTop, applVars, BusInv, TypeOK
<1>3. ApplTypeOK'
  BY DEF RebootInv, ApplTypeOK, BusInv, applVars
<1>4. QED
  BY <1>1, <1>2, <1>3 DEF RebootInv, RequestsOK

\* An answer of a receiver that does not touch the flag.
LEMMA AnswerStep ==
    ASSUME RebootInv, NEW t \in Tasks, NEW a \in {OK, WARN, ERROR, STOP, AGAIN},
           Answer(t, a), t \notin arming, UNCHANGED applVars
    PROVE  RebootInv'
<1> DEFINE f == Answered(Top(t), a)
<1>1. BusInv'
  BY AnswerInv DEF RebootInv
<1>2. Busy(t) /\ SetTop(t, f) /\ Top(t).cur # NoReceiver /\ table' = table
  BY DEF Answer, Called
<1>3. Top(t) \in Frames /\ FrameOK(Top(t))
  BY <1>2, TopOK DEF RebootInv
<1>4. f \in Frames
  BY <1>2, <1>3, AnsweredOK DEF RebootInv, BusInv, TypeOK
<1>5. f.msg = Top(t).msg /\ Top(t).heard \subseteq f.heard
  BY <1>3, AnsweredFields
<1> HIDE DEF f
<1>6. QED
  BY <1>1, <1>2, <1>4, <1>5, SetTopStep

-------------------------------------------------------------------------------
(* The invariant of the reboot protocol, action by action.                   *)

\* A sender that is idle starts a broadcast that is no request.
LEMMA SendsOther ==
    ASSUME RebootInv, NEW t \in Tasks, ~Busy(t), table' = table,
           NEW m \in Messages, m # Reboot, NEW s \in Addresses, NEW force \in BOOLEAN,
           Push(t, NewFrame(m, s, force)), UNCHANGED applVars
    PROVE  RebootInv'
<1>1. NewFrame(m, s, force) \in Frames /\ FrameOK(NewFrame(m, s, force))
  BY NewFrameOK DEF RebootInv, BusInv, TypeOK
<1>2. BusInv'
  BY <1>1, PushInv DEF RebootInv
<1>3. NewFrame(m, s, force).msg = m
  BY DEF NewFrame
<1>4. RequestsOK'
  BY <1>1, <1>3, PushRequests DEF applVars
<1>5. ArmingOK'
  BY ArmingPlace, ArmingKept DEF RebootInv, ApplTypeOK, Push, applVars, BusInv, TypeOK
<1>6. QED
  BY <1>2, <1>4, <1>5 DEF RebootInv, RequestsOK, ApplTypeOK, BusInv, applVars

\* A task that is idle asks for a reboot.
LEMMA RequestRebootInv ==
    ASSUME RebootInv, NEW t \in Tasks, NEW s \in Addresses, RequestReboot(t, s)
    PROVE  RebootInv'
<1>0. Reboot \in Messages
  BY ApplAssumption
<1> DEFINE n == NewFrame(Reboot, s, FALSE)
<1>1. n \in Frames /\ FrameOK(n) /\ n.msg = Reboot
  <2>1. n.msg = Reboot
    BY DEF NewFrame
  <2>2. QED
    BY <1>0, <2>1, NewFrameOK DEF RebootInv, BusInv, TypeOK
<1>2. ~Busy(t) /\ Push(t, n) /\ table' = table
  BY DEF RequestReboot, Post
<1> HIDE DEF n
<1>3. BusInv'
  BY <1>1, <1>2, PushInv DEF RebootInv
<1>4. /\ stack' \in [Tasks -> Seq(Frames)]
      /\ \A u \in Tasks : u # t => stack'[u] = stack[u]
      /\ Len(stack[t]) \in Nat
      /\ Len(stack'[t]) = Len(stack[t]) + 1
      /\ stack'[t][Len(stack[t]) + 1] = n
      /\ \A i \in 1..Len(stack[t]) : stack'[t][i] = stack[t][i]
  BY <1>1, <1>2, PushFrames DEF RebootInv, BusInv, TypeOK
<1>5. RequestsOK'
  BY <1>1, <1>4, NewRequest DEF RequestReboot
<1>6. ArmingOK'
  BY <1>2, <1>4, ArmingPlace, ArmingKept DEF RebootInv, ApplTypeOK, RequestReboot
<1>7. ApplTypeOK'
  BY <1>3, ApplAssumption DEF RebootInv, ApplTypeOK, BusInv, RequestReboot
<1>8. QED
  BY <1>3, <1>5, <1>6, <1>7 DEF RebootInv, RequestsOK

\* A module that is being called asks for a reboot.
LEMMA ModuleRequestsRebootInv ==
    ASSUME RebootInv, NEW t \in Tasks, ModuleRequestsReboot(t)
    PROVE  RebootInv'
<1>0. Reboot \in Messages
  BY ApplAssumption
<1> DEFINE s == ThisOf(Top(t).cur)
           n == NewFrame(Reboot, s, FALSE)
<1>1. Busy(t) /\ Top(t).cur # NoReceiver /\ Top(t).cur # Appl /\ Nest(t, Reboot, s)
      /\ requests < MaxRequests /\ requests' = requests + 1
      /\ m_isRebootPending' = m_isRebootPending /\ arming' = arming
  BY DEF ModuleRequestsReboot, ModuleIsCalled, Called
<1>2. Top(t) \in Frames
  BY <1>1, TopOK DEF RebootInv
<1>3. s \in Addresses
  BY <1>1, <1>2 DEF Frames, ThisOf, InterfaceOf, Addresses
<1> HIDE DEF s
<1>4. n \in Frames /\ n.msg = Reboot
  <2>1. n.msg = Reboot
    BY DEF NewFrame
  <2>2. QED
    BY <1>0, <1>3, <2>1, NewFrameOK DEF RebootInv, BusInv, TypeOK
<1>5. BusInv'
  BY <1>0, <1>1, <1>3, NestInv DEF RebootInv
<1>6. /\ stack' \in [Tasks -> Seq(Frames)]
      /\ \A u \in Tasks : u # t => stack'[u] = stack[u]
      /\ Len(stack[t]) \in 1..Len(stack[t])
      /\ Len(stack'[t]) = Len(stack[t]) + 1
      /\ stack'[t][Len(stack[t]) + 1] = n
      /\ stack'[t][Len(stack[t])] = [Top(t) EXCEPT !.nested = TRUE]
      /\ \A i \in 1..(Len(stack[t]) - 1) : stack'[t][i] = stack[t][i]
  BY <1>1, <1>4, NestFrames DEF RebootInv, BusInv, TypeOK
<1>7. [Top(t) EXCEPT !.nested = TRUE].msg = stack[t][Len(stack[t])].msg
  BY <1>2, Zenon DEF Frames, Top
<1>8. Len(stack[t]) \in Nat
        /\ \A i \in 1..Len(stack[t]) : stack'[t][i].msg = stack[t][i].msg
  <2>1. Len(stack[t]) \in Nat
    BY <1>6
  <2>2. ASSUME NEW i \in 1..Len(stack[t]) PROVE stack'[t][i].msg = stack[t][i].msg
    <3>1. CASE i = Len(stack[t])
      BY <1>6, <1>7, <3>1
    <3>2. CASE i # Len(stack[t])
      <4>1. i \in 1..(Len(stack[t]) - 1)
        BY <2>1, <3>2
      <4>2. QED
        BY <1>6, <4>1
    <3>3. QED
      BY <3>1, <3>2
  <2>3. QED
    BY <2>1, <2>2
<1> HIDE DEF n
<1>9. RequestsOK'
  BY <1>1, <1>4, <1>6, <1>8, NewRequest
<1>10. ArmingOK'
  BY <1>1, <1>6, ArmingPlace, ArmingKept DEF RebootInv, ApplTypeOK
<1>11. ApplTypeOK'
  BY <1>1, <1>5, ApplAssumption DEF RebootInv, ApplTypeOK, BusInv
<1>12. QED
  BY <1>5, <1>9, <1>10, <1>11 DEF RebootInv, RequestsOK

\* CAppl answers the request it has found none pending for.
LEMMA ApplDefersInv ==
    ASSUME RebootInv, NEW t \in Tasks, ApplDefers(t)
    PROVE  RebootInv'
<1> DEFINE f == Answered(Top(t), AGAIN)
<1>1. t \in arming /\ m_isRebootPending' = TRUE /\ arming' = arming \ {t}
      /\ Answer(t, AGAIN) /\ requests' = requests
  BY DEF ApplDefers
<1>2. BusInv'
  BY <1>1, AnswerInv DEF RebootInv
<1>3. Busy(t) /\ SetTop(t, f) /\ Top(t).cur = Appl /\ Top(t).msg = Reboot
      /\ Top(t).cur # NoReceiver
  BY <1>1, ArmingPlace DEF Answer
<1>4. Top(t) \in Frames /\ FrameOK(Top(t))
  BY <1>3, TopOK DEF RebootInv
<1>5. f \in Frames
  BY <1>3, <1>4, AnsweredOK DEF RebootInv, BusInv, TypeOK
<1>6. f.msg = Top(t).msg /\ f.heard = Top(t).heard \cup {Appl}
  BY <1>3, <1>4, AnsweredFields
<1> HIDE DEF f
<1>7. RequestsOK'
  BY <1>1, <1>3, <1>5, <1>6, SetTopRequests
<1>8. ArmingOK'
  BY <1>1, <1>3, ArmingKept DEF RebootInv, ApplTypeOK, SetTop, BusInv, TypeOK
<1>9. QED
  BY <1>1, <1>2, <1>7, <1>8 DEF RebootInv, RequestsOK, ApplTypeOK, BusInv

\* CAppl finds a request pending and announces the shutdown.
LEMMA ApplRebootsInv ==
    ASSUME RebootInv, NEW t \in Tasks, ApplReboots(t)
    PROVE  RebootInv'
<1> DEFINE n == NewFrame(Shutdown, ThisOf(Appl), TRUE)
<1>1. /\ Busy(t) /\ Top(t).cur = Appl /\ Top(t).cur # NoReceiver /\ Top(t).msg = Reboot
      /\ t \notin arming /\ m_isRebootPending /\ Push(t, n)
      /\ table' = table /\ UNCHANGED applVars
  BY DEF ApplReboots, ApplIsCalled, Called
<1>2. n \in Frames /\ FrameOK(n) /\ n.msg = Shutdown
  <2>1. Shutdown \in Messages /\ ThisOf(Appl) \in Addresses
    BY ApplAssumption DEF ThisOf, InterfaceOf, Addresses
  <2>2. n.msg = Shutdown
    BY DEF NewFrame
  <2>3. QED
    BY <2>1, <2>2, NewFrameOK DEF RebootInv, BusInv, TypeOK
<1> HIDE DEF n
<1>3. BusInv'
  BY <1>1, <1>2, PushInv DEF RebootInv
<1>4. Top(t) \in Frames /\ FrameOK(Top(t)) /\ Len(stack[t]) \in 1..Len(stack[t])
  BY <1>1, TopOK DEF RebootInv
<1>5. requests = 1 => Top(t).pass = "again"
  <2> SUFFICES ASSUME requests = 1 PROVE Top(t).pass = "again"
    OBVIOUS
  <2>1. Len(stack[t]) \in Requests(t)
    BY <1>1, <1>4 DEF Requests, Top
  <2>2. Appl \in Top(t).heard
    BY <1>1, <2>1 DEF RebootInv, FirstIsDeferred, Top
  <2>3. Top(t).pass # "first"
    BY <1>1, <1>4, <2>2 DEF FrameOK, FirstPassOK
  <2>4. QED
    BY <1>1, <1>4, <2>3 DEF FrameOK
<1>6. n.msg # Reboot
  BY <1>2 DEF Shutdown, Reboot
<1>7. RequestsOK'
  BY <1>1, <1>2, <1>5, <1>6, PushRequests DEF applVars
<1>8. ArmingOK'
  BY <1>1, ArmingKept DEF RebootInv, ApplTypeOK, Push, applVars, BusInv, TypeOK
<1>9. QED
  BY <1>1, <1>3, <1>7, <1>8 DEF RebootInv, RequestsOK, ApplTypeOK, BusInv, applVars

\* The bus goes on with the broadcast.
LEMMA BusStepsInv ==
    ASSUME RebootInv, NEW t \in Tasks, BusSteps(t)
    PROVE  RebootInv'
<1>1. BusInv'
  BY DeliverInv, EndFirstInv, EndAgainInv DEF BusSteps, RebootInv
<1>2. Busy(t) /\ Top(t).cur = NoReceiver /\ UNCHANGED applVars
  BY DEF BusSteps, Deliver, EndFirst, EndAgain, Walking
<1>3. t \notin arming
  BY <1>2, ArmingPlace
<1>4. Top(t) \in Frames
  BY <1>2, TopOK DEF RebootInv
<1>5. CASE Deliver(t)
  <2> DEFINE g == Delivered(Top(t))
  <2>1. SetTop(t, g) /\ Walking(Top(t)) /\ More(Top(t))
    BY <1>5 DEF Deliver, Delivered
  <2>2. g \in Frames
    BY <1>2, <2>1, TopOK, DeliveredOK DEF RebootInv, BusInv, TypeOK
  <2>3. g.msg = Top(t).msg /\ g.heard = Top(t).heard
    BY <1>4 DEF Delivered, Frames
  <2> HIDE DEF g
  <2>4. QED
    BY <1>1, <1>2, <1>3, <2>1, <2>2, <2>3, SetTopStep
<1>6. CASE EndFirst(t) \/ EndAgain(t)
  <2>1. PICK g \in {[Top(t) EXCEPT !.pass = "again", !.pos = 1],
                   [Top(t) EXCEPT !.pass = "done"]} : SetTop(t, g)
    BY <1>6, Zenon DEF EndFirst, EndAgain
  <2>2. g \in Frames /\ g.msg = Top(t).msg /\ g.heard = Top(t).heard
    <3>1. 1 \in Nat \ {0}
      OBVIOUS
    <3>2. CASE g = [Top(t) EXCEPT !.pass = "again", !.pos = 1]
      BY <1>4, <3>1, <3>2, Zenon DEF Frames
    <3>3. CASE g = [Top(t) EXCEPT !.pass = "done"]
      BY <1>4, <3>3, Zenon DEF Frames
    <3>4. QED
      BY <2>1, <3>2, <3>3
  <2>3. QED
    BY <1>1, <1>2, <1>3, <2>1, <2>2, SetTopStep
<1>7. QED
  BY <1>5, <1>6 DEF BusSteps

\* sendEvent() returns, to whoever called it or to reboot(), which returns too.
LEMMA ReturnStep ==
    ASSUME RebootInv, NEW t \in Tasks, Return(t), UNCHANGED applVars
    PROVE  RebootInv'
<1>1. Busy(t) /\ Pop(t) /\ table' = table /\ Top(t).pass = "done"
  BY DEF Return
<1>2. BusInv'
  BY <1>1, PopInv DEF RebootInv
<1>3. RequestsOK'
  BY <1>1, PopRequests DEF applVars
<1>4. ArmingOK'
  BY <1>1, ArmingPlace, ArmingKept DEF RebootInv, ApplTypeOK, Pop, applVars, BusInv, TypeOK
<1>5. QED
  BY <1>2, <1>3, <1>4 DEF RebootInv, RequestsOK, ApplTypeOK, BusInv, applVars

\* reboot() enters its delay.
LEMMA RebootGoesOnInv ==
    ASSUME RebootInv, NEW t \in Tasks, RebootGoesOn(t)
    PROVE  RebootInv'
<1> DEFINE f == Top(t)
           g == [f EXCEPT !.pass = "delay"]
<1>1. /\ Busy(t) /\ f.msg = Shutdown /\ f.pass = "done" /\ SetTop(t, g)
      /\ table' = table /\ UNCHANGED applVars
  BY DEF RebootGoesOn
<1>2. f \in Frames /\ FrameOK(f)
  BY <1>1, TopOK DEF RebootInv
<1>3. g \in Frames /\ g.msg = f.msg /\ g.heard = f.heard /\ g.cur = f.cur
      /\ g.total = f.total /\ g.against = f.against /\ g.again = f.again
      /\ g.sender = f.sender /\ g.pass = "delay"
  BY <1>2, Zenon DEF Frames
<1> HIDE DEF f, g
<1>4. FrameOK(g)
  BY <1>1, <1>2, <1>3 DEF FrameOK, AllSettled, Settled, IsStopped, StoppedBy
<1>5. BusInv'
  BY <1>1, <1>3, <1>4, SetTopInv DEF RebootInv
<1>6. t \notin arming
  BY <1>1, ArmingPlace DEF Reboot, Shutdown, f
<1>7. QED
  BY <1>1, <1>3, <1>5, <1>6, SetTopStep DEF f

\* What holds of the state after power on or a restart.
LEMMA FreshInv ==
    ASSUME NEW tb, tb = <<Appl>>, NEW st, st = [u \in Tasks |-> <<>>]
    PROVE  /\ tb \in Seq(Receivers) /\ st \in [Tasks -> Seq(Frames)]
           /\ \A i, j \in 1..Len(tb) : tb[i] = tb[j] => i = j
           /\ \A u \in Tasks : Len(st[u]) = 0
<1>1. <<Appl>> \in Seq(Receivers) /\ Len(<<Appl>>) = 1 /\ <<>> \in Seq(Frames)
  BY ApplAssumption, EmptySeq
<1>2. Len(<<>>) = 0
  BY EmptySeq
<1>3. \A i, j \in 1..Len(tb) : i = j
  BY <1>1
<1>4. QED
  BY <1>1, <1>2, <1>3

\* ESP.restart().
LEMMA RestartInv ==
    ASSUME NEW t \in Tasks, Restart(t)
    PROVE  RebootInv'
<1>1. /\ table' = <<Appl>> /\ stack' = [u \in Tasks |-> <<>>]
      /\ m_isRebootPending' = FALSE /\ arming' = {} /\ requests' = 0
  BY DEF Restart
<1>3. /\ table' \in Seq(Receivers) /\ stack' \in [Tasks -> Seq(Frames)]
      /\ \A i, j \in 1..Len(table') : table'[i] = table'[j] => i = j
      /\ \A u \in Tasks : Len(stack'[u]) = 0
  BY <1>1, FreshInv
<1>4. BusInv'
  BY <1>3 DEF BusInv, TypeOK, Distinct
<1>5. ApplTypeOK'
  <2>1. requests' \in 0..MaxRequests
    BY <1>1, ApplAssumption
  <2>2. m_isRebootPending' \in BOOLEAN /\ arming' \subseteq Tasks /\ TypeOK'
    BY <1>1, <1>4, Zenon DEF BusInv
  <2>3. QED
    BY <2>1, <2>2, Zenon DEF ApplTypeOK
<1>6. NoneBeforeFirst'
  BY <1>1, <1>3 DEF NoneBeforeFirst, Requests
<1>7. QED
  BY <1>1, <1>4, <1>5, <1>6
  DEF RebootInv, ArmingOK, FirstIsAlone, FirstIsDeferred, FirstDemandsLate

\* Everything CAppl and the bus do inside of a broadcast.
LEMMA RunsInv ==
    ASSUME RebootInv, NEW t \in Tasks, Runs(t)
    PROVE  RebootInv'
<1>1. CASE ApplIgnores(t)
  <2>1. t \notin arming /\ Answer(t, OK) /\ UNCHANGED applVars
    BY <1>1, ArmingPlace DEF ApplIgnores
  <2>2. QED
    BY <2>1, AnswerStep
<1>2. CASE ApplFindsNonePending(t)
  <2>1. stack' = stack /\ table' = table /\ m_isRebootPending' = m_isRebootPending
        /\ requests' = requests /\ arming' = arming \cup {t} /\ ApplIsCalled(t, Reboot)
    BY <1>2 DEF ApplFindsNonePending, busVars
  <2>2. BusInv'
    BY <2>1, StutterInv DEF RebootInv
  <2>3. ArmingOK'
    BY <2>1 DEF RebootInv, ArmingOK, ApplIsCalled, Called, Busy, Top
  <2>4. RequestsOK'
    BY <2>1 DEF RebootInv, RequestsOK, NoneBeforeFirst, FirstIsAlone, FirstIsDeferred,
                FirstDemandsLate, DemandedBy, Requests
  <2>5. QED
    BY <2>1, <2>2, <2>3, <2>4 DEF RebootInv, RequestsOK, ApplTypeOK, BusInv
<1>3. ASSUME NEW a \in Answers, ModuleAnswers(t, a) PROVE RebootInv'
  <2>1. t \notin arming /\ Answer(t, a) /\ UNCHANGED applVars
    BY <1>3, ArmingPlace DEF ModuleAnswers, ModuleIsCalled
  <2>2. a \in {OK, WARN, ERROR, STOP, AGAIN}
    BY BusAssumption
  <2>3. QED
    BY <2>1, <2>2, AnswerStep
<1>4. CASE ReturnToSender(t)
  BY <1>4, ReturnStep DEF ReturnToSender
<1>5. CASE RebootIsDropped(t)
  BY <1>5, ReturnStep DEF RebootIsDropped
<1>6. QED
  BY <1>1, <1>2, <1>3, <1>4, <1>5, BusStepsInv, ApplDefersInv, ApplRebootsInv,
     RebootGoesOnInv, RestartInv
  DEF Runs, ApplSteps, RebootSteps

\* Everything that starts a broadcast.
LEMMA SendsInv ==
    ASSUME RebootInv, NEW t \in Tasks, Sends(t)
    PROVE  RebootInv'
<1>1. /\ \A r \in Receivers : ThisOf(r) \in Addresses
      /\ NoSender \in Addresses /\ Appl \in Receivers
  BY ApplAssumption DEF ThisOf, InterfaceOf, NoSender, Addresses
<1>2. Loop \in Messages /\ Shutdown \in Messages /\ Loop # Reboot /\ Shutdown # Reboot
  BY ApplAssumption DEF Loop, Shutdown, Reboot
<1>3. CASE DispatchLoop(t)
  BY <1>1, <1>2, <1>3, SendsOther DEF DispatchLoop, Post
<1>4. ASSUME NEW bForce \in BOOLEAN, CallReboot(t, bForce) PROVE RebootInv'
  BY <1>1, <1>2, <1>4, SendsOther DEF CallReboot
<1>5. QED
  BY <1>1, <1>3, <1>4, RequestRebootInv, ModuleRequestsRebootInv DEF Sends, Modules

\* The invariant of the reboot protocol holds for every number of tasks, modules
\* and requests: CAppl defers the first request it is asked, and nothing else
\* can announce the shutdown as long as that request is the only one.
THEOREM RebootInvariant == ApplSpec => []RebootInv
<1>1. ApplInit => RebootInv
  <2> SUFFICES ASSUME ApplInit PROVE RebootInv
    OBVIOUS
  <2>2. /\ table \in Seq(Receivers) /\ stack \in [Tasks -> Seq(Frames)]
        /\ \A i, j \in 1..Len(table) : table[i] = table[j] => i = j
        /\ \A u \in Tasks : Len(stack[u]) = 0
    BY FreshInv DEF ApplInit
  <2>3. BusInv
    BY <2>2 DEF BusInv, TypeOK, Distinct
  <2>4. ApplTypeOK
    <3>1. requests \in 0..MaxRequests
      BY ApplAssumption DEF ApplInit
    <3>2. m_isRebootPending \in BOOLEAN /\ arming \subseteq Tasks /\ TypeOK
      BY <2>3, Zenon DEF ApplInit, BusInv
    <3>3. QED
      BY <3>1, <3>2, Zenon DEF ApplTypeOK
  <2>5. NoneBeforeFirst
    BY <2>2 DEF ApplInit, NoneBeforeFirst, Requests
  <2>6. QED
    BY <2>3, <2>4, <2>5
    DEF ApplInit, RebootInv, ArmingOK, FirstIsAlone, FirstIsDeferred, FirstDemandsLate
<1>2. RebootInv /\ [ApplNext]_vars => RebootInv'
  <2> SUFFICES ASSUME RebootInv, [ApplNext]_vars PROVE RebootInv'
    OBVIOUS
  <2>1. ASSUME stack' = stack, UNCHANGED applVars, BusInv' PROVE RebootInv'
    <3>1. ArmingOK'
      BY <2>1 DEF RebootInv, ArmingOK, ApplIsCalled, Called, Busy, Top, applVars
    <3>2. RequestsOK'
      BY <2>1 DEF RebootInv, RequestsOK, NoneBeforeFirst, FirstIsAlone, FirstIsDeferred,
                  FirstDemandsLate, DemandedBy, Requests, applVars
    <3>3. QED
      BY <2>1, <3>1, <3>2 DEF RebootInv, RequestsOK, ApplTypeOK, BusInv, applVars
  <2>2. ASSUME NEW r \in Modules, RegisterModule(r) PROVE RebootInv'
    BY <2>1, <2>2, RegisterInv DEF RegisterModule, Register, Modules, RebootInv
  <2>3. CASE UNCHANGED vars
    BY <2>1, <2>3, StutterInv DEF vars, applVars, RebootInv
  <2>4. QED
    BY <2>2, <2>3, SendsInv, RunsInv DEF ApplNext
<1>3. QED
  BY <1>1, <1>2, PTL DEF ApplSpec

\* The first reboot request after a start restarts the device only when every
\* registered receiver has been asked and none has objected.
THEOREM FirstRequestUnanimous == ApplSpec => []FirstRequestIsUnanimous
<1>1. RebootInv => FirstRequestIsUnanimous
  <2> SUFFICES ASSUME RebootInv, requests = 1,
                      NEW t \in Tasks, NEW i \in 1..Len(stack[t]), DemandedBy(t, i)
               PROVE  Unanimous(stack[t][i - 1])
    BY DEF FirstRequestIsUnanimous
  <2> DEFINE f == stack[t][i - 1]
  <2>1. i - 1 \in 1..Len(stack[t])
    BY DEF DemandedBy, RebootInv, BusInv, TypeOK
  <2>2. f.pass = "again"
    BY DEF RebootInv, FirstDemandsLate
  <2>3. FrameOK(f)
    BY <2>1 DEF RebootInv, BusInv
  <2> HIDE DEF f
  <2>4. QED
    BY <2>2, <2>3, RegisteredSettled DEF FrameOK, Unanimous, f
<1>2. QED
  BY <1>1, RebootInvariant, PTL

-------------------------------------------------------------------------------
(* The announcement of a restart: one activation says all of it.             *)

\* An activation of task t may change only into one that is in order.
LEMMA FramesKeepAnnouncements ==
    ASSUME AnnouncementsOK, NEW t \in Tasks, \A u \in Tasks : u # t => stack'[u] = stack[u],
           \A i \in 1..Len(stack'[t]) :
              \/ i \in 1..Len(stack[t]) /\ stack'[t][i] = stack[t][i]
              \/ AnnouncementOK(stack'[t][i])
    PROVE  AnnouncementsOK'
<1>1. ASSUME NEW u \in Tasks, NEW i \in 1..Len(stack'[u])
      PROVE  AnnouncementOK(stack'[u][i])
  <2>1. CASE u # t
    BY <2>1 DEF AnnouncementsOK
  <2>2. CASE u = t
    BY <2>2 DEF AnnouncementsOK
  <2>3. QED
    BY <2>1, <2>2
<1>2. QED
  BY <1>1 DEF AnnouncementsOK, AnnouncementOK

LEMMA TopAnnounced ==
    ASSUME RebootInv, AnnouncementsOK, NEW t \in Tasks, Busy(t)
    PROVE  Top(t) \in Frames /\ AnnouncementOK(Top(t))
<1>1. Top(t) \in Frames /\ Len(stack[t]) \in 1..Len(stack[t])
  BY TopOK DEF RebootInv
<1>2. QED
  BY <1>1 DEF AnnouncementsOK, Top

LEMMA SetTopAnnounced ==
    ASSUME RebootInv, AnnouncementsOK, NEW t \in Tasks, Busy(t),
           NEW f \in Frames, AnnouncementOK(f), SetTop(t, f)
    PROVE  AnnouncementsOK'
<1>1. stack \in [Tasks -> Seq(Frames)]
  BY DEF RebootInv, BusInv, TypeOK
<1>2. /\ \A u \in Tasks : u # t => stack'[u] = stack[u]
      /\ Len(stack'[t]) = Len(stack[t])
      /\ Len(stack[t]) \in 1..Len(stack[t])
      /\ stack'[t][Len(stack[t])] = f
      /\ \A i \in 1..(Len(stack[t]) - 1) : stack'[t][i] = stack[t][i]
  BY <1>1, SetTopFrames
<1>3. ASSUME NEW i \in 1..Len(stack'[t])
      PROVE  \/ i \in 1..Len(stack[t]) /\ stack'[t][i] = stack[t][i]
             \/ AnnouncementOK(stack'[t][i])
  <2>1. i = Len(stack[t]) \/ i \in 1..(Len(stack[t]) - 1)
    BY <1>2
  <2>2. QED
    BY <1>2, <2>1
<1>4. QED
  BY <1>2, <1>3, FramesKeepAnnouncements

LEMMA PushAnnounced ==
    ASSUME RebootInv, AnnouncementsOK, NEW t \in Tasks,
           NEW f \in Frames, AnnouncementOK(f), Push(t, f)
    PROVE  AnnouncementsOK'
<1>1. stack \in [Tasks -> Seq(Frames)]
  BY DEF RebootInv, BusInv, TypeOK
<1>2. /\ \A u \in Tasks : u # t => stack'[u] = stack[u]
      /\ Len(stack[t]) \in Nat
      /\ Len(stack'[t]) = Len(stack[t]) + 1
      /\ stack'[t][Len(stack[t]) + 1] = f
      /\ \A i \in 1..Len(stack[t]) : stack'[t][i] = stack[t][i]
  BY <1>1, PushFrames
<1>3. ASSUME NEW i \in 1..Len(stack'[t])
      PROVE  \/ i \in 1..Len(stack[t]) /\ stack'[t][i] = stack[t][i]
             \/ AnnouncementOK(stack'[t][i])
  BY <1>2
<1>4. QED
  BY <1>2, <1>3, FramesKeepAnnouncements

LEMMA PopAnnounced ==
    ASSUME RebootInv, AnnouncementsOK, NEW t \in Tasks, Return(t)
    PROVE  AnnouncementsOK'
<1>1. stack \in [Tasks -> Seq(Frames)] /\ Busy(t) /\ Pop(t)
  BY DEF RebootInv, BusInv, TypeOK, Return
<1>2. /\ \A u \in Tasks : u # t => stack'[u] = stack[u]
      /\ Len(stack[t]) \in Nat
      /\ Len(stack'[t]) = Len(stack[t]) - 1
      /\ \A i \in 1..(Len(stack[t]) - 1) : stack'[t][i] = stack[t][i]
  BY <1>1, PopFrames
<1>3. ASSUME NEW i \in 1..Len(stack'[t])
      PROVE  i \in 1..Len(stack[t]) /\ stack'[t][i] = stack[t][i]
  BY <1>2
<1>4. QED
  BY <1>2, <1>3, FramesKeepAnnouncements

\* A module that is being called sends a request, which announces nothing.
LEMMA NestAnnounced ==
    ASSUME RebootInv, AnnouncementsOK, NEW t \in Tasks, ModuleRequestsReboot(t)
    PROVE  AnnouncementsOK'
<1> DEFINE s == ThisOf(Top(t).cur)
           n == NewFrame(Reboot, s, FALSE)
           g == [Top(t) EXCEPT !.nested = TRUE]
<1>1. Busy(t) /\ Top(t).cur # NoReceiver /\ Nest(t, Reboot, s)
  BY DEF ModuleRequestsReboot, ModuleIsCalled, Called
<1>2. Top(t) \in Frames /\ AnnouncementOK(Top(t))
  BY <1>1, TopAnnounced
<1>3. s \in Addresses /\ Reboot \in Messages
  BY <1>1, <1>2, ApplAssumption DEF Frames, ThisOf, InterfaceOf, Addresses
<1>4. n \in Frames /\ AnnouncementOK(n)
  <2>1. n.msg = Reboot /\ n.pass = "first"
    BY DEF NewFrame
  <2>2. AnnouncementOK(n)
    BY <2>1 DEF AnnouncementOK, Reboot, Shutdown
  <2>3. QED
    BY <1>3, <2>2, NewFrameOK DEF RebootInv, BusInv, TypeOK
<1>5. AnnouncementOK(g)
  <2>1. /\ g.msg = Top(t).msg /\ g.sender = Top(t).sender /\ g.pass = Top(t).pass
        /\ g.force = Top(t).force /\ g.total = Top(t).total
    BY <1>2, Zenon DEF Frames
  <2>2. QED
    BY <1>2, <2>1 DEF AnnouncementOK
<1>6. /\ \A u \in Tasks : u # t => stack'[u] = stack[u]
      /\ Len(stack[t]) \in 1..Len(stack[t])
      /\ Len(stack'[t]) = Len(stack[t]) + 1
      /\ stack'[t][Len(stack[t]) + 1] = n
      /\ stack'[t][Len(stack[t])] = g
      /\ \A i \in 1..(Len(stack[t]) - 1) : stack'[t][i] = stack[t][i]
  BY <1>1, <1>4, NestFrames, ZenonT(60) DEF RebootInv, BusInv, TypeOK
<1> HIDE DEF n, g
<1>7. ASSUME NEW i \in 1..Len(stack'[t])
      PROVE  \/ i \in 1..Len(stack[t]) /\ stack'[t][i] = stack[t][i]
             \/ AnnouncementOK(stack'[t][i])
  <2>1. i \in 1..(Len(stack[t]) - 1) \/ i = Len(stack[t]) \/ i = Len(stack[t]) + 1
    BY <1>6
  <2>2. QED
    BY <1>4, <1>5, <1>6, <2>1
<1>8. QED
  BY <1>6, <1>7, FramesKeepAnnouncements

\* The answer of a receiver changes neither message nor sender, and comes in a pass.
LEMMA AnswerAnnounced ==
    ASSUME RebootInv, AnnouncementsOK, NEW t \in Tasks,
           NEW a \in {OK, WARN, ERROR, STOP, AGAIN}, Answer(t, a)
    PROVE  AnnouncementsOK'
<1> DEFINE f == Top(t)
           again == IF f.pass = "first" /\ a = AGAIN THEN Append(f.again, f.cur) ELSE f.again
           total == IF a > f.total THEN a ELSE f.total
           heard == f.heard \cup {f.cur}
           against == IF f.pass = "first" /\ a > OK THEN f.against \cup {f.cur} ELSE f.against
           g == Answered(f, a)
<1>1. Busy(t) /\ f.cur # NoReceiver /\ SetTop(t, g)
  BY DEF Answer, Called
<1>2. f \in Frames /\ AnnouncementOK(f) /\ FrameOK(f)
  BY <1>1, TopAnnounced, TopOK DEF RebootInv
<1>3. g = [f EXCEPT !.cur = NoReceiver, !.again = again, !.total = total,
                    !.heard = heard, !.against = against]
  BY DEF Answered
<1>4. g \in Frames
  BY <1>1, <1>2, AnsweredOK DEF RebootInv, BusInv, TypeOK
<1>5. f.pass # "delay"
  BY <1>1, <1>2 DEF FrameOK
<1>6. g.msg = f.msg /\ g.sender = f.sender /\ g.pass = f.pass
  <2> HIDE DEF f, again, total, heard, against, g
  <2>1. QED
    BY <1>2, <1>3, Zenon DEF Frames
<1>7. AnnouncementOK(g)
  BY <1>2, <1>5, <1>6 DEF AnnouncementOK
<1> HIDE DEF f, g
<1>8. QED
  BY <1>1, <1>4, <1>7, SetTopAnnounced

\* The bus goes on: no activation enters the delay.
LEMMA BusStepsAnnounced ==
    ASSUME RebootInv, AnnouncementsOK, NEW t \in Tasks, BusSteps(t)
    PROVE  AnnouncementsOK'
<1>1. Busy(t) /\ Walking(Top(t))
  BY DEF BusSteps, Deliver, EndFirst, EndAgain
<1>2. Top(t) \in Frames /\ AnnouncementOK(Top(t)) /\ FrameOK(Top(t))
  BY <1>1, TopAnnounced, TopOK DEF RebootInv
<1>3. CASE Deliver(t)
  <2> DEFINE g == Delivered(Top(t))
  <2>1. SetTop(t, g) /\ More(Top(t))
    BY <1>3 DEF Deliver, Delivered
  <2>2. g \in Frames
    BY <1>1, <1>2, <2>1, DeliveredOK DEF RebootInv, BusInv, TypeOK
  <2>3. g.msg = Top(t).msg /\ g.sender = Top(t).sender /\ g.pass = Top(t).pass
    BY <1>2 DEF Delivered, Frames
  <2>4. AnnouncementOK(g)
    BY <1>1, <1>2, <2>3 DEF AnnouncementOK, Walking
  <2> HIDE DEF g
  <2>5. QED
    BY <1>1, <2>1, <2>2, <2>4, SetTopAnnounced
<1>4. CASE EndFirst(t) \/ EndAgain(t)
  <2>1. PICK g \in {[Top(t) EXCEPT !.pass = "again", !.pos = 1],
                   [Top(t) EXCEPT !.pass = "done"]} : SetTop(t, g)
    BY <1>4, Zenon DEF EndFirst, EndAgain
  <2>2. /\ g \in Frames /\ g.msg = Top(t).msg /\ g.sender = Top(t).sender
        /\ g.pass \in {"again", "done"}
    <3>1. 1 \in Nat \ {0}
      OBVIOUS
    <3>2. CASE g = [Top(t) EXCEPT !.pass = "again", !.pos = 1]
      BY <1>2, <3>1, <3>2, Zenon DEF Frames
    <3>3. CASE g = [Top(t) EXCEPT !.pass = "done"]
      BY <1>2, <3>3, Zenon DEF Frames
    <3>4. QED
      BY <2>1, <3>2, <3>3
  <2>3. AnnouncementOK(g)
    BY <1>2, <2>2 DEF AnnouncementOK
  <2>4. QED
    BY <1>1, <2>1, <2>2, <2>3, SetTopAnnounced
<1>5. QED
  BY <1>3, <1>4 DEF BusSteps

\* reboot() enters its delay: its test is what the invariant says.
LEMMA RebootGoesOnAnnounced ==
    ASSUME RebootInv, AnnouncementsOK, NEW t \in Tasks, RebootGoesOn(t)
    PROVE  AnnouncementsOK'
<1> DEFINE f == Top(t)
           g == [f EXCEPT !.pass = "delay"]
<1>1. Busy(t) /\ f.msg = Shutdown /\ (f.total = OK \/ f.force) /\ SetTop(t, g)
  BY DEF RebootGoesOn
<1>2. f \in Frames /\ AnnouncementOK(f)
  BY <1>1, TopAnnounced
<1>3. g \in Frames /\ g.msg = f.msg /\ g.sender = f.sender /\ g.force = f.force
      /\ g.total = f.total
  BY <1>2, Zenon DEF Frames
<1> HIDE DEF f, g
<1>4. AnnouncementOK(g)
  BY <1>1, <1>2, <1>3 DEF AnnouncementOK
<1>5. QED
  BY <1>1, <1>3, <1>4, SetTopAnnounced

\* A task that starts a broadcast: a shutdown is sent by CAppl.
LEMMA NewAnnounced ==
    ASSUME RebootInv, AnnouncementsOK, NEW t \in Tasks, NEW m \in Messages,
           NEW s \in Addresses, NEW force \in BOOLEAN, m = Shutdown => s = ThisOf(Appl),
           Push(t, NewFrame(m, s, force))
    PROVE  AnnouncementsOK'
<1> DEFINE n == NewFrame(m, s, force)
<1>1. n \in Frames
  BY NewFrameOK DEF RebootInv, BusInv, TypeOK
<1>2. n.msg = m /\ n.sender = s /\ n.pass = "first"
  BY DEF NewFrame
<1>3. AnnouncementOK(n)
  BY <1>2 DEF AnnouncementOK
<1> HIDE DEF n
<1>4. Push(t, n)
  BY DEF n
<1>5. QED
  BY <1>1, <1>3, <1>4, PushAnnounced

LEMMA AnnouncementsKept ==
    ASSUME RebootInv, AnnouncementsOK, [ApplNext]_vars
    PROVE  AnnouncementsOK'
<1>1. /\ \A r \in Receivers : ThisOf(r) \in Addresses
      /\ NoSender \in Addresses /\ Appl \in Receivers
  BY ApplAssumption DEF ThisOf, InterfaceOf, NoSender, Addresses
<1>2. Loop \in Messages /\ Reboot \in Messages /\ Shutdown \in Messages
      /\ Loop # Shutdown /\ Reboot # Shutdown
  BY ApplAssumption DEF Loop, Reboot, Shutdown
<1>3. ASSUME stack' = stack PROVE AnnouncementsOK'
  BY <1>3 DEF AnnouncementsOK, AnnouncementOK
<1>4. ASSUME NEW t \in Tasks, Sends(t) PROVE AnnouncementsOK'
  <2>1. CASE DispatchLoop(t)
    BY <1>1, <1>2, <2>1, NewAnnounced DEF DispatchLoop, Post
  <2>2. ASSUME NEW s \in Addresses, RequestReboot(t, s) PROVE AnnouncementsOK'
    BY <1>2, <2>2, NewAnnounced DEF RequestReboot, Post
  <2>3. ASSUME NEW bForce \in BOOLEAN, CallReboot(t, bForce) PROVE AnnouncementsOK'
    BY <1>1, <1>2, <2>3, NewAnnounced DEF CallReboot
  <2>4. QED
    BY <1>1, <1>4, <2>1, <2>2, <2>3, NestAnnounced DEF Sends, Modules
<1>5. ASSUME NEW t \in Tasks, ApplSteps(t) PROVE AnnouncementsOK'
  <2>1. CASE ApplFindsNonePending(t)
    BY <1>3, <2>1 DEF ApplFindsNonePending, busVars
  <2>2. CASE ApplReboots(t)
    BY <1>1, <1>2, <2>2, NewAnnounced DEF ApplReboots
  <2>3. CASE ApplIgnores(t) \/ ApplDefers(t)
    BY <2>3, AnswerAnnounced DEF ApplIgnores, ApplDefers
  <2>4. QED
    BY <1>5, <2>1, <2>2, <2>3 DEF ApplSteps
<1>6. ASSUME NEW t \in Tasks, Restart(t) PROVE AnnouncementsOK'
  <2>1. \A u \in Tasks : Len(stack'[u]) = 0
    BY <1>6, FreshInv DEF Restart
  <2>2. QED
    BY <2>1 DEF AnnouncementsOK
<1>7. ASSUME NEW t \in Tasks, Runs(t) PROVE AnnouncementsOK'
  <2>1. ASSUME NEW a \in Answers, ModuleAnswers(t, a) PROVE AnnouncementsOK'
    BY <2>1, AnswerAnnounced, BusAssumption DEF ModuleAnswers
  <2>2. CASE RebootSteps(t)
    BY <1>6, <2>2, RebootGoesOnAnnounced, PopAnnounced DEF RebootSteps, RebootIsDropped
  <2>3. QED
    BY <1>5, <1>7, <2>1, <2>2, BusStepsAnnounced, PopAnnounced DEF Runs, ReturnToSender
<1>8. QED
  BY <1>3, <1>4, <1>7 DEF ApplNext, RegisterModule, Register, vars

\* In its delay reboot() has told everybody: CAppl sends the shutdown with an address
\* that no receiver is recognised by, so nobody is skipped as the sender.
THEOREM RestartAnnounced == ApplSpec => []RestartIsAnnounced
<1>1. ApplInit => AnnouncementsOK
  BY FreshInv DEF ApplInit, AnnouncementsOK
<1>2. ApplSpec => []AnnouncementsOK
  BY <1>1, AnnouncementsKept, RebootInvariant, PTL DEF ApplSpec
<1>3. RebootInv /\ AnnouncementsOK => RestartIsAnnounced
  <2> SUFFICES ASSUME RebootInv, AnnouncementsOK, NEW f \in AllFrames, f.pass = "delay"
               PROVE  /\ f.msg = Shutdown
                      /\ f.total = STOP \/ Registered \subseteq f.heard
                      /\ ~f.force => f.total = OK /\ f.against = {}
    BY DEF RestartIsAnnounced
  <2>1. FrameOK(f)
    BY AllFramesOK DEF RebootInv
  <2>2. AnnouncementOK(f)
    <3>1. PICK t \in Tasks : f \in {stack[t][i] : i \in 1..Len(stack[t])}
      BY Zenon DEF AllFrames
    <3>2. PICK i \in 1..Len(stack[t]) : f = stack[t][i]
      BY <3>1
    <3>3. QED
      BY <3>2 DEF AnnouncementsOK
  <2>3. \A r \in Registered : f.sender # InterfaceOf(r)
    <3>1. f.sender = <<Appl, FALSE>>
      BY <2>2, ApplAssumption DEF AnnouncementOK, ThisOf
    <3>2. \A r : <<Appl, FALSE>> # <<r, TRUE>>
      OBVIOUS
    <3>3. QED
      BY <3>1, <3>2 DEF InterfaceOf
  <2>4. f.total = STOP \/ Registered \subseteq f.heard
    BY <2>1, <2>3, RegisteredSettled DEF FrameOK
  <2>5. QED
    BY <2>1, <2>2, <2>4 DEF FrameOK, AnnouncementOK
<1>4. QED
  BY <1>2, <1>3, RebootInvariant, PTL
===============================================================================
