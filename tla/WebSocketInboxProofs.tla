------------------------- MODULE WebSocketInboxProofs -------------------------
(***************************************************************************)
(* Proofs about WebSocketInbox, for any clients, and any messages of any    *)
(* number of frames of any length: what is dispatched arrived, once and in  *)
(* order, no task touches an object of another one, and the inbox           *)
(* implements a mailbox.                                                    *)
(***************************************************************************)
EXTENDS WebSocketInbox, SequenceTheorems, TLAPS

\* What may be stored, allocated and dispatched.
Cell    == (Messages \X Nat \X Nat) \cup {ZeroByte}
Objects == [client : Clients, data : Seq(Cell), deleted : BOOLEAN]
Entries == [client : Clients, data : Seq(Cell)]
Parts   == {at \in [msg : Messages, frame : Nat, index : Nat] :
                at.frame \in 1..Len(Frames[at.msg]) /\ at.index < FrameLength(at)}

\* The object of a queue's pointer as the loop sees it.
Entry(o) == [client |-> heap[o].client, data |-> heap[o].data]

-------------------------------------------------------------------------------
(* The inductive invariant.                                                  *)

Typed ==
    /\ coming \in [Clients -> Parts \cup {Nothing}]
    /\ temp \in [Clients -> 0..Len(heap)]
    /\ heap \in Seq(Objects)
    /\ queue \in Seq(1..Len(heap))
    /\ inDispatch \in BOOLEAN
    /\ dispatched \in Seq(Entries)
    /\ arrived \in Seq([client : Clients, msg : Messages])

\* What is queued is queued once, and not deleted.
QueueIsAlive ==
    /\ inDispatch => queue # <<>>
    /\ \A i, j \in 1..Len(queue) : queue[i] = queue[j] => i = j
    /\ \A i \in 1..Len(queue) : ~heap[queue[i]].deleted

\* The object that hangs on a client within a frame is its own, and holds what has come.
TempIsOwn ==
    \A c \in Clients : coming[c] # Nothing /\ coming[c].index > 0 =>
        /\ temp[c] \in 1..Len(heap)
        /\ heap[temp[c]].client = c /\ ~heap[temp[c]].deleted
        /\ \A i \in 1..Len(queue) : queue[i] # temp[c]
        /\ Len(heap[temp[c]].data) = FrameLength(coming[c])
        /\ \A i \in 1..coming[c].index :
              heap[temp[c]].data[i] = Data(coming[c].msg, coming[c].frame)[i]

IInv == Typed /\ QueueIsAlive /\ TempIsOwn /\ OneEachInOrder

LEMMA InboxInit == ASSUME InboxAssumption, Init PROVE IInv
<1>1. /\ coming = [c \in Clients |-> Nothing] /\ temp = [c \in Clients |-> 0]
      /\ heap = <<>> /\ queue = <<>> /\ inDispatch = FALSE /\ dispatched = <<>> /\ arrived = <<>>
  BY DEF Init, NullPtr
<1>2. Typed
  <2>1. /\ coming \in [Clients -> Parts \cup {Nothing}] /\ temp \in [Clients -> 0..Len(heap)]
        /\ heap \in Seq(Objects) /\ queue \in Seq(1..Len(heap)) /\ dispatched \in Seq(Entries)
        /\ arrived \in Seq([client : Clients, msg : Messages])
    BY <1>1
  <2> QED BY <1>1, <2>1, Zenon DEF Typed
<1>3. QueueIsAlive
  <2>1. Len(queue) = 0
    BY <1>1
  <2> QED BY <1>1, <2>1 DEF QueueIsAlive
<1>4. TempIsOwn
  BY <1>1 DEF TempIsOwn
<1>5. OneEachInOrder
  <2>1. Waiting = <<>>
    BY <1>1 DEF Waiting
  <2> QED BY <1>1, <2>1 DEF OneEachInOrder
<1> QED BY <1>2, <1>3, <1>4, <1>5 DEF IInv

-------------------------------------------------------------------------------
(* What waits.                                                               *)

\* The pointers that wait, without the one that is being dispatched.
Left == IF inDispatch THEN Tail(queue) ELSE queue

LEMMA WaitingIs ==
    ASSUME Typed, QueueIsAlive
    PROVE  /\ Left \in Seq(1..Len(heap))
           /\ Waiting = [i \in 1..Len(Left) |-> Entry(Left[i])]
           /\ Waiting \in Seq(Entries) /\ Len(Waiting) = Len(Left)
           /\ \A i \in 1..Len(Left) : \E j \in 1..Len(queue) : Left[i] = queue[j]
<1>1. Left \in Seq(1..Len(heap)) /\ \A i \in 1..Len(Left) : \E j \in 1..Len(queue) : Left[i] = queue[j]
  <2>1. CASE inDispatch
    <3>1. queue \in Seq(1..Len(heap)) /\ queue # <<>>
      BY <2>1 DEF Typed, QueueIsAlive
    <3>2. /\ Tail(queue) \in Seq(1..Len(heap)) /\ Len(Tail(queue)) = Len(queue) - 1
          /\ \A i \in 1..Len(Tail(queue)) : Tail(queue)[i] = queue[i + 1]
      BY <3>1, HeadTailProperties
    <3>3. \A i \in 1..Len(Tail(queue)) : i + 1 \in 1..Len(queue)
      BY <3>1, <3>2
    <3> QED BY <2>1, <3>2, <3>3 DEF Left
  <2>2. CASE ~inDispatch
    BY <2>2 DEF Typed, Left
  <2> QED BY <2>1, <2>2
<1>2. Waiting = [i \in 1..Len(Left) |-> Entry(Left[i])]
  BY DEF Waiting, Left, Entry
<1>3. \A o \in 1..Len(heap) : Entry(o) \in Entries
  <2> SUFFICES ASSUME NEW o \in 1..Len(heap) PROVE Entry(o) \in Entries
    OBVIOUS
  <2>1. heap[o] \in Objects
    BY DEF Typed
  <2> QED BY <2>1 DEF Objects, Entries, Entry
<1>4. Len(Left) \in Nat /\ \A i \in 1..Len(Left) : Entry(Left[i]) \in Entries
  BY <1>1, <1>3
<1>5. Waiting \in Seq(Entries) /\ Len(Waiting) = Len(Left)
  <2> HIDE DEF Left, Entry
  <2> QED BY <1>2, <1>4
<1> QED BY <1>1, <1>2, <1>5

\* What waits stays what it is as long as nobody touches the objects of the queue, and
\* what is put behind it comes last.
LEMMA WaitingGrows ==
    ASSUME Typed, QueueIsAlive, NEW added \in Seq(Nat), Left' = Left \o added, Len(added) \in {0, 1},
           \A i \in 1..Len(queue) : /\ heap'[queue[i]].client = heap[queue[i]].client
                                    /\ heap'[queue[i]].data = heap[queue[i]].data
    PROVE  /\ Len(added) = 0 => UNCHANGED Waiting
           /\ Len(added) = 1 => LET o == added[1]
                                IN  Waiting' = Append(Waiting, [client |-> heap'[o].client, data |-> heap'[o].data])
<1> DEFINE E(o) == [client |-> heap'[o].client, data |-> heap'[o].data]
<1>1. Waiting' = [i \in 1..Len(Left') |-> E(Left'[i])]
  BY DEF Waiting, Left
<1>2. Left \in Seq(Nat) /\ Waiting = [i \in 1..Len(Left) |-> Entry(Left[i])]
      /\ Waiting \in Seq(Entries) /\ Len(Waiting) = Len(Left) /\ Len(Left) \in Nat
  <2>1. Left \in Seq(1..Len(heap)) /\ 1..Len(heap) \subseteq Nat
    BY WaitingIs DEF Typed
  <2> QED BY <2>1, WaitingIs, SeqMonotonic
<1>3. \A i \in 1..Len(Left) : E(Left[i]) = Entry(Left[i])
  <2> SUFFICES ASSUME NEW i \in 1..Len(Left) PROVE E(Left[i]) = Entry(Left[i])
    OBVIOUS
  <2>1. PICK j \in 1..Len(queue) : Left[i] = queue[j]
    BY WaitingIs
  <2> QED BY <2>1 DEF Entry
<1> HIDE DEF Left, Entry, E
<1>4. ASSUME Len(added) = 0 PROVE Waiting' = Waiting
  <2>1. added = <<>>
    BY <1>4
  <2>2. Left' = Left
    BY <1>2, <2>1, ConcatEmptySeq
  <2> QED BY <2>2, <1>1, <1>2, <1>3
<1>5. ASSUME Len(added) = 1 PROVE Waiting' = Append(Waiting, E(added[1]))
  <2>1. /\ Len(Left') = Len(Left) + 1
        /\ \A i \in 1..Len(Left) : Left'[i] = Left[i]
        /\ Left'[Len(Left) + 1] = added[1]
    <3>1. /\ Len(Left \o added) = Len(Left) + Len(added)
          /\ \A i \in 1..Len(Left) + Len(added) : (Left \o added)[i] =
                     IF i <= Len(Left) THEN Left[i] ELSE added[i - Len(Left)]
      BY <1>2, ConcatProperties
    <3> QED BY <1>2, <1>5, <3>1
  <2>2. Waiting' = [i \in 1..(Len(Left) + 1) |-> E(Left'[i])]
    BY <1>1, <2>1
  <2>3. Append(Waiting, E(added[1])) =
            [i \in 1..(Len(Left) + 1) |-> IF i = Len(Left) + 1 THEN E(added[1]) ELSE Waiting[i]]
    BY <1>2
  <2>4. \A i \in 1..(Len(Left) + 1) :
            E(Left'[i]) = IF i = Len(Left) + 1 THEN E(added[1]) ELSE Waiting[i]
    BY <1>2, <1>3, <2>1
  <2> QED BY <2>2, <2>3, <2>4
<1> QED BY <1>4, <1>5 DEF E

-------------------------------------------------------------------------------
(* A part of a frame.                                                        *)

LEMMA FrameIsLong ==
    ASSUME InboxAssumption, NEW at \in Parts PROVE FrameLength(at) \in Nat \ {0}
<1>1. Frames[at.msg] \in Seq(Nat \ {0}) /\ at.frame \in 1..Len(Frames[at.msg])
  BY DEF Parts, InboxAssumption
<1> QED BY <1>1, ElementOfSeq DEF FrameLength

\* The place of the next part: nothing, a later place in the same frame, or a new frame.
LEMMA AfterPart ==
    ASSUME InboxAssumption, NEW at \in Parts, NEW n \in Nat, n > 0, at.index + n <= FrameLength(at)
    PROVE  /\ After(at, n) \in Parts \cup {Nothing}
           /\ After(at, n) = Nothing <=> EndsFrame(at, n) /\ IsFinal(at)
           /\ After(at, n) # Nothing =>
                 \/ After(at, n).index = 0
                 \/ /\ After(at, n).msg = at.msg /\ After(at, n).frame = at.frame
                    /\ After(at, n).index = at.index + n
<1>1. /\ at.frame \in 1..Len(Frames[at.msg]) /\ Frames[at.msg] \in Seq(Nat \ {0})
      /\ FrameLength(at) \in Nat \ {0} /\ at.index \in Nat
  BY FrameIsLong DEF Parts, InboxAssumption
<1> at \in [msg : Messages, frame : Nat, index : Nat]
  BY DEF Parts
<1>2. CASE ~EndsFrame(at, n)
  <2> DEFINE next == [at EXCEPT !.index = @ + n]
  <2>1. After(at, n) = next
    BY <1>2 DEF After
  <2>2. /\ next \in [msg : Messages, frame : Nat, index : Nat]
        /\ next.msg = at.msg /\ next.frame = at.frame /\ next.index = at.index + n
    OBVIOUS
  <2>3. next.index < FrameLength(next)
    BY SMTT(30), <1>1, <1>2, <2>2 DEF EndsFrame, FrameLength
  <2>4. next # Nothing
    BY <1>1, <2>2 DEF Nothing
  <2> HIDE DEF next
  <2> QED BY <1>1, <1>2, <2>1, <2>2, <2>3, <2>4 DEF Parts
<1>3. CASE EndsFrame(at, n) /\ IsFinal(at)
  BY <1>3 DEF After
<1>4. CASE EndsFrame(at, n) /\ ~IsFinal(at)
  <2> DEFINE next == [at EXCEPT !.frame = @ + 1, !.index = 0]
  <2>1. After(at, n) = next
    BY <1>4 DEF After
  <2>2. /\ next \in [msg : Messages, frame : Nat, index : Nat]
        /\ next.msg = at.msg /\ next.frame = at.frame + 1 /\ next.index = 0
    <3> DEFINE moved == [at EXCEPT !.frame = at.frame + 1]
    <3>1. /\ moved \in [msg : Messages, frame : Nat, index : Nat]
          /\ moved.msg = at.msg /\ moved.frame = at.frame + 1
      OBVIOUS
    <3>2. next = [moved EXCEPT !.index = 0]
      OBVIOUS
    <3> HIDE DEF moved, next
    <3> QED BY <3>1, <3>2
  <2>3. next.frame \in 1..Len(Frames[next.msg])
    BY SMTT(30), <1>1, <1>4, <2>2 DEF IsFinal
  <2>4. FrameLength(next) \in Nat \ {0}
    BY <1>1, <2>2, <2>3, ElementOfSeq DEF FrameLength
  <2>5. next # Nothing
    BY <2>2 DEF Nothing
  <2> HIDE DEF next
  <2> QED BY <1>4, <2>1, <2>2, <2>3, <2>4, <2>5 DEF Parts
<1> QED BY <1>2, <1>3, <1>4

\* An object for a frame is new, or holds the parts that have come; it then holds one more.
LEMMA StoredPart ==
    ASSUME InboxAssumption, NEW at \in Parts, NEW n \in Nat, n > 0, at.index + n <= FrameLength(at),
           NEW object \in Objects, Len(object.data) = FrameLength(at),
           \A i \in 1..at.index : object.data[i] = Data(at.msg, at.frame)[i]
    PROVE  LET stored == WithData(object, at, n)
           IN  /\ stored \in Objects
               /\ stored.client = object.client /\ stored.deleted = object.deleted
               /\ Len(stored.data) = FrameLength(at)
               /\ \A i \in 1..(at.index + n) : stored.data[i] = Data(at.msg, at.frame)[i]
<1> DEFINE data == [i \in 1..Len(object.data) |->
            IF i \in at.index + 1 .. at.index + n THEN Data(at.msg, at.frame)[i] ELSE object.data[i]]
           stored == WithData(object, at, n)
<1>1. /\ FrameLength(at) \in Nat \ {0} /\ FrameLength(at) = Frames[at.msg][at.frame]
      /\ at.index \in Nat /\ at.msg \in Messages /\ at.frame \in Nat
  BY FrameIsLong DEF FrameLength, Parts
<1>2. stored = [object EXCEPT !.data = data]
  BY <1>1 DEF WithData
<1>3. \A i \in 1..FrameLength(at) : Data(at.msg, at.frame)[i] = <<at.msg, at.frame, i>>
  BY <1>1 DEF Data
<1>4. \A i \in 1..FrameLength(at) : data[i] \in Cell
  <2>1. object.data \in Seq(Cell)
    BY DEF Objects
  <2>2. \A i \in 1..FrameLength(at) : object.data[i] \in Cell
    BY <2>1, ElementOfSeq
  <2>3. \A i \in 1..FrameLength(at) : <<at.msg, at.frame, i>> \in Cell
    BY <1>1 DEF Cell
  <2> QED BY <1>3, <2>2, <2>3
<1>5. data \in Seq(Cell) /\ Len(data) = FrameLength(at)
  <2>1. data \in [1..FrameLength(at) -> Cell]
    BY <1>4
  <2>2. \A N \in Nat : \A f \in [1..N -> Cell] : f \in Seq(Cell) /\ Len(f) = N
    OBVIOUS
  <2> HIDE DEF data
  <2> QED BY <1>1, <2>1, <2>2
<1>6. \A i \in 1..(at.index + n) : data[i] = Data(at.msg, at.frame)[i]
  BY SMTT(30), <1>1
<1> HIDE DEF data
<1>7. /\ stored \in Objects /\ stored.data = data
      /\ stored.client = object.client /\ stored.deleted = object.deleted
  <2>1. object \in [client : Clients, data : Seq(Cell), deleted : BOOLEAN]
    BY DEF Objects
  <2> HIDE DEF stored
  <2> QED BY <1>2, <1>5, <2>1 DEF Objects
<1> HIDE DEF stored
<1> QED BY <1>5, <1>6, <1>7 DEF stored

\* What a part of n bytes of client c does to object o, new or the client's own.
Stores(c, n, o) ==
    /\ coming[c] \in Parts /\ n \in Nat /\ n > 0 /\ coming[c].index + n <= FrameLength(coming[c])
    /\ \/ o = Len(heap) + 1
       \/ coming[c].index > 0 /\ o = temp[c]
    /\ heap' \in Seq(Objects) /\ Len(heap) <= Len(heap') /\ o \in 1..Len(heap')
    /\ \A i \in 1..Len(heap) : i # o => heap'[i] = heap[i]
    /\ heap'[o].client = c /\ ~heap'[o].deleted
    /\ Len(heap'[o].data) = FrameLength(coming[c])
    /\ \A i \in 1..(coming[c].index + n) : heap'[o].data[i] = Data(coming[c].msg, coming[c].frame)[i]
    /\ temp' \in [Clients -> Nat] /\ \A d \in Clients : d # c => temp'[d] = temp[d]
    /\ temp'[c] \in {temp[c], o}
    /\ After(coming[c], n) # Nothing => temp'[c] = o
    /\ queue' = IF After(coming[c], n) = Nothing THEN Append(queue, o) ELSE queue
    /\ Arrives(c, n)
    /\ UNCHANGED <<inDispatch, dispatched>>

\* The object is not in the queue, and no other client's.
LEMMA StoresApart ==
    ASSUME InboxAssumption, IInv, NEW c \in Clients, NEW n, NEW o, Stores(c, n, o)
    PROVE  /\ \A i \in 1..Len(queue) : queue[i] # o /\ queue[i] \in 1..Len(heap)
           /\ \A d \in Clients : d # c /\ coming[d] # Nothing /\ coming[d].index > 0 => temp[d] # o
<1>1. Len(heap) \in Nat /\ \A i \in 1..Len(queue) : queue[i] \in 1..Len(heap)
  BY DEF IInv, Typed
<1>2. CASE o = Len(heap) + 1
  BY <1>1, <1>2 DEF IInv, TempIsOwn
<1>3. CASE coming[c].index > 0 /\ o = temp[c]
  <2>1. coming[c] # Nothing
    BY <1>3 DEF Nothing
  <2> QED BY <1>1, <1>3, <2>1 DEF IInv, TempIsOwn
<1> QED BY <1>2, <1>3 DEF Stores

LEMMA StoresKeepsTyped ==
    ASSUME InboxAssumption, IInv, NEW c \in Clients, NEW n, NEW o, Stores(c, n, o)
    PROVE  Typed' /\ QueueIsAlive' /\ TempIsOwn'
<1>1. /\ coming[c] \in Parts /\ n \in Nat /\ n > 0
      /\ coming[c].index + n <= FrameLength(coming[c]) /\ coming[c].msg \in Messages
  BY DEF Stores, Parts
<1>2. /\ After(coming[c], n) \in Parts \cup {Nothing}
      /\ After(coming[c], n) # Nothing =>
            \/ After(coming[c], n).index = 0
            \/ /\ After(coming[c], n).msg = coming[c].msg /\ After(coming[c], n).frame = coming[c].frame
               /\ After(coming[c], n).index = coming[c].index + n
  BY <1>1, AfterPart
<1>3. coming' = [coming EXCEPT ![c] = After(coming[c], n)]
  BY DEF Stores, Arrives
<1>4. /\ heap' \in Seq(Objects) /\ Len(heap) \in Nat /\ Len(heap') \in Nat /\ Len(heap) <= Len(heap')
      /\ o \in 1..Len(heap') /\ \A i \in 1..Len(heap) : i # o => heap'[i] = heap[i]
      /\ queue \in Seq(1..Len(heap))
  BY DEF Stores, IInv, Typed
<1>5. \A i \in 1..Len(queue) : queue[i] # o /\ queue[i] \in 1..Len(heap)
  BY StoresApart
<1>6. queue' \in Seq(1..Len(heap'))
  <2>1. queue \in Seq(1..Len(heap'))
    <3>1. 1..Len(heap) \subseteq 1..Len(heap')
      BY <1>4
    <3> QED BY <3>1, <1>4, SeqMonotonic
  <2>2. Append(queue, o) \in Seq(1..Len(heap'))
    BY <2>1, <1>4
  <2> QED BY <2>1, <2>2 DEF Stores
<1>7. temp' \in [Clients -> 0..Len(heap')]
  <2>1. \A d \in Clients : temp[d] \in 0..Len(heap)
    BY DEF IInv, Typed
  <2>2. \A d \in Clients : temp'[d] \in {temp[d], o}
    BY DEF Stores
  <2>3. o \in 0..Len(heap') /\ \A k \in 0..Len(heap) : k \in 0..Len(heap')
    BY <1>4
  <2>4. \A d \in Clients : temp'[d] \in 0..Len(heap')
    BY <2>1, <2>2, <2>3, Zenon
  <2>5. temp' \in [Clients -> Nat]
    BY DEF Stores
  <2> QED BY <2>4, <2>5
<1>8. arrived' \in Seq([client : Clients, msg : Messages])
  <2>1. arrived \in Seq([client : Clients, msg : Messages])
    BY DEF IInv, Typed
  <2>2. Append(arrived, [client |-> c, msg |-> coming[c].msg]) \in Seq([client : Clients, msg : Messages])
    BY <2>1, <1>1
  <2> QED BY <2>1, <2>2 DEF Stores, Arrives
<1>9. coming' \in [Clients -> Parts \cup {Nothing}]
  BY <1>2, <1>3 DEF IInv, Typed
<1>10. Typed'
  BY <1>4, <1>6, <1>7, <1>8, <1>9, Zenon DEF IInv, Typed, Stores
<1>11. QueueIsAlive'
  <2>1. inDispatch' => queue' # <<>>
    <3>1. queue' # <<>> \/ queue' = queue
      <4>1. \A S : \A q \in Seq(S) : Append(q, o) # <<>>
        OBVIOUS
      <4> QED BY <4>1, <1>4 DEF Stores
    <3> QED BY <3>1, Zenon DEF IInv, QueueIsAlive, Stores
  <2>2. CASE queue' = queue
    <3>1. \A i \in 1..Len(queue) : heap'[queue[i]] = heap[queue[i]]
      BY <1>4, <1>5
    <3> QED BY <2>1, <2>2, <3>1 DEF IInv, QueueIsAlive
  <2>3. CASE queue' = Append(queue, o)
    <3>1. /\ Len(queue') = Len(queue) + 1 /\ Len(queue) \in Nat
          /\ \A i \in 1..Len(queue) : queue'[i] = queue[i]
          /\ queue'[Len(queue) + 1] = o
      BY <2>3, <1>4
    <3>2. \A i \in 1..Len(queue') : i \in 1..Len(queue) \/ i = Len(queue) + 1
      BY <3>1
    <3>3. \A i, j \in 1..Len(queue') : queue'[i] = queue'[j] => i = j
      <4>1. \A i, j \in 1..Len(queue) : queue[i] = queue[j] => i = j
        BY DEF IInv, QueueIsAlive
      <4> QED BY <3>1, <3>2, <4>1, <1>5
    <3>4. \A i \in 1..Len(queue') : ~heap'[queue'[i]].deleted
      <4>1. \A i \in 1..Len(queue) : ~heap'[queue[i]].deleted
        BY <1>4, <1>5 DEF IInv, QueueIsAlive
      <4> QED BY <3>1, <3>2, <4>1 DEF Stores
    <3> QED BY <2>1, <3>3, <3>4 DEF QueueIsAlive
  <2> QED BY <2>2, <2>3 DEF Stores
<1>12. TempIsOwn'
  <2> SUFFICES ASSUME NEW d \in Clients, coming'[d] # Nothing, coming'[d].index > 0
               PROVE  /\ temp'[d] \in 1..Len(heap')
                      /\ heap'[temp'[d]].client = d /\ ~heap'[temp'[d]].deleted
                      /\ \A i \in 1..Len(queue') : queue'[i] # temp'[d]
                      /\ Len(heap'[temp'[d]].data) = FrameLength(coming'[d])
                      /\ \A i \in 1..coming'[d].index :
                            heap'[temp'[d]].data[i] = Data(coming'[d].msg, coming'[d].frame)[i]
    BY DEF TempIsOwn, FrameLength, Data
  <2>1. CASE d = c
    <3>1. coming'[c] = After(coming[c], n)
      BY <1>3 DEF IInv, Typed
    <3>2. /\ coming'[c].msg = coming[c].msg /\ coming'[c].frame = coming[c].frame
          /\ coming'[c].index = coming[c].index + n
      BY <2>1, <3>1, <1>2
    <3>3. temp'[c] = o /\ queue' = queue
      BY <2>1, <3>1 DEF Stores
    <3> QED BY <2>1, <3>2, <3>3, <1>4, <1>5 DEF Stores, FrameLength
  <2>2. CASE d # c
    <3>1. coming'[d] = coming[d]
      BY <2>2, <1>3 DEF IInv, Typed
    <3>2. temp'[d] = temp[d]
      BY <2>2 DEF Stores
    <3>3. temp[d] # o
      BY <2>2, <3>1, StoresApart
    <3>4. /\ temp[d] \in 1..Len(heap)
          /\ heap[temp[d]].client = d /\ ~heap[temp[d]].deleted
          /\ \A i \in 1..Len(queue) : queue[i] # temp[d]
          /\ Len(heap[temp[d]].data) = FrameLength(coming[d])
          /\ \A i \in 1..coming[d].index : heap[temp[d]].data[i] = Data(coming[d].msg, coming[d].frame)[i]
      BY <3>1 DEF IInv, TempIsOwn
    <3>5. heap'[temp[d]] = heap[temp[d]] /\ temp[d] \in 1..Len(heap')
      BY <1>4, <3>3, <3>4
    <3>6. \A i \in 1..Len(queue') : queue'[i] # temp[d]
      BY <3>3, <3>4, <1>4 DEF Stores
    <3> QED BY <3>1, <3>2, <3>4, <3>5, <3>6
  <2> QED BY <2>1, <2>2
<1> QED BY <1>10, <1>11, <1>12

\* Appending to the second of two sequences.
LEMMA AppendToSecond ==
    ASSUME NEW S, NEW s \in Seq(S), NEW t \in Seq(S), NEW e \in S
    PROVE  s \o Append(t, e) = Append(s \o t, e)
<1>1. Append(t, e) = t \o <<e>> /\ <<e>> \in Seq(S)
  OBVIOUS
<1>2. s \o (t \o <<e>>) = (s \o t) \o <<e>>
  BY <1>1, ConcatAssociative
<1> QED BY <1>1, <1>2, ConcatProperties

\* What goes from the front of one sequence to the end of another.
LEMMA FrontMoves ==
    ASSUME NEW S, NEW s \in Seq(S), NEW t \in Seq(S), t # <<>>
    PROVE  Append(s, Head(t)) \o Tail(t) = s \o t
<1>1. Head(t) \in S /\ Tail(t) \in Seq(S) /\ t = <<Head(t)>> \o Tail(t) /\ <<Head(t)>> \in Seq(S)
  BY HeadTailProperties
<1>2. (s \o <<Head(t)>>) \o Tail(t) = s \o (<<Head(t)>> \o Tail(t))
  BY <1>1, ConcatAssociative
<1>3. Append(s, Head(t)) = s \o <<Head(t)>>
  BY <1>1
<1> QED BY <1>1, <1>2, <1>3

\* Does a dispatched or a waiting entry fit the message that arrived?
Fits(entry, message) ==
    /\ entry.client = message.client
    /\ Len(Frames[message.msg]) = 1 => entry.data = Data(message.msg, 1)

LEMMA OrderGrows ==
    ASSUME Typed, QueueIsAlive, OneEachInOrder,
           NEW e \in Entries, NEW a \in [client : Clients, msg : Messages], Fits(e, a),
           Waiting' = Append(Waiting, e), arrived' = Append(arrived, a), UNCHANGED dispatched
    PROVE  OneEachInOrder'
<1> DEFINE all == dispatched \o Waiting
<1>1. Waiting \in Seq(Entries) /\ dispatched \in Seq(Entries)
      /\ arrived \in Seq([client : Clients, msg : Messages])
  BY WaitingIs DEF Typed
<1>2. all \in Seq(Entries)
  BY <1>1, ConcatProperties
<1>3. all' = Append(all, e)
  BY <1>1, AppendToSecond
<1>4. Len(all) = Len(arrived) /\ \A i \in 1..Len(all) : Fits(all[i], arrived[i])
  BY DEF OneEachInOrder, Fits
<1> HIDE DEF all
<1>5. Len(all') = Len(arrived')
  BY <1>1, <1>2, <1>3, <1>4
<1>6. ASSUME NEW i \in 1..Len(all') PROVE Fits(all'[i], arrived'[i])
  <2>1. CASE i \in 1..Len(all)
    <3>1. all'[i] = all[i] /\ arrived'[i] = arrived[i]
      BY <2>1, <1>1, <1>2, <1>3, <1>4
    <3> QED BY <2>1, <3>1, <1>4
  <2>2. CASE i = Len(all) + 1
    <3>1. all'[i] = e /\ arrived'[i] = a
      BY <2>2, <1>1, <1>2, <1>3, <1>4
    <3> QED BY <3>1
  <2>3. i \in 1..Len(all) \/ i = Len(all) + 1
    BY <1>2, <1>3
  <2> QED BY <2>1, <2>2, <2>3
<1> QED BY <1>5, <1>6 DEF OneEachInOrder, Fits, Data, all

\* The part changes nothing that waits, or it is the last one and its object is put behind.
LEMMA StoresKeepsInv ==
    ASSUME InboxAssumption, IInv, NEW c \in Clients, NEW n, NEW o, Stores(c, n, o)
    PROVE  /\ IInv'
           /\ UNCHANGED dispatched
           /\ UNCHANGED Waiting \/ \E e \in Entries : Waiting' = Append(Waiting, e)
<1> DEFINE at == coming[c]
           e == [client |-> heap'[o].client, data |-> heap'[o].data]
<1>1. Typed' /\ QueueIsAlive' /\ TempIsOwn'
  BY StoresKeepsTyped
<1>2. /\ heap' \in Seq(Objects) /\ o \in 1..Len(heap') /\ heap'[o] \in Objects /\ o \in Nat
      /\ at \in Parts /\ n \in Nat /\ n > 0 /\ at.index + n <= FrameLength(at)
      /\ UNCHANGED <<inDispatch, dispatched>>
  BY ElementOfSeq DEF Stores
<1>3. e \in Entries /\ e.client = c
  BY <1>2 DEF Stores, Entries, Objects
<1>4. \A i \in 1..Len(queue) : heap'[queue[i]] = heap[queue[i]]
  <2>1. \A i \in 1..Len(heap) : i # o => heap'[i] = heap[i]
    BY DEF Stores
  <2>2. \A i \in 1..Len(queue) : queue[i] # o /\ queue[i] \in 1..Len(heap)
    BY StoresApart
  <2> QED BY <2>1, <2>2, Zenon
<1>5. queue \in Seq(Nat) /\ (inDispatch => queue # <<>>) /\ Left \in Seq(Nat)
  <2>1. 1..Len(heap) \subseteq Nat /\ queue \in Seq(1..Len(heap)) /\ Left \in Seq(1..Len(heap))
    BY WaitingIs DEF IInv, Typed
  <2> QED BY <2>1, SeqMonotonic DEF IInv, QueueIsAlive
<1>6. CASE After(at, n) # Nothing
  <2>1. queue' = queue /\ arrived' = arrived
    BY <1>6 DEF Stores, Arrives
  <2>2. Left' = Left \o <<>>
    <3>1. Left' = Left
      BY <2>1, <1>2 DEF Left
    <3> QED BY <3>1, <1>5, ConcatEmptySeq
  <2>3. <<>> \in Seq(Nat) /\ Len(<<>>) = 0
    OBVIOUS
  <2>4. Waiting' = Waiting
    BY <2>2, <2>3, <1>4, WaitingGrows DEF IInv
  <2>5. OneEachInOrder'
    BY <2>1, <2>4, <1>2 DEF IInv, OneEachInOrder, Data
  <2> QED BY <1>1, <1>2, <2>4, <2>5 DEF IInv
<1>7. CASE After(at, n) = Nothing
  <2>1. /\ queue' = Append(queue, o)
        /\ arrived' = Append(arrived, [client |-> c, msg |-> at.msg])
        /\ EndsFrame(at, n) /\ IsFinal(at)
    BY <1>2, <1>7, AfterPart DEF Stores, Arrives
  <2>2. Left' = Left \o <<o>>
    <3>1. CASE inDispatch
      <4>1. \A q \in Seq(Nat) : q # <<>> => Tail(Append(q, o)) = Tail(q) \o <<o>>
        BY <1>2
      <4> QED BY <3>1, <4>1, <2>1, <1>2, <1>5 DEF Left
    <3>2. CASE ~inDispatch
      <4>1. \A q \in Seq(Nat) : Append(q, o) = q \o <<o>>
        BY <1>2, AppendIsConcat
      <4> QED BY <3>2, <4>1, <2>1, <1>2, <1>5 DEF Left
    <3> QED BY <3>1, <3>2
  <2>3. <<o>> \in Seq(Nat) /\ Len(<<o>>) = 1 /\ <<o>>[1] = o
    BY <1>2
  <2>4. Waiting' = Append(Waiting, e)
    BY <2>2, <2>3, <1>4, WaitingGrows DEF IInv
  <2>5. Fits(e, [client |-> c, msg |-> at.msg])
    <3> SUFFICES ASSUME Len(Frames[at.msg]) = 1 PROVE heap'[o].data = Data(at.msg, 1)
      BY <1>3 DEF Fits
    <3>1. at.frame = 1 /\ at.index + n = FrameLength(at) /\ FrameLength(at) \in Nat
      BY <1>2, <2>1, FrameIsLong DEF IsFinal, EndsFrame
    <3>2. /\ heap'[o].data \in Seq(Cell) /\ Len(heap'[o].data) = FrameLength(at)
          /\ \A i \in 1..FrameLength(at) : heap'[o].data[i] = Data(at.msg, 1)[i]
      BY <1>2, <3>1 DEF Stores, Objects
    <3>3. heap'[o].data = [i \in 1..FrameLength(at) |-> heap'[o].data[i]]
      <4>1. \A d \in Seq(Cell) : d = [i \in 1..Len(d) |-> d[i]]
        OBVIOUS
      <4> QED BY <4>1, <3>2
    <3>4. Data(at.msg, 1) = [i \in 1..FrameLength(at) |-> Data(at.msg, 1)[i]]
      BY <3>1 DEF Data, FrameLength
    <3> QED BY <3>2, <3>3, <3>4
  <2>6. [client |-> c, msg |-> at.msg] \in [client : Clients, msg : Messages]
    BY <1>2 DEF Parts
  <2>7. OneEachInOrder'
    <3> HIDE DEF e, at
    <3> QED BY <1>2, <1>3, <2>1, <2>4, <2>5, <2>6, OrderGrows DEF IInv
  <2> QED BY <1>1, <1>2, <1>3, <2>4, <2>7 DEF IInv
<1> QED BY <1>6, <1>7

-------------------------------------------------------------------------------
(* The actions.                                                              *)

\* A client that is not within a frame, or whose parts are as before, and no new data.
LEMMA TempStaysOwn ==
    ASSUME TempIsOwn, UNCHANGED <<heap, queue>>,
           \A d \in Clients : \/ coming'[d] = Nothing
                              \/ coming'[d].index = 0
                              \/ coming'[d] = coming[d] /\ temp'[d] = temp[d]
    PROVE  TempIsOwn'
<1> SUFFICES ASSUME NEW d \in Clients, coming'[d] # Nothing, coming'[d].index > 0
             PROVE  /\ temp'[d] \in 1..Len(heap')
                    /\ heap'[temp'[d]].client = d /\ ~heap'[temp'[d]].deleted
                    /\ \A i \in 1..Len(queue') : queue'[i] # temp'[d]
                    /\ Len(heap'[temp'[d]].data) = FrameLength(coming'[d])
                    /\ \A i \in 1..coming'[d].index :
                          heap'[temp'[d]].data[i] = Data(coming'[d].msg, coming'[d].frame)[i]
  BY DEF TempIsOwn, FrameLength, Data
<1>1. coming'[d] = coming[d] /\ temp'[d] = temp[d] /\ heap' = heap /\ queue' = queue
  OBVIOUS
<1> QED BY <1>1 DEF TempIsOwn

LEMMA SendsKeepsInv ==
    ASSUME InboxAssumption, IInv, NEW c \in Clients, NEW m \in Messages, ClientSends(c, m)
    PROVE  IInv' /\ UNCHANGED <<Waiting, dispatched>>
<1> DEFINE at == [msg |-> m, frame |-> 1, index |-> 0]
<1>1. /\ coming' = [coming EXCEPT ![c] = at]
      /\ UNCHANGED <<temp, heap, queue, inDispatch, dispatched, arrived>>
  BY DEF ClientSends
<1>2. at \in Parts
  <2>1. Frames[m] \in Seq(Nat \ {0}) /\ Frames[m] # <<>>
    BY DEF InboxAssumption
  <2>2. Frames[m][1] \in Nat \ {0} /\ 1 \in 1..Len(Frames[m])
    BY <2>1
  <2> QED BY <2>2 DEF Parts, FrameLength
<1>3. coming' \in [Clients -> Parts \cup {Nothing}] /\ coming'[c].index = 0
      /\ \A d \in Clients : d # c => coming'[d] = coming[d]
  BY <1>1, <1>2 DEF IInv, Typed
<1>4. Typed'
  BY <1>1, <1>3, Zenon DEF IInv, Typed
<1>5. QueueIsAlive'
  BY <1>1 DEF IInv, QueueIsAlive
<1>6. TempIsOwn'
  BY <1>1, <1>3, TempStaysOwn DEF IInv
<1>7. Waiting' = Waiting
  BY <1>1 DEF Waiting
<1>8. OneEachInOrder'
  BY <1>1, <1>7 DEF IInv, OneEachInOrder, Data
<1> QED BY <1>1, <1>4, <1>5, <1>6, <1>7, <1>8 DEF IInv

LEMMA DisconnectKeepsInv ==
    ASSUME InboxAssumption, IInv, NEW c \in Clients, Disconnect(c)
    PROVE  IInv' /\ UNCHANGED <<Waiting, dispatched>>
<1>1. /\ coming' = [coming EXCEPT ![c] = Nothing] /\ temp' = [temp EXCEPT ![c] = 0]
      /\ UNCHANGED <<heap, queue, inDispatch, dispatched, arrived>>
  BY DEF Disconnect, NullPtr
<1>2. /\ coming' \in [Clients -> Parts \cup {Nothing}] /\ coming'[c] = Nothing
      /\ temp' \in [Clients -> 0..Len(heap)]
      /\ \A d \in Clients : d # c => coming'[d] = coming[d] /\ temp'[d] = temp[d]
  BY <1>1 DEF IInv, Typed
<1>3. Typed'
  BY <1>1, <1>2, Zenon DEF IInv, Typed
<1>4. QueueIsAlive'
  BY <1>1 DEF IInv, QueueIsAlive
<1>5. TempIsOwn'
  BY <1>1, <1>2, TempStaysOwn DEF IInv
<1>6. Waiting' = Waiting
  BY <1>1 DEF Waiting
<1>7. OneEachInOrder'
  BY <1>1, <1>6 DEF IInv, OneEachInOrder, Data
<1> QED BY <1>1, <1>3, <1>4, <1>5, <1>6, <1>7 DEF IInv

\* A new object takes a whole frame.
LEMMA NewObjectFits ==
    ASSUME InboxAssumption, NEW c \in Clients, coming[c] \in Parts
    PROVE  /\ NewObject(c) \in Objects /\ Len(NewObject(c).data) = FrameLength(coming[c])
           /\ NewObject(c).client = c /\ ~NewObject(c).deleted
<1> DEFINE data == [i \in 1..FrameLength(coming[c]) |-> ZeroByte]
<1>1. FrameLength(coming[c]) \in Nat
  BY FrameIsLong
<1>2. data \in Seq(Cell) /\ Len(data) = FrameLength(coming[c])
  BY <1>1 DEF Cell
<1>3. NewObject(c) = [client |-> c, data |-> data, deleted |-> FALSE]
  BY DEF NewObject
<1> HIDE DEF data
<1>4. /\ NewObject(c).client = c /\ NewObject(c).data = data /\ NewObject(c).deleted = FALSE
      /\ NewObject(c) \in Objects
  BY <1>2, <1>3 DEF Objects
<1> QED BY <1>2, <1>4

LEMMA SingleFrameStores ==
    ASSUME InboxAssumption, IInv, NEW c \in Clients, NEW n \in Nat, SingleFrame(c, n)
    PROVE  Stores(c, n, Len(heap) + 1)
<1> DEFINE at == coming[c]
           object == WithData(NewObject(c), at, n)
           o == Len(heap) + 1
<1>1. /\ at \in Parts /\ n > 0 /\ at.index + n <= FrameLength(at) /\ at.index = 0
      /\ EndsFrame(at, n) /\ IsFinal(at)
      /\ heap' = Append(heap, object) /\ queue' = Append(queue, o) /\ Arrives(c, n)
      /\ UNCHANGED <<temp, inDispatch, dispatched>>
  BY DEF SingleFrame, IsPart, IInv, Typed
<1>2. /\ object \in Objects /\ object.client = c /\ ~object.deleted
      /\ Len(object.data) = FrameLength(at)
      /\ \A i \in 1..(at.index + n) : object.data[i] = Data(at.msg, at.frame)[i]
  <2>1. /\ NewObject(c) \in Objects /\ Len(NewObject(c).data) = FrameLength(at)
        /\ NewObject(c).client = c /\ ~NewObject(c).deleted
    BY <1>1, NewObjectFits
  <2>2. \A i \in 1..at.index : NewObject(c).data[i] = Data(at.msg, at.frame)[i]
    BY <1>1
  <2> HIDE DEF at
  <2> QED BY <1>1, <2>1, <2>2, StoredPart
<1>3. After(at, n) = Nothing
  BY <1>1, AfterPart
<1>4. heap \in Seq(Objects) /\ temp \in [Clients -> Nat]
  BY DEF IInv, Typed
<1> HIDE DEF object
<1>5. /\ heap' \in Seq(Objects) /\ Len(heap) <= Len(heap') /\ o \in 1..Len(heap')
      /\ \A i \in 1..Len(heap) : i # o => heap'[i] = heap[i]
      /\ heap'[o] = object
  <2>1. \A h \in Seq(Objects) : \A x \in Objects :
            /\ Append(h, x) \in Seq(Objects) /\ Len(Append(h, x)) = Len(h) + 1 /\ Len(h) \in Nat
            /\ Append(h, x)[Len(h) + 1] = x
            /\ \A i \in 1..Len(h) : Append(h, x)[i] = h[i]
    OBVIOUS
  <2>2. heap' = Append(heap, object) /\ object \in Objects
    BY <1>1, <1>2
  <2> QED BY <2>1, <2>2, <1>4
<1> HIDE DEF o
<1> QED BY <1>1, <1>2, <1>3, <1>4, <1>5 DEF Stores, o

LEMMA MultiFrameStores ==
    ASSUME InboxAssumption, IInv, NEW c \in Clients, NEW n \in Nat, MultiFrame(c, n)
    PROVE  \E o : Stores(c, n, o)
<1> DEFINE at == coming[c]
           o == IF Allocates(c) THEN Len(heap) + 1 ELSE temp[c]
           known == IF Allocates(c) THEN Append(heap, NewObject(c)) ELSE heap
           object == WithData(known[o], at, n)
<1>1. /\ at \in Parts /\ n > 0 /\ at.index + n <= FrameLength(at) /\ at.index \in Nat
      /\ temp' = [temp EXCEPT ![c] = o]
      /\ heap' = [known EXCEPT ![o] = object]
      /\ queue' = IF IsFinal(at) /\ EndsFrame(at, n) THEN Append(queue, o) ELSE queue
      /\ Arrives(c, n)
      /\ UNCHANGED <<inDispatch, dispatched>>
  BY DEF MultiFrame, IsPart, IInv, Typed, Parts
<1>2. heap \in Seq(Objects) /\ Len(heap) \in Nat /\ temp \in [Clients -> Nat]
  BY DEF IInv, Typed
<1>3. /\ known \in Seq(Objects) /\ Len(heap) <= Len(known) /\ o \in 1..Len(known)
      /\ \A i \in 1..Len(heap) : i # o => known[i] = heap[i]
      /\ o = Len(heap) + 1 \/ (at.index > 0 /\ o = temp[c])
      /\ known[o] \in Objects /\ known[o].client = c /\ ~known[o].deleted
      /\ Len(known[o].data) = FrameLength(at)
      /\ \A i \in 1..at.index : known[o].data[i] = Data(at.msg, at.frame)[i]
  <2>1. CASE Allocates(c)
    <3>1. /\ NewObject(c) \in Objects /\ Len(NewObject(c).data) = FrameLength(at)
          /\ NewObject(c).client = c /\ ~NewObject(c).deleted
      BY <1>1, NewObjectFits
    <3>2. o = Len(heap) + 1 /\ known = Append(heap, NewObject(c)) /\ at.index = 0
      BY <2>1 DEF Allocates
    <3>3. /\ known \in Seq(Objects) /\ Len(known) = Len(heap) + 1 /\ known[o] = NewObject(c)
          /\ \A i \in 1..Len(heap) : known[i] = heap[i]
      BY <1>2, <3>1, <3>2
    <3> HIDE DEF known, o
    <3> QED BY <1>2, <3>1, <3>2, <3>3
  <2>2. CASE ~Allocates(c)
    <3>1. o = temp[c] /\ known = heap /\ at.index > 0 /\ at # Nothing
      BY <2>2, <1>1 DEF Allocates, Nothing
    <3>2. /\ temp[c] \in 1..Len(heap) /\ heap[temp[c]].client = c /\ ~heap[temp[c]].deleted
          /\ Len(heap[temp[c]].data) = FrameLength(at)
          /\ \A i \in 1..at.index : heap[temp[c]].data[i] = Data(at.msg, at.frame)[i]
      BY <3>1 DEF IInv, TempIsOwn
    <3>3. heap[temp[c]] \in Objects
      BY <1>2, <3>2
    <3> HIDE DEF known, o
    <3> QED BY <1>2, <3>1, <3>2, <3>3
  <2> QED BY <2>1, <2>2
<1> HIDE DEF known, o
<1>4. /\ object \in Objects /\ object.client = c /\ ~object.deleted
      /\ Len(object.data) = FrameLength(at)
      /\ \A i \in 1..(at.index + n) : object.data[i] = Data(at.msg, at.frame)[i]
  <2>1. /\ known[o] \in Objects /\ known[o].client = c /\ ~known[o].deleted
        /\ Len(known[o].data) = FrameLength(at)
        /\ \A i \in 1..at.index : known[o].data[i] = Data(at.msg, at.frame)[i]
    BY <1>3
  <2>2. at \in Parts /\ n > 0 /\ at.index + n <= FrameLength(at)
    BY <1>1
  <2> HIDE DEF at
  <2> QED BY <2>1, <2>2, StoredPart
<1>5. After(at, n) = Nothing <=> IsFinal(at) /\ EndsFrame(at, n)
  BY <1>1, AfterPart
<1> HIDE DEF object
<1>6. /\ heap' \in Seq(Objects) /\ Len(heap') = Len(known) /\ heap'[o] = object
      /\ \A i \in 1..Len(known) : i # o => heap'[i] = known[i]
  BY <1>1, <1>3, <1>4, ExceptSeq
<1>7. /\ Len(heap) <= Len(heap') /\ o \in 1..Len(heap') /\ o \in Nat
      /\ \A i \in 1..Len(heap) : i # o => heap'[i] = heap[i]
  BY <1>2, <1>3, <1>6
<1>8. temp' \in [Clients -> Nat] /\ temp'[c] = o /\ \A d \in Clients : d # c => temp'[d] = temp[d]
  BY <1>1, <1>2, <1>7
<1>9. Stores(c, n, o)
  BY <1>1, <1>3, <1>4, <1>5, <1>6, <1>7, <1>8 DEF Stores
<1> QED BY <1>9

\* dispatchMessage() takes the first that waits.
LEMMA DispatchKeepsInv ==
    ASSUME InboxAssumption, IInv, DispatchMessage
    PROVE  /\ IInv'
           /\ Waiting # <<>> /\ dispatched' = Append(dispatched, Head(Waiting)) /\ Waiting' = Tail(Waiting)
<1>1. /\ ~inDispatch /\ queue # <<>> /\ inDispatch' = TRUE
      /\ dispatched' = Append(dispatched, Entry(Head(queue)))
      /\ UNCHANGED <<coming, temp, heap, queue, arrived>>
  BY DEF DispatchMessage, Entry
<1>2. /\ queue \in Seq(1..Len(heap)) /\ Left = queue /\ Left' = Tail(queue)
      /\ dispatched \in Seq(Entries)
  BY <1>1 DEF Left, IInv, Typed
<1>3. /\ Waiting = [i \in 1..Len(queue) |-> Entry(queue[i])]
      /\ Waiting \in Seq(Entries) /\ Len(Waiting) = Len(queue)
  BY <1>2, WaitingIs DEF IInv
<1>4. /\ Tail(queue) \in Seq(1..Len(heap)) /\ Len(Tail(queue)) = Len(queue) - 1
      /\ \A i \in 1..Len(Tail(queue)) : Tail(queue)[i] = queue[i + 1]
      /\ Len(queue) \in Nat \ {0} /\ Head(queue) = queue[1]
  BY <1>1, <1>2, HeadTailProperties, EmptySeq
<1>5. Waiting # <<>> /\ Head(Waiting) = Entry(Head(queue)) /\ Head(Waiting) \in Entries
  BY <1>3, <1>4
<1>6. Waiting' = Tail(Waiting)
  <2>1. Waiting' = [i \in 1..Len(Tail(queue)) |-> Entry(Tail(queue)[i])]
    BY <1>1, <1>2 DEF Waiting, Left, Entry
  <2>2. /\ Tail(Waiting) \in Seq(Entries) /\ Len(Tail(Waiting)) = Len(Waiting) - 1
        /\ \A i \in 1..Len(Tail(Waiting)) : Tail(Waiting)[i] = Waiting[i + 1]
    BY <1>3, <1>5, HeadTailProperties
  <2>3. Tail(Waiting) = [i \in 1..Len(Tail(Waiting)) |-> Tail(Waiting)[i]]
    <3>1. \A w \in Seq(Entries) : w = [i \in 1..Len(w) |-> w[i]]
      OBVIOUS
    <3> QED BY <2>2, <3>1
  <2>4. Len(Tail(Waiting)) = Len(Tail(queue))
    BY <1>3, <1>4, <2>2
  <2>5. \A i \in 1..Len(Tail(queue)) : Tail(Waiting)[i] = Entry(Tail(queue)[i])
    <3> HIDE DEF Entry
    <3>1. \A i \in 1..Len(Tail(queue)) : i + 1 \in 1..Len(queue)
      BY <1>4
    <3> QED BY <1>3, <1>4, <2>2, <2>4, <3>1
  <2> QED BY <2>1, <2>3, <2>4, <2>5
<1>7. Typed'
  <2>1. dispatched' \in Seq(Entries)
    BY <1>1, <1>2, <1>5
  <2> QED BY <1>1, <2>1, Zenon DEF IInv, Typed
<1>8. QueueIsAlive'
  BY <1>1 DEF IInv, QueueIsAlive
<1>9. TempIsOwn'
  BY <1>1, TempStaysOwn DEF IInv
<1>10. OneEachInOrder'
  <2>1. dispatched' \o Waiting' = dispatched \o Waiting
    BY <1>1, <1>2, <1>3, <1>5, <1>6, FrontMoves
  <2> QED BY <1>1, <2>1 DEF IInv, OneEachInOrder, Data
<1> QED BY <1>1, <1>5, <1>6, <1>7, <1>8, <1>9, <1>10 DEF IInv

\* ... and deletes it afterwards; it was the first of the queue.
LEMMA DeleteKeepsInv ==
    ASSUME InboxAssumption, IInv, DeleteMessage
    PROVE  IInv' /\ UNCHANGED <<Waiting, dispatched>>
<1> DEFINE first == Head(queue)
<1>1. /\ inDispatch /\ inDispatch' = FALSE /\ queue' = Tail(queue)
      /\ heap' = [heap EXCEPT ![first].deleted = TRUE]
      /\ UNCHANGED <<coming, temp, dispatched, arrived>>
  BY DEF DeleteMessage
<1>2. heap \in Seq(Objects) /\ queue \in Seq(1..Len(heap)) /\ queue # <<>> /\ Len(heap) \in Nat
  BY <1>1 DEF IInv, Typed, QueueIsAlive
<1>3. /\ Tail(queue) \in Seq(1..Len(heap)) /\ Len(Tail(queue)) = Len(queue) - 1
      /\ \A i \in 1..Len(Tail(queue)) : Tail(queue)[i] = queue[i + 1]
      /\ Len(queue) \in Nat \ {0} /\ first = queue[1] /\ first \in 1..Len(heap)
  BY <1>2, HeadTailProperties, EmptySeq
<1>4. \A i \in 1..Len(Tail(queue)) : i + 1 \in 1..Len(queue) /\ Tail(queue)[i] = queue[i + 1] /\ i + 1 # 1
  BY <1>3
<1> HIDE DEF first
<1>5. /\ heap' \in Seq(Objects) /\ Len(heap') = Len(heap)
      /\ \A i \in 1..Len(heap) : i # first => heap'[i] = heap[i]
      /\ heap'[first].client = heap[first].client /\ heap'[first].data = heap[first].data
  <2> DEFINE gone == [heap[first] EXCEPT !.deleted = TRUE]
  <2>1. heap[first] \in Objects
    BY <1>2, <1>3
  <2>2. gone \in Objects /\ gone.client = heap[first].client /\ gone.data = heap[first].data
    BY <2>1 DEF Objects
  <2>3. heap' = [heap EXCEPT ![first] = gone]
    BY <1>1
  <2> HIDE DEF gone
  <2>4. heap' \in Seq(Objects) /\ Len(heap') = Len(heap)
        /\ \A j \in 1..Len(heap) : heap'[j] = IF j = first THEN gone ELSE heap[j]
    BY <1>2, <1>3, <2>2, <2>3, ExceptSeq
  <2> QED BY <1>3, <2>2, <2>4
<1>6. \A i \in 1..Len(Tail(queue)) : Tail(queue)[i] # first
  BY <1>3, <1>4 DEF IInv, QueueIsAlive
<1>7. Typed'
  BY <1>1, <1>3, <1>5, Zenon DEF IInv, Typed
<1>8. QueueIsAlive'
  <2>1. \A i, j \in 1..Len(Tail(queue)) : Tail(queue)[i] = Tail(queue)[j] => i = j
    <3> SUFFICES ASSUME NEW i \in 1..Len(Tail(queue)), NEW j \in 1..Len(Tail(queue)),
                        Tail(queue)[i] = Tail(queue)[j] PROVE i = j
      OBVIOUS
    <3>1. i + 1 = j + 1
      BY <1>4 DEF IInv, QueueIsAlive
    <3> QED BY <3>1
  <2>2. \A i \in 1..Len(Tail(queue)) : ~heap'[Tail(queue)[i]].deleted
    <3> SUFFICES ASSUME NEW i \in 1..Len(Tail(queue)) PROVE ~heap'[Tail(queue)[i]].deleted
      OBVIOUS
    <3>1. Tail(queue)[i] \in 1..Len(heap) /\ Tail(queue)[i] # first
      BY <1>3, <1>6
    <3>2. ~heap[Tail(queue)[i]].deleted
      BY <1>4 DEF IInv, QueueIsAlive
    <3> QED BY <1>5, <3>1, <3>2
  <2> QED BY <1>1, <2>1, <2>2 DEF QueueIsAlive
<1>9. TempIsOwn'
  <2> SUFFICES ASSUME NEW d \in Clients, coming'[d] # Nothing, coming'[d].index > 0
               PROVE  /\ temp'[d] \in 1..Len(heap')
                      /\ heap'[temp'[d]].client = d /\ ~heap'[temp'[d]].deleted
                      /\ \A i \in 1..Len(queue') : queue'[i] # temp'[d]
                      /\ Len(heap'[temp'[d]].data) = FrameLength(coming'[d])
                      /\ \A i \in 1..coming'[d].index :
                            heap'[temp'[d]].data[i] = Data(coming'[d].msg, coming'[d].frame)[i]
    BY DEF TempIsOwn, FrameLength, Data
  <2>0. coming' = coming /\ temp' = temp
    BY <1>1
  <2>1. /\ temp[d] \in 1..Len(heap)
        /\ heap[temp[d]].client = d /\ ~heap[temp[d]].deleted
        /\ \A i \in 1..Len(queue) : queue[i] # temp[d]
        /\ Len(heap[temp[d]].data) = FrameLength(coming[d])
        /\ \A i \in 1..coming[d].index : heap[temp[d]].data[i] = Data(coming[d].msg, coming[d].frame)[i]
    BY <2>0 DEF IInv, TempIsOwn
  <2>2. heap'[temp[d]] = heap[temp[d]]
    <3>1. 1 \in 1..Len(queue)
      BY <1>3
    <3> QED BY <1>3, <1>5, <2>1, <3>1
  <2>3. \A i \in 1..Len(queue') : queue'[i] # temp[d]
    BY <1>1, <1>4, <2>1
  <2> QED BY <1>5, <2>0, <2>1, <2>2, <2>3
<1>10. Waiting' = Waiting
  <2>1. Left' = Left /\ Left \in Seq(Nat)
    <3>1. Left' = Left
      BY <1>1 DEF Left
    <3>2. Left \in Seq(1..Len(heap)) /\ 1..Len(heap) \subseteq Nat
      BY WaitingIs DEF IInv
    <3> QED BY <3>1, <3>2, SeqMonotonic
  <2>2. Left' = Left \o <<>> /\ <<>> \in Seq(Nat) /\ Len(<<>>) = 0
    BY <2>1, ConcatEmptySeq
  <2>3. \A i \in 1..Len(queue) : /\ heap'[queue[i]].client = heap[queue[i]].client
                                 /\ heap'[queue[i]].data = heap[queue[i]].data
    BY <1>2, <1>5
  <2> QED BY <2>2, <2>3, WaitingGrows DEF IInv
<1>11. OneEachInOrder'
  BY <1>1, <1>10 DEF IInv, OneEachInOrder, Data
<1> QED BY <1>1, <1>7, <1>8, <1>9, <1>10, <1>11 DEF IInv

-------------------------------------------------------------------------------
(* The theorems.                                                             *)

\* Each step keeps the invariant, and is one of a mailbox or changes neither end of it.
LEMMA StepIsMailboxStep ==
    ASSUME InboxAssumption, IInv, [Next]_vars
    PROVE  IInv' /\ [Inbox!Next]_<<Waiting, dispatched>>
<1>1. ASSUME NEW c \in Clients, NEW m \in Messages, ClientSends(c, m)
      PROVE  IInv' /\ [Inbox!Next]_<<Waiting, dispatched>>
  BY <1>1, SendsKeepsInv
<1>2. ASSUME NEW c \in Clients, Disconnect(c)
      PROVE  IInv' /\ [Inbox!Next]_<<Waiting, dispatched>>
  BY <1>2, DisconnectKeepsInv
<1>3. ASSUME NEW c \in Clients, NEW n \in 1..FrameLength(coming[c]),
             SingleFrame(c, n) \/ MultiFrame(c, n)
      PROVE  IInv' /\ [Inbox!Next]_<<Waiting, dispatched>>
  <2>1. n \in Nat /\ \E o : Stores(c, n, o)
    <3>1. n \in Nat
      OBVIOUS
    <3> QED BY <1>3, <3>1, SingleFrameStores, MultiFrameStores
  <2>2. /\ IInv' /\ UNCHANGED dispatched
        /\ UNCHANGED Waiting \/ \E e \in Entries : Waiting' = Append(Waiting, e)
    BY <2>1, StoresKeepsInv
  <2>3. ASSUME NEW e \in Entries, Waiting' = Append(Waiting, e) PROVE Inbox!PutAny
    <3>1. Waiting \in Seq(Entries)
      BY WaitingIs DEF IInv
    <3>2. \A s \in Seq(Entries) : Append(s, e) # <<>> /\ Append(s, e)[Len(Append(s, e))] = e
      OBVIOUS
    <3>3. Waiting' # <<>> /\ Waiting'[Len(Waiting')] = e
      BY <2>3, <3>1, <3>2
    <3> QED BY <2>2, <2>3, <3>3 DEF Inbox!PutAny, Inbox!Put
  <2> QED BY <2>2, <2>3 DEF Inbox!Next
<1>4. ASSUME DispatchMessage PROVE IInv' /\ [Inbox!Next]_<<Waiting, dispatched>>
  BY <1>4, DispatchKeepsInv DEF Inbox!Next, Inbox!Take
<1>5. ASSUME DeleteMessage PROVE IInv' /\ [Inbox!Next]_<<Waiting, dispatched>>
  BY <1>5, DeleteKeepsInv
<1>6. ASSUME UNCHANGED vars PROVE IInv' /\ [Inbox!Next]_<<Waiting, dispatched>>
  <2>1. UNCHANGED <<coming, temp, heap, queue, inDispatch, dispatched, arrived>>
    BY <1>6 DEF vars
  <2>2. Waiting' = Waiting
    BY <2>1 DEF Waiting
  <2>3. Typed' /\ QueueIsAlive'
    BY <2>1, Zenon DEF IInv, Typed, QueueIsAlive
  <2>4. TempIsOwn'
    BY <2>1, TempStaysOwn DEF IInv
  <2>5. OneEachInOrder'
    BY <2>1, <2>2 DEF IInv, OneEachInOrder, Data
  <2> QED BY <2>1, <2>2, <2>3, <2>4, <2>5 DEF IInv
<1> QED BY <1>1, <1>2, <1>3, <1>4, <1>5, <1>6, Zenon DEF Next

LEMMA AlwaysIInv == ASSUME InboxAssumption PROVE Spec => []IInv
<1>1. Init => IInv
  BY InboxInit
<1>2. IInv /\ [Next]_vars => IInv'
  BY StepIsMailboxStep
<1> QED BY <1>1, <1>2, PTL DEF Spec

\* Each message of each client is dispatched once, in the order in which the messages were
\* complete and for the client that sent it; no part is stored in an object of another
\* client, of the queue, or that was deleted: onWebSocketEvent(), dispatchMessageQueue().
THEOREM InboxIsCorrect == ASSUME InboxAssumption PROVE Spec => []InboxInv
<1>1. IInv => InboxInv
  <2> SUFFICES ASSUME IInv PROVE InboxInv
    OBVIOUS
  <2>1. /\ temp \in [Clients -> 0..Len(heap)] /\ queue \in Seq(1..Len(heap))
        /\ DOMAIN queue = 1..Len(queue) /\ coming \in [Clients -> Parts \cup {Nothing}]
    BY DEF IInv, Typed
  <2>2. Range(queue) = {queue[i] : i \in 1..Len(queue)}
    BY <2>1 DEF Range
  <2>3. Range(queue) \subseteq 1..Len(heap)
    BY <2>1, <2>2
  <2>4. IsInjective(queue)
    BY <2>1 DEF IInv, QueueIsAlive, IsInjective
  <2>5. TypeOK
    BY <2>1, <2>3, <2>4 DEF IInv, QueueIsAlive, TypeOK
  <2>6. StoresInOwnObject
    <3> SUFFICES ASSUME NEW c \in Clients, coming[c].index > 0
                 PROVE  /\ temp[c] # NullPtr /\ heap[temp[c]].client = c
                        /\ ~heap[temp[c]].deleted /\ temp[c] \notin Range(queue)
      BY DEF StoresInOwnObject
    <3>1. coming[c] # Nothing
      BY DEF Nothing
    <3>2. /\ temp[c] \in 1..Len(heap) /\ heap[temp[c]].client = c /\ ~heap[temp[c]].deleted
          /\ \A i \in 1..Len(queue) : queue[i] # temp[c]
      BY <3>1 DEF IInv, TempIsOwn
    <3>3. temp[c] # NullPtr
      BY <3>2 DEF NullPtr
    <3> QED BY <2>2, <3>2, <3>3
  <2> QED BY <2>5, <2>6 DEF IInv, InboxInv
<1> QED BY <1>1, AlwaysIInv, PTL

\* To the rest of the program the queue of pointers is a mailbox of messages: no message
\* changes while it waits, whatever the other clients send.
THEOREM InboxIsMailbox == ASSUME InboxAssumption PROVE Spec => Inbox!Spec
<1>1. Init => Inbox!Init
  BY DEF Init, Inbox!Init, Waiting
<1>2. IInv /\ [Next]_vars => [Inbox!Next]_<<Waiting, dispatched>>
  BY StepIsMailboxStep
<1> QED BY <1>1, <1>2, AlwaysIInv, PTL DEF Spec, Inbox!Spec
===============================================================================
