---------------------------- MODULE WebSocketInbox ----------------------------
(***************************************************************************)
(* The inbound messages of CWebSocket (CWebSocket.cpp): the task of the     *)
(* network calls onWebSocketEvent() with a frame, or a part of a frame, of  *)
(* one of several clients; it puts the parts together in an object that     *)
(* hangs on the client (_tempObject) and queues the object; the loop task   *)
(* dispatches and deletes what is in the queue.                             *)
(*                                                                         *)
(* The server library and the browsers are external: a message is one frame *)
(* or several, a frame arrives in parts of any length, the parts of one     *)
(* client in order, and a client may be gone at any time.                   *)
(* Byte i of frame f of message m is <<m, f, i>>.                           *)
(***************************************************************************)
EXTENDS Integers, Sequences, SequencesExt

CONSTANTS
    Clients,
    Messages,     \* what a client may send, with
    Frames,       \* the lengths of the frames of each: a function
    MaxMessages,  \* bound: messages that arrive completely
    MaxObjects    \* bound: message objects that are allocated

ASSUME InboxAssumption ==
    /\ \A m \in Messages : Frames[m] \in Seq(Nat \ {0}) /\ Frames[m] # <<>>
    /\ MaxMessages \in Nat /\ MaxObjects \in Nat

VARIABLES
    coming,      \* what each client is sending: [msg, frame, index], or Nothing
    temp,        \* _tempObject of each client: an object, or NullPtr
    heap,        \* the CWebSocketMessage objects ever allocated: [client, data, deleted]
    queue,       \* m_tMsgQueue: objects
    inDispatch,  \* is the loop task in dispatchMessage() for the front of the queue?
    dispatched,  \* the messages that were dispatched: [client, data]
    arrived      \* the messages that arrived completely: [client, msg]

vars == <<coming, temp, heap, queue, inDispatch, dispatched, arrived>>

Nothing  == [index |-> -1]
NullPtr  == 0
ZeroByte == <<>>

Data(m, f) == [i \in 1..Frames[m][f] |-> <<m, f, i>>]

Init ==
    /\ coming = [c \in Clients |-> Nothing]
    /\ temp = [c \in Clients |-> NullPtr]
    /\ heap = <<>> /\ queue = <<>> /\ inDispatch = FALSE
    /\ dispatched = <<>> /\ arrived = <<>>

ClientSends(c, m) ==
    /\ coming[c] = Nothing
    /\ Len(arrived) < MaxMessages
    /\ coming' = [coming EXCEPT ![c] = [msg |-> m, frame |-> 1, index |-> 0]]
    /\ UNCHANGED <<temp, heap, queue, inDispatch, dispatched, arrived>>

\* The connection is closed: the client object goes, what hangs on it is not freed.
Disconnect(c) ==
    /\ coming' = [coming EXCEPT ![c] = Nothing]
    /\ temp' = [temp EXCEPT ![c] = NullPtr]
    /\ UNCHANGED <<heap, queue, inDispatch, dispatched, arrived>>

-------------------------------------------------------------------------------
(* WS_EVT_DATA with n bytes of client c.                                     *)

FrameLength(at) == Frames[at.msg][at.frame]
IsFinal(at)     == at.frame = Len(Frames[at.msg])
EndsFrame(at, n) == at.index + n = FrameLength(at)

IsPart(c, n) ==
    /\ coming[c] # Nothing
    /\ n > 0 /\ coming[c].index + n <= FrameLength(coming[c])

\* The next part that will come: of this frame, of the next one, or none.
After(at, n) ==
    IF ~EndsFrame(at, n) THEN [at EXCEPT !.index = @ + n]
    ELSE IF IsFinal(at) THEN Nothing ELSE [at EXCEPT !.frame = @ + 1, !.index = 0]

Arrives(c, n) ==
    /\ coming' = [coming EXCEPT ![c] = After(@, n)]
    /\ arrived' = IF After(coming[c], n) = Nothing
                  THEN Append(arrived, [client |-> c, msg |-> coming[c].msg]) ELSE arrived

NewObject(c) ==
    [client |-> c, data |-> [i \in 1..FrameLength(coming[c]) |-> ZeroByte], deleted |-> FALSE]

\* setMessageData(): nothing, if it would not fit.
WithData(object, at, n) ==
    IF at.index + n > Len(object.data) THEN object
    ELSE [object EXCEPT !.data = [i \in 1..Len(@) |->
            IF i \in at.index + 1 .. at.index + n THEN Data(at.msg, at.frame)[i] ELSE @[i]]]

\* A mutant of Allocates: an object that hangs on the client is used again.
AllocatesOnce(c) == coming[c].index = 0 /\ temp[c] = NullPtr

\* The first part of a frame gets a new object.
Allocates(c) == coming[c].index = 0

\* A message of one frame that comes in one part.
SingleFrame(c, n) ==
    /\ IsPart(c, n)
    /\ IsFinal(coming[c]) /\ coming[c].index = 0 /\ EndsFrame(coming[c], n)
    /\ Len(heap) < MaxObjects
    /\ heap' = Append(heap, WithData(NewObject(c), coming[c], n))
    /\ queue' = Append(queue, Len(heap) + 1)
    /\ Arrives(c, n)
    /\ UNCHANGED <<temp, inDispatch, dispatched>>

\* Everything else.
MultiFrame(c, n) ==
    /\ IsPart(c, n)
    /\ ~(IsFinal(coming[c]) /\ coming[c].index = 0 /\ EndsFrame(coming[c], n))
    /\ Allocates(c) => Len(heap) < MaxObjects
    /\ LET at     == coming[c]
           object == IF Allocates(c) THEN Len(heap) + 1 ELSE temp[c]
           known  == IF Allocates(c) THEN Append(heap, NewObject(c)) ELSE heap
       IN  /\ temp' = [temp EXCEPT ![c] = object]
           /\ heap' = [known EXCEPT ![object] = WithData(@, at, n)]
           /\ queue' = IF IsFinal(at) /\ EndsFrame(at, n) THEN Append(queue, object) ELSE queue
    /\ Arrives(c, n)
    /\ UNCHANGED <<inDispatch, dispatched>>

-------------------------------------------------------------------------------
(* dispatchMessageQueue().                                                   *)

DispatchMessage ==
    /\ ~inDispatch /\ queue # <<>>
    /\ LET object == heap[Head(queue)]
       IN  dispatched' = Append(dispatched, [client |-> object.client, data |-> object.data])
    /\ inDispatch' = TRUE
    /\ UNCHANGED <<coming, temp, heap, queue, arrived>>

\* A mutant of DeleteMessage: the queue is emptied.
DeleteAll ==
    /\ inDispatch
    /\ heap' = [heap EXCEPT ![Head(queue)].deleted = TRUE]
    /\ queue' = <<>>
    /\ inDispatch' = FALSE
    /\ UNCHANGED <<coming, temp, dispatched, arrived>>

\* delete and pop() in one step: nobody looks at the front of the queue between them,
\* and the handlers of the clients only add at its end.
DeleteMessage ==
    /\ inDispatch
    /\ heap' = [heap EXCEPT ![Head(queue)].deleted = TRUE]
    /\ queue' = Tail(queue)
    /\ inDispatch' = FALSE
    /\ UNCHANGED <<coming, temp, dispatched, arrived>>

Next ==
    \/ \E c \in Clients :
          \/ \E m \in Messages : ClientSends(c, m)
          \/ Disconnect(c)
          \/ coming[c] # Nothing /\ \E n \in 1..FrameLength(coming[c]) :
                SingleFrame(c, n) \/ MultiFrame(c, n)
    \/ DispatchMessage
    \/ DeleteMessage

Spec == Init /\ [][Next]_vars

\* The loop runs again and again, and the handlers of the commands return.
FairSpec == Spec /\ WF_vars(DispatchMessage) /\ WF_vars(DeleteMessage)

-------------------------------------------------------------------------------
Waiting ==
    LET left == IF inDispatch THEN Tail(queue) ELSE queue
    IN  [i \in 1..Len(left) |-> [client |-> heap[left[i]].client, data |-> heap[left[i]].data]]

\* Every pointer points to an object that was allocated; the queue holds each
\* object once and none that was deleted.
TypeOK ==
    /\ temp \in [Clients -> 0..Len(heap)]
    /\ Range(queue) \subseteq 1..Len(heap)
    /\ IsInjective(queue)
    /\ \A i \in 1..Len(queue) : ~heap[queue[i]].deleted

\* Data is stored only in an object of the same client that is not yet queued and
\* not deleted: the two tasks and the clients never write what another one reads.
StoresInOwnObject ==
    \A c \in Clients :
        coming[c].index > 0 =>
            /\ temp[c] # NullPtr
            /\ heap[temp[c]].client = c
            /\ ~heap[temp[c]].deleted
            /\ temp[c] \notin Range(queue)

\* Every message of every client is dispatched once, in the order in which the
\* messages were completed, for the client that sent it; a message of one frame
\* is what was sent, in however many parts it came.
OneEachInOrder ==
    LET all == dispatched \o Waiting
    IN  /\ Len(all) = Len(arrived)
        /\ \A i \in 1..Len(all) :
              /\ all[i].client = arrived[i].client
              /\ Len(Frames[arrived[i].msg]) = 1 => all[i].data = Data(arrived[i].msg, 1)

\* Whichever clients send and leave while the loop task dispatches.
InboxInv == TypeOK /\ StoresInOwnObject /\ OneEachInOrder

\* To the rest of the program the queue of pointers is a mailbox of messages: no
\* message changes while it waits, each is taken once, first come first served,
\* and nothing waits for ever.
Inbox == INSTANCE Mailbox WITH waiting <- Waiting, taken <- dispatched

ImplementsMailbox == Inbox!FairSpec

\* "Owns a complete WebSocket message assembled from one or more frames."
\* (WebSocket.h)
DispatchedIsComplete ==
    \A i \in 1..Len(dispatched) :
        LET m == arrived[i].msg
        IN  dispatched[i].data = FlattenSeq([f \in 1..Len(Frames[m]) |-> Data(m, f)])
===============================================================================
