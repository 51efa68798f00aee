------------------------------ MODULE MqttInbox ------------------------------
(***************************************************************************)
(* The inbound messages of CMQTTController (CMQTTControler.cpp): the        *)
(* network task hands over a message in fragments, onMqttMessage() puts     *)
(* them together in m_pszMessageBuffer and queues the complete message, and *)
(* dispatch(), in the loop task, sends it over the event bus and removes it *)
(* afterwards.  Between the two tasks' steps anything may happen, on the    *)
(* side of the loop as soon as a receiver of the event yields.              *)
(*                                                                         *)
(* The broker and the connection are external: they send any message in     *)
(* fragments of any length, and the connection may be lost in between.      *)
(* A text is the sequence of its bytes; byte i of message m is <<m, i>>.    *)
(***************************************************************************)
EXTENDS Integers, Sequences, SequencesExt

CONSTANTS
    Messages,   \* messages, with
    Total,      \* the length of each: a function
    MaxSent,    \* bound: complete messages that arrive
    Nobody      \* no message

ASSUME InboxAssumption ==
    Total \in [Messages -> Nat] /\ MaxSent \in Nat /\ Nobody \notin Messages

VARIABLES
    coming,       \* the message that is arriving: [msg, index], or Nothing
    buffer,       \* m_pszMessageBuffer with m_nMessageBufferSize, or NoBuffer
    queue,        \* m_tMessageQeue: a sequence of texts
    inEvent,      \* is dispatch() in sendEvent() for the front of the queue?
    delivered,    \* the texts that went over the bus
    sent,         \* the messages that arrived completely: [msg, before], where
                  \* before was interrupted first since the message before it
    interrupted   \* the message that is before, for the next one; or Nobody

inboxVars == <<coming, buffer, queue, inEvent, delivered, sent, interrupted>>

Nothing  == [index |-> -1]
NoBuffer == <<>>
ZeroByte == <<>>

Text(m) == [i \in 1..Total[m] |-> <<m, i>>]

\* malloc() and memset(): room for the bytes that are announced.
Allocated(m) == [i \in 1..Total[m] |-> ZeroByte]

\* memcpy(), if the fragment is within the buffer.
Copied(cells, m, index, n) ==
    IF index + n <= Len(cells)
    THEN [i \in 1..Len(cells) |-> IF i \in index + 1 .. index + n THEN <<m, i>> ELSE cells[i]]
    ELSE cells

\* strdup(): the bytes before the first zero.
StringIn(cells) ==
    LET ends == {i \in 1..Len(cells) : cells[i] = ZeroByte}
    IN  SubSeq(cells, 1, (CHOOSE i \in ends \cup {Len(cells) + 1} :
                             \A j \in ends : i <= j) - 1)

-------------------------------------------------------------------------------
InboxStart ==
    /\ coming = Nothing /\ buffer = NoBuffer
    /\ queue = <<>> /\ inEvent = FALSE /\ delivered = <<>>
    /\ sent = <<>> /\ interrupted = Nobody

BrokerSends(m) ==
    /\ coming = Nothing /\ Len(sent) < MaxSent
    /\ coming' = [msg |-> m, index |-> 0]
    /\ UNCHANGED <<buffer, queue, inEvent, delivered, sent, interrupted>>

\* The connection is lost within a message: onMqttDisconnect() leaves the buffer.
ConnectionLost ==
    /\ coming # Nothing
    /\ coming' = Nothing
    /\ interrupted' = IF interrupted = Nobody /\ coming.index > 0 THEN coming.msg ELSE interrupted
    /\ UNCHANGED <<buffer, queue, inEvent, delivered, sent>>

\* A buffer that is there is used again, whatever it was allocated for.
BufferFor(m) == IF buffer = NoBuffer THEN Allocated(m) ELSE buffer

\* onMqttMessage(topic, payload, properties, n, index, total)
OnMqttMessage(n) ==
    /\ coming # Nothing
    /\ coming.index + n <= Total[coming.msg]
    /\ n > 0 \/ Total[coming.msg] = 0
    /\ LET m     == coming.msg
           cells == Copied(BufferFor(m), m, coming.index, n)
       IN  IF coming.index + n = Total[m]
           THEN /\ queue' = Append(queue, StringIn(cells))
                /\ buffer' = NoBuffer
                /\ coming' = Nothing
                /\ sent' = Append(sent, [msg |-> m, before |-> interrupted])
                /\ interrupted' = Nobody
           ELSE /\ buffer' = cells
                /\ coming' = [coming EXCEPT !.index = @ + n]
                /\ UNCHANGED <<queue, sent, interrupted>>
    /\ UNCHANGED <<inEvent, delivered>>

\* dispatch(): m_tMessageQeue.front(), sendEvent(MSG_MQTT_MSG_RECEIVED)
DispatchFront ==
    /\ ~inEvent /\ queue # <<>>
    /\ delivered' = Append(delivered, Head(queue))
    /\ inEvent' = TRUE
    /\ UNCHANGED <<coming, buffer, queue, sent, interrupted>>

\* A mutant of DispatchPop: the message that came last is removed.
DispatchPopLast ==
    /\ inEvent
    /\ queue' = Front(queue)
    /\ inEvent' = FALSE
    /\ UNCHANGED <<coming, buffer, delivered, sent, interrupted>>

\* A mutant of DispatchPop: the queue is emptied after the event.
DispatchPopAll ==
    /\ inEvent
    /\ queue' = <<>>
    /\ inEvent' = FALSE
    /\ UNCHANGED <<coming, buffer, delivered, sent, interrupted>>

\* ... m_tMessageQeue.pop(), delete pMessage
DispatchPop ==
    /\ inEvent
    /\ queue' = Tail(queue)
    /\ inEvent' = FALSE
    /\ UNCHANGED <<coming, buffer, delivered, sent, interrupted>>

InboxNext ==
    \/ \E m \in Messages : BrokerSends(m)
    \/ ConnectionLost
    \/ \E m \in Messages : \E n \in 0..Total[m] : OnMqttMessage(n)
    \/ DispatchFront
    \/ DispatchPop

InboxSpec == InboxStart /\ [][InboxNext]_inboxVars

\* The loop runs again and again, and its receivers return.
FairInboxSpec == InboxSpec /\ WF_inboxVars(DispatchFront) /\ WF_inboxVars(DispatchPop)

-------------------------------------------------------------------------------
Waiting == IF inEvent THEN Tail(queue) ELSE queue

\* The queue is a queue of strings that come from messages, and the buffer is never
\* longer than the message it was allocated for.
InboxTypeOK ==
    /\ coming = Nothing \/ coming \in [msg : Messages, index : Nat]
    /\ buffer = NoBuffer \/ \E m \in Messages : Len(buffer) = Total[m]
    /\ inEvent \in BOOLEAN /\ (inEvent => queue # <<>>)
    /\ \A i \in 1..Len(queue) : ZeroByte \notin Range(queue[i])
    /\ coming = Nothing \/ coming.index <= Total[coming.msg]

\* Every message that arrived goes over the bus once, in the order of arrival, and
\* none is lost between the two tasks - and it is the message that was sent, unless
\* a message of another length was interrupted before it.
Intact(text, s) == text = Text(s.msg) \/ (s.before # Nobody /\ Total[s.before] # Total[s.msg])

EachOnceInOrder ==
    LET all == delivered \o Waiting
    IN  /\ Len(all) = Len(sent)
        /\ \A i \in 1..Len(sent) : Intact(all[i], sent[i])

\* Whichever task steps when, and wherever the connection is lost.
InboxInv == InboxTypeOK /\ EachOnceInOrder

\* "The callback assembles fragmented payloads in a temporary buffer and queues a
\* complete MQTTMessage for later dispatch in the main loop." (CMQTTControler.cpp)
DeliveredIsSent ==
    \A i \in 1..Len(delivered) : delivered[i] = Text(sent[i].msg)

\* To the rest of the program the inbox is a mailbox: what was assembled from
\* fragments is taken once, first come first served, whatever the other task does
\* between the event and the pop, and nothing waits for ever.
Inbox == INSTANCE Mailbox WITH waiting <- Waiting, taken <- delivered

ImplementsMailbox == Inbox!FairSpec
===============================================================================
