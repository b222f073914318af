------------------------------ MODULE CommandTask ------------------------------
(***************************************************************************)
(* CommandTask (src/APP/tasks/network/command/command_task.c): one TCP     *)
(* client at a time writes command frames; the task assembles them from    *)
(* the pbufs LwIP holds, puts decoded commands on the command queue and     *)
(* answers each frame. It waits on four thread flags only, so a flag it     *)
(* clears too early or never gets is a client that hangs.                   *)
(*                                                                         *)
(* Two pieces of flow control meet in it.  The ACK of the command that      *)
(* fills the queue is held until MotionTask takes a command out, and        *)
(* reading stops while the response buffer has no room for a held ACK and   *)
(* one more reply.                                                          *)
(*                                                                         *)
(* The network is external: LwIP's mailbox of received pbufs, its send      *)
(* buffer (`room` bytes) and the events it raises.  A frame is a number and *)
(* a kind; a pbuf is a whole frame, its beginning with or without the       *)
(* whole header, its end, or a frame with the next one behind it.  Bytes    *)
(* that are not at a frame's start are "junk".  A client that waits in the  *)
(* backlog only adds spurious wake-ups and is left out.                     *)
(***************************************************************************)
EXTENDS Naturals, Sequences

CONSTANTS
    MaxFrames,      \* bound: frames all clients write in a behaviour
    Kinds,          \* kinds of frames the clients write
    QueueCapacity,  \* COMMAND_QUEUE_CAPACITY
    AckSize,        \* bytes of an ACK or a PONG
    ErrorSize,      \* bytes of an ERROR, the largest response
    TxSize,         \* COMMAND_TASK_TX_BUFFER_SIZE
    SendBuffer,     \* bytes LwIP takes before it blocks
    SendLowAt       \* LwIP announces space above this many bytes

AllKinds == {"command", "stop", "ping", "refused", "badcrc", "badheader"}
Flags == {"RX", "TX", "ERROR", "QUEUE_SPACE"}

ASSUME FramesAssumption == MaxFrames \in Nat /\ Kinds \subseteq AllKinds
ASSUME SizeAssumption ==
    /\ QueueCapacity \in Nat \ {0}
    /\ AckSize \in Nat \ {0} /\ ErrorSize \in Nat /\ AckSize <= ErrorSize
    /\ TxSize \in Nat /\ 2 * ErrorSize <= TxSize
    /\ SendBuffer \in Nat /\ SendLowAt \in Nat /\ SendLowAt < SendBuffer

Frame == 1 .. MaxFrames
None == 0                   \* no frame, or one whose number is garbage
Pbuf == {pbuf \in [frame : Frame, kind : AllKinds, more : BOOLEAN,
                   part : {"whole", "short", "header", "rest"}] :
           pbuf.more => pbuf.frame + 1 \in Frame}

VARIABLES
    \* the clients and the network
    sent,       \* frames written so far, whole or in part
    tail,       \* the kind of the frame whose rest is still to come, or "none"
    peer,       \* the connection as LwIP sees it
    mailbox,    \* pbufs received and not yet read
    room,       \* bytes LwIP can still take
    watch,      \* LwIP is to announce space in its send buffer
    \* shared with LwIP's thread and MotionTask
    flags,      \* the thread flags of CommandTask
    queue,      \* the command queue
    notifying,  \* MotionTask took a command and has not called the listener yet
    \* CommandTask
    pc,
    current,    \* the command being handled
    asm,        \* what the frame assembler holds, of which frame
    held,       \* the command whose ACK is held back
    pending,    \* tx_length - tx_sent
    paused,     \* rx_paused
    \* observations
    answer,     \* the response given to each frame
    accepted,   \* commands that were put on the queue
    lost,       \* frames whose bytes were dropped or read as junk
    overrun     \* a response found no room and its client was closed

netVars == <<sent, tail, mailbox>>
taskVars == <<current, asm, held, paused>>
observed == <<answer, accepted, lost, overrun>>
vars == <<sent, tail, peer, mailbox, room, watch, flags, queue, notifying,
          pc, current, asm, held, pending, paused, answer, accepted, lost, overrun>>

Empty == [holds |-> "nothing", frame |-> None]

\* The type invariant: neither the queue nor the response buffer holds more than fits.
TypeOK ==
    /\ sent \in 0 .. MaxFrames
    /\ tail \in AllKinds \union {"none"}
    /\ peer \in {"away", "open", "finished", "reset"}
    /\ mailbox \in Seq(Pbuf)
    /\ room \in 0 .. SendBuffer /\ watch \in BOOLEAN
    /\ flags \subseteq Flags
    /\ queue \in Seq(Frame) /\ Len(queue) <= QueueCapacity
    /\ notifying \in BOOLEAN
    /\ pc \in {"accept", "wait", "read", "stop", "put", "slots"}
    /\ current \in Frame \union {None}
    /\ asm \in [holds : {"nothing", "short", "header", "junk"}, frame : Frame \union {None}]
    /\ held \in Frame \union {None}
    /\ pending \in 0 .. TxSize /\ paused \in BOOLEAN
    /\ answer \in [Frame -> {"none", "ack", "pong", "error"}]
    /\ accepted \subseteq Frame /\ lost \subseteq Frame
    /\ overrun \in BOOLEAN

Init ==
    /\ sent = 0 /\ tail = "none"
    /\ peer = "away" /\ mailbox = <<>> /\ room = SendBuffer /\ watch = FALSE
    /\ flags = {} /\ queue = <<>> /\ notifying = FALSE
    /\ pc = "accept" /\ current = None /\ asm = Empty /\ held = None
    /\ pending = 0 /\ paused = FALSE
    /\ answer = [i \in Frame |-> "none"] /\ accepted = {} /\ lost = {} /\ overrun = FALSE

-----------------------------------------------------------------------------
(* The response buffer *)

Free == TxSize - pending

\* What must be free before a pbuf is read: a held ACK and one reply (command_task.c:31).
ReserveOfOne == ErrorSize   \* as if no ACK could be held meanwhile
Reserve == 2 * ErrorSize

Size(type) == IF type = "error" THEN ErrorSize ELSE AckSize

AtMost(a, b) == IF a < b THEN a ELSE b

\* Hands n buffered bytes to LwIP; what it does not take waits for the TX flag.
Flushed(n) ==
    LET written == AtMost(n, room)
    IN  /\ pending' = n - written
        /\ room' = room - written
        /\ watch' = (watch \/ written < n)

\* Nothing is written while nothing is buffered; a broken connection fails the write.
WriteFails(n) == peer = "reset" /\ n > 0

\* serve_client returns and the connection is deleted; its context goes with it.
Close(full) ==
    /\ pc' = "accept" /\ peer' = "away" /\ overrun' = (overrun \/ full)
    /\ UNCHANGED <<room, watch, pending>>

\* Answers frame i.  A response with no room in the buffer, or written to a broken
\* connection, closes the client.
Respond(i, type, next) ==
    IF Free < Size(type) THEN Close(TRUE) /\ UNCHANGED answer
    ELSE IF WriteFails(pending + Size(type)) THEN Close(FALSE) /\ UNCHANGED answer
    ELSE /\ Flushed(pending + Size(type))
         /\ answer' = IF i = None THEN answer ELSE [answer EXCEPT ![i] = type]
         /\ pc' = next /\ UNCHANGED <<peer, overrun>>

-----------------------------------------------------------------------------
(* The client and LwIP *)

Connect ==
    /\ peer = "away" /\ pc = "accept" /\ sent < MaxFrames
    /\ peer' = "open" /\ mailbox' = <<>> /\ tail' = "none"
    /\ room' = SendBuffer /\ watch' = FALSE
    /\ lost' = lost \union {i \in 1 .. sent : answer[i] = "none"}
    /\ UNCHANGED <<sent, flags, queue, notifying, pc, taskVars, pending, answer, accepted, overrun>>

Deliver(pbuf) == mailbox' = Append(mailbox, pbuf) /\ flags' = flags \union {"RX"}

\* A new frame, whole or its beginning; `more` puts the next frame into the same pbuf.
WriteFrame ==
    /\ peer = "open" /\ tail = "none"
    /\ \E k \in Kinds, part \in {"whole", "short", "header"}, more \in BOOLEAN :
         /\ more => part = "whole"
         /\ sent + (IF more THEN 2 ELSE 1) <= MaxFrames
         /\ sent' = sent + (IF more THEN 2 ELSE 1)
         /\ tail' = IF part = "whole" THEN "none" ELSE k
         /\ Deliver([frame |-> sent + 1, kind |-> k, part |-> part, more |-> more])
    /\ UNCHANGED <<peer, room, watch, queue, notifying, pc, taskVars, pending, observed>>

WriteRest ==
    /\ peer = "open" /\ tail # "none"
    /\ tail' = "none"
    /\ Deliver([frame |-> sent, kind |-> tail, part |-> "rest", more |-> FALSE])
    /\ UNCHANGED <<sent, peer, room, watch, queue, notifying, pc, taskVars, pending,
                   observed>>

\* The client finishes its side, or the connection breaks: LwIP raises every event.
Hangup ==
    /\ peer = "open"
    /\ \/ peer' = "finished" /\ flags' = flags \union {"RX"}
       \/ peer' = "reset" /\ flags' = flags \union {"RX", "TX", "ERROR"}
    /\ UNCHANGED <<netVars, room, watch, queue, notifying, pc, taskVars, pending, observed>>

\* The client acknowledges responses; the event follows once there is room enough.
Drain ==
    /\ peer \in {"open", "finished"} /\ room < SendBuffer
    /\ room' \in room + 1 .. SendBuffer
    /\ IF watch /\ room' > SendLowAt
       THEN watch' = FALSE /\ flags' = flags \union {"TX"}
       ELSE UNCHANGED <<watch, flags>>
    /\ UNCHANGED <<netVars, peer, queue, notifying, pc, taskVars, pending, observed>>

-----------------------------------------------------------------------------
(* MotionTask's end of the queue *)

\* command_queue_receive takes a command, then calls the space listener.
Take ==
    /\ queue # <<>> /\ ~notifying
    /\ queue' = Tail(queue) /\ notifying' = TRUE
    /\ UNCHANGED <<netVars, peer, room, watch, flags, pc, taskVars, pending, observed>>

Notify ==
    /\ notifying
    /\ notifying' = FALSE /\ flags' = flags \union {"QUEUE_SPACE"}
    /\ UNCHANGED <<netVars, peer, room, watch, queue, pc, taskVars, pending, observed>>

-----------------------------------------------------------------------------
(* Reading *)

\* One client is accepted: the flags are cleared, the context is new, and the first
\* read does not wait for a flag.
AcceptWaits == "wait"       \* as if every byte raised a flag after the accept
AfterAccept == "read"

Accept ==
    /\ pc = "accept" /\ peer # "away"
    /\ flags' = {} /\ pc' = AfterAccept
    /\ current' = None /\ asm' = Empty /\ held' = None /\ paused' = FALSE
    /\ pending' = 0
    /\ UNCHANGED <<netVars, peer, room, watch, queue, notifying, observed>>

\* No room for a held ACK and one more reply: what arrived stays in LwIP.
ReadingPauses ==
    /\ pc = "read" /\ Free < Reserve
    /\ paused' = TRUE /\ pc' = "wait"
    /\ UNCHANGED <<netVars, peer, room, watch, flags, queue, notifying, current, asm, held,
                   pending, observed>>

NothingToRead ==
    /\ pc = "read" /\ Free >= Reserve /\ mailbox = <<>>
    /\ IF peer = "open"
       THEN pc' = "wait" /\ UNCHANGED <<peer, room, watch, pending, overrun>>
       ELSE Close(FALSE)
    /\ UNCHANGED <<netVars, flags, queue, notifying, taskVars, answer, accepted, lost>>

First == Head(mailbox)

Reads ==
    /\ pc = "read" /\ Free >= Reserve /\ mailbox # <<>>
    /\ mailbox' = Tail(mailbox)
    /\ UNCHANGED <<sent, tail, flags, queue, notifying, held, paused>>

\* The bytes are not where a frame starts: the assembler held junk already, or was
\* initialised while the rest of a frame was on its way.
IsJunk == asm.holds = "junk" \/ (asm.holds = "nothing" /\ First.part = "rest")

IsComplete == ~IsJunk /\ First.part \in {"whole", "rest"}

\* A bad length shows as soon as the header is there, a bad CRC with the last byte.
IsBroken ==
    /\ ~IsJunk
    /\ \/ First.kind = "badheader" /\ First.part # "short"
       \/ First.kind = "badcrc" /\ IsComplete

Behind == IF First.more THEN {First.frame + 1} ELSE {}

\* A beginning of a frame, or junk still shorter than a header.
NeedMore ==
    /\ Reads
    /\ \/ /\ ~IsJunk /\ ~IsBroken /\ ~IsComplete
          /\ asm' = [holds |-> First.part, frame |-> First.frame]
          /\ UNCHANGED lost
       \/ /\ IsJunk /\ First.part \in {"short", "rest"}
          /\ asm' = [holds |-> "junk", frame |-> None]
          /\ lost' = lost \union {First.frame}
    /\ UNCHANGED <<peer, room, watch, pc, current, pending, answer, accepted, overrun>>

\* The assembler starts anew and the rest of the pbuf is dropped.
FrameError ==
    /\ Reads
    /\ \/ /\ IsBroken /\ Respond(First.frame, "error", "read")
          /\ lost' = lost \union Behind
       \/ /\ IsJunk /\ Respond(None, "error", "read")
          /\ lost' = lost \union {First.frame} \union Behind
    /\ asm' = Empty
    /\ UNCHANGED <<current, accepted>>

\* A frame with bytes behind it is not executed: the client is disconnected.
TrailingBytes ==
    /\ Reads
    /\ IsComplete /\ ~IsBroken /\ First.more
    /\ asm' = Empty /\ Close(FALSE)
    /\ UNCHANGED <<current, answer, accepted, lost>>

\* What the decoder answers without a command.
AtOnce == [ping |-> "pong", refused |-> "error"]

CommandReady ==
    /\ Reads
    /\ IsComplete /\ ~IsBroken /\ ~First.more
    /\ asm' = Empty
    /\ \/ /\ First.kind \in DOMAIN AtOnce
          /\ Respond(First.frame, AtOnce[First.kind], "read") /\ UNCHANGED current
       \/ /\ First.kind \in {"command", "stop"} /\ current' = First.frame
          /\ pc' = IF First.kind = "stop" THEN "stop" ELSE "put"
          /\ UNCHANGED <<peer, room, watch, pending, answer, overrun>>
    /\ UNCHANGED <<accepted, lost>>

-----------------------------------------------------------------------------
(* Handling a command *)

\* motion_task_request_stop discards what is queued before STOP itself is put; the
\* space listener is not called.
RequestStop ==
    /\ pc = "stop"
    /\ queue' = <<>> /\ pc' = "put"
    /\ UNCHANGED <<netVars, peer, room, watch, flags, notifying, taskVars, pending, observed>>

IsFullLate == Len(queue) > QueueCapacity
IsFull == Len(queue) >= QueueCapacity

QueueFull ==
    /\ pc = "put" /\ IsFull
    /\ Respond(current, "error", "read") /\ current' = None
    /\ UNCHANGED <<netVars, flags, queue, notifying, asm, held, paused, accepted, lost>>

\* Which held ACK goes before the command that was just put.
NoOlderAck == None          \* as if the newer command were answered first
OlderAck == held

PutCommand ==
    /\ pc = "put" /\ ~IsFull
    /\ queue' = Append(queue, current) /\ accepted' = accepted \union {current}
    /\ IF OlderAck = None
       THEN pc' = "slots" /\ UNCHANGED <<held, peer, room, watch, pending, answer, overrun>>
       ELSE Respond(OlderAck, "ack", "slots") /\ held' = None
    /\ UNCHANGED <<netVars, flags, notifying, current, asm, paused, lost>>

\* command_queue_free_slots is read after the put: MotionTask may have been quicker.
HoldsAck == Len(queue) = QueueCapacity

AnswerCommand ==
    /\ pc = "slots"
    /\ IF HoldsAck
       THEN /\ held' = current /\ pc' = "read"
            /\ UNCHANGED <<peer, room, watch, pending, answer, overrun>>
       ELSE Respond(current, "ack", "read") /\ UNCHANGED held
    /\ current' = None
    /\ UNCHANGED <<netVars, flags, queue, notifying, asm, paused, accepted, lost>>

-----------------------------------------------------------------------------
(* Waiting *)

Partial == asm.holds \in {"short", "header"}

Resumes(free) == paused /\ free >= Reserve

\* After the responses went out as far as they would, reads or waits on.
ReadOrWait(set, free) ==
    LET reads == set \intersect {"RX", "ERROR"} # {} \/ Resumes(free)
    IN  /\ pc' = IF reads THEN "read" ELSE "wait"
        /\ paused' = (paused /\ ~reads)

\* The flags are taken at once; the held ACK, the flush and the read follow from them.
WakeWithAck ==
    /\ pc = "wait" /\ "QUEUE_SPACE" \in flags /\ held # None
    /\ held' = None /\ flags' = {}
    /\ IF Free < AckSize THEN Close(TRUE) /\ UNCHANGED <<paused, answer>>
       ELSE IF WriteFails(pending + AckSize) THEN Close(FALSE) /\ UNCHANGED <<paused, answer>>
       ELSE /\ Flushed(pending + AckSize) /\ ReadOrWait(flags, TxSize - pending')
            /\ answer' = [answer EXCEPT ![held] = "ack"]
            /\ UNCHANGED <<peer, overrun>>
    /\ UNCHANGED <<netVars, queue, notifying, current, asm, accepted, lost>>

Wake ==
    /\ pc = "wait" /\ flags # {} /\ ("QUEUE_SPACE" \in flags => held = None)
    /\ IF flags \intersect {"TX", "ERROR"} = {}
       THEN ReadOrWait(flags, Free) /\ UNCHANGED <<peer, room, watch, pending, overrun>>
       ELSE IF WriteFails(pending) THEN Close(FALSE) /\ UNCHANGED paused
       ELSE /\ Flushed(pending) /\ ReadOrWait(flags, TxSize - pending')
            /\ UNCHANGED <<peer, overrun>>
    /\ flags' = {}
    /\ UNCHANGED <<netVars, queue, notifying, current, asm, held, answer, accepted, lost>>

\* The rest of a frame did not come in time: an error if its header tells which.
FrameTimesOut ==
    /\ pc = "wait" /\ Partial
    /\ IF asm.holds = "header"
       THEN Respond(asm.frame, "error", "wait") /\ UNCHANGED lost
       ELSE /\ lost' = lost \union {asm.frame}
            /\ UNCHANGED <<pc, peer, room, watch, pending, answer, overrun>>
    /\ asm' = Empty
    /\ UNCHANGED <<netVars, flags, queue, notifying, current, held, paused, accepted>>

Client == Connect \/ WriteFrame \/ WriteRest \/ Hangup
Motion == Take \/ Notify
Reading == ReadingPauses \/ NothingToRead \/ NeedMore \/ FrameError \/ TrailingBytes \/ CommandReady
Handling == RequestStop \/ QueueFull \/ PutCommand \/ AnswerCommand
Task == Accept \/ Reading \/ Handling \/ WakeWithAck \/ Wake

Next == Client \/ Drain \/ Motion \/ Task \/ FrameTimesOut

Spec == Init /\ [][Next]_vars

\* The task runs, MotionTask empties its queue and calls the listener, and the client
\* takes the responses off the connection.  Nobody has to write anything.
Fairness ==
    /\ WF_vars(Task) /\ WF_vars(Take) /\ WF_vars(Notify) /\ WF_vars(Drain)

FairSpec == Spec /\ Fairness

-----------------------------------------------------------------------------
(* Properties *)

\* Reading stops early enough: whatever is held back, timed out or answered meanwhile, the
\* server never drops a client because a response has no room (command_task.c:302-306).
NeverOutOfRoom == ~overrun

\* A command is on the queue exactly when its client was or will be told so: an ERROR was
\* never queued, and a queued command has its ACK, unless the ACK is held, about to be
\* decided, or its connection ended first.
AnswerTellsFate ==
    \A i \in Frame :
        /\ answer[i] = "ack" => i \in accepted
        /\ answer[i] \in {"error", "pong"} => i \notin accepted
        /\ i \in accepted /\ answer[i] = "none" =>
             \/ i = held \/ (i = current /\ pc = "slots")
             \/ i \in lost \/ (peer = "away" /\ pc = "accept")

\* ACKs leave in the order of their commands, held ones included (the comments at
\* command_task.c:524 and :627).
AcksInOrder ==
    [][\A i, j \in Frame :
         answer[i] = "none" /\ answer'[i] = "ack" /\ i < j => answer[j] # "ack"]_vars

\* Every byte of frame i is in LwIP's hands.
Delivered(i) == i < sent \/ (i = sent /\ tail = "none")

\* A frame that arrived is answered, or the connection ends, or its bytes were no frame:
\* no flag is lost between a read and the wait, a paused reader resumes, a held ACK goes.
EveryFrameAnswered ==
    \A i \in Frame :
        Delivered(i) ~> \/ answer[i] # "none"
                        \/ i \in lost
                        \/ (peer = "away" /\ pc = "accept")
=============================================================================
