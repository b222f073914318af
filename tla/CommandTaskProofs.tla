--------------------------- MODULE CommandTaskProofs ---------------------------
(***************************************************************************)
(* What holds of CommandTask for every queue capacity, every frame size and *)
(* every buffer size: the state is well typed, no client is ever dropped    *)
(* because a response has no room, ACKs leave in the order of their         *)
(* commands, and an answer tells whether its command was queued.            *)
(***************************************************************************)
EXTENDS CommandTask, SequenceTheorems, TLAPS

USE FramesAssumption, SizeAssumption DEF FramesAssumption, SizeAssumption

-----------------------------------------------------------------------------
(* Types *)

\* What Flushed and Respond do to the numbers, apart from the actions that use them.
LEMMA FlushedTypes ==
    ASSUME TypeOK, NEW n \in 0 .. TxSize, Flushed(n)
    PROVE  pending' \in 0 .. n /\ pending' \in 0 .. TxSize /\ room' \in 0 .. SendBuffer /\ watch' \in BOOLEAN
<1>1. room \in 0 .. SendBuffer /\ watch \in BOOLEAN /\ TxSize \in Nat /\ SendBuffer \in Nat
    BY DEF TypeOK
<1>2. CASE n < room
    BY <1>1, <1>2 DEF Flushed, AtMost
<1>3. CASE ~(n < room)
    BY <1>1, <1>3 DEF Flushed, AtMost
<1> QED
    BY <1>2, <1>3

ResponseTypes ==
    /\ pending' \in 0 .. TxSize /\ room' \in 0 .. SendBuffer /\ watch' \in BOOLEAN
    /\ peer' \in {"away", "open", "finished", "reset"} /\ overrun' \in BOOLEAN
    /\ answer' \in [Frame -> {"none", "ack", "pong", "error"}]

\* A response leaves the connection, the buffers and the answers well typed.
LEMMA RespondTypes ==
    ASSUME TypeOK, NEW i \in Frame \union {None}, NEW type \in {"ack", "pong", "error"},
           NEW next, Respond(i, type, next)
    PROVE  ResponseTypes /\ pc' \in {"accept", next}
<1>1. pending \in 0 .. TxSize /\ Size(type) \in Nat /\ TxSize \in Nat
    BY DEF TypeOK, Size
<1>2. CASE Free < Size(type)
    BY <1>2 DEF Respond, Close, ResponseTypes, TypeOK
<1>3. CASE ~(Free < Size(type)) /\ WriteFails(pending + Size(type))
    BY <1>3 DEF Respond, Close, ResponseTypes, TypeOK
<1>4. CASE ~(Free < Size(type)) /\ ~WriteFails(pending + Size(type))
    <2>1. pending + Size(type) \in 0 .. TxSize
        BY <1>1, <1>4 DEF Free
    <2>2. Flushed(pending + Size(type)) /\ pc' = next /\ UNCHANGED <<peer, overrun>>
          /\ answer' = IF i = None THEN answer ELSE [answer EXCEPT ![i] = type]
        BY <1>4 DEF Respond
    <2> QED
        BY <2>1, <2>2, FlushedTypes DEF ResponseTypes, TypeOK
<1> QED
    BY <1>2, <1>3, <1>4

\* Pbufs come off the front of the mailbox.
LEMMA FirstTypes ==
    ASSUME TypeOK, Reads
    PROVE  First \in Pbuf /\ mailbox' \in Seq(Pbuf)
BY DEF TypeOK, Reads, First

\* A command is being handled, or a frame assembled, only if there is one.
StageOK ==
    /\ pc \in {"stop", "put", "slots"} => current # None
    /\ asm.holds \in {"short", "header"} => asm.frame # None
    /\ tail # "none" => sent # 0

LEMMA TypeOKInit == Init => TypeOK /\ StageOK
<1> SUFFICES ASSUME Init PROVE TypeOK /\ StageOK
    OBVIOUS
<1>1. StageOK
    BY DEF Init, StageOK, Empty
<1>2. mailbox \in Seq(Pbuf) /\ queue \in Seq(Frame) /\ Len(queue) <= QueueCapacity
    BY DEF Init
<1>3. flags \subseteq Flags /\ accepted \subseteq Frame /\ lost \subseteq Frame
    BY DEF Init
<1>4. sent \in 0 .. MaxFrames /\ room \in 0 .. SendBuffer /\ pending \in 0 .. TxSize
    BY DEF Init
<1>5. asm \in [holds : {"nothing", "short", "header", "junk"}, frame : Frame \union {None}]
    BY DEF Init, Empty
<1> QED
    BY <1>1, <1>2, <1>3, <1>4, <1>5 DEF Init, TypeOK

\* The actions that do not answer: no arithmetic but `sent` and the lengths.
LEMMA ClientTypes == TypeOK /\ StageOK /\ (Client \/ Drain \/ Motion) => TypeOK'
<1> SUFFICES ASSUME TypeOK, StageOK, Client \/ Drain \/ Motion PROVE TypeOK'
    OBVIOUS
<1>1. CASE Connect
    <2>1. lost' \subseteq Frame
        <3>1. 1 .. sent \subseteq Frame
            BY DEF TypeOK, Frame
        <3>2. lost' = lost \union {i \in 1 .. sent : answer[i] = "none"} /\ lost \subseteq Frame
            BY <1>1 DEF Connect, TypeOK
        <3> QED
            BY <3>1, <3>2
    <2>2. mailbox' \in Seq(Pbuf) /\ room' \in 0 .. SendBuffer
        BY <1>1 DEF Connect
    <2> QED
        BY <1>1, <2>1, <2>2 DEF Connect, TypeOK, taskVars
<1>2. CASE WriteFrame
    <2>1. PICK k \in Kinds, part \in {"whole", "short", "header"}, more \in BOOLEAN :
            /\ sent + (IF more THEN 2 ELSE 1) <= MaxFrames
            /\ sent' = sent + (IF more THEN 2 ELSE 1)
            /\ tail' = IF part = "whole" THEN "none" ELSE k
            /\ Deliver([frame |-> sent + 1, kind |-> k, part |-> part, more |-> more])
        BY <1>2 DEF WriteFrame
    <2>2. sent' \in 0 .. MaxFrames /\ sent + 1 \in Frame
        BY <2>1 DEF TypeOK, Frame
    <2>3. [frame |-> sent + 1, kind |-> k, part |-> part, more |-> more] \in Pbuf
        BY <2>1, <2>2 DEF Pbuf, TypeOK, Frame, AllKinds
    <2>4. mailbox' \in Seq(Pbuf) /\ flags' \subseteq Flags
        BY <2>1, <2>3 DEF Deliver, TypeOK, Flags
    <2> QED
        BY <1>2, <2>1, <2>2, <2>4 DEF WriteFrame, TypeOK, taskVars, observed
<1>3. CASE WriteRest
    <2>1. sent \in Frame
        BY <1>3 DEF WriteRest, TypeOK, StageOK, Frame
    <2> QED
        BY <1>3, <2>1 DEF WriteRest, Deliver, TypeOK, taskVars, observed, Pbuf, Flags
<1>4. CASE Hangup
    <2>1. flags' \subseteq Flags
        BY <1>4 DEF Hangup, TypeOK, Flags
    <2>2. peer' \in {"away", "open", "finished", "reset"}
        BY <1>4 DEF Hangup
    <2> QED
        BY <1>4, <2>1, <2>2 DEF Hangup, TypeOK, taskVars, observed, netVars
<1>5. CASE Drain
    <2>1. flags' \subseteq Flags /\ watch' \in BOOLEAN
        BY <1>5 DEF Drain, TypeOK, Flags
    <2>2. room' \in 0 .. SendBuffer
        BY <1>5 DEF Drain, TypeOK
    <2> QED
        BY <1>5, <2>1, <2>2 DEF Drain, TypeOK, taskVars, observed, netVars
<1>6. CASE Take
    BY <1>6 DEF Take, TypeOK, taskVars, observed, netVars
<1>7. CASE Notify
    <2>1. flags' \subseteq Flags /\ notifying' \in BOOLEAN
        BY <1>7 DEF Notify, TypeOK, Flags
    <2>2. UNCHANGED <<sent, tail, peer, mailbox, room, watch, queue, pc, current, asm, held,
                      pending, paused, answer, accepted, lost, overrun>>
        BY <1>7 DEF Notify, netVars, taskVars, observed
    <2> QED
        BY <2>1, <2>2 DEF TypeOK
<1> QED
    BY <1>1, <1>2, <1>3, <1>4, <1>5, <1>6, <1>7 DEF Client, Motion

LEMMA ReadingTypes == TypeOK /\ (Accept \/ Reading) => TypeOK'
<1> SUFFICES ASSUME TypeOK, Accept \/ Reading PROVE TypeOK'
    OBVIOUS
<1>1. CASE Accept
    <2>1. asm' \in [holds : {"nothing", "short", "header", "junk"}, frame : Frame \union {None}]
        BY <1>1 DEF Accept, Empty
    <2>2. pending' \in 0 .. TxSize /\ flags' \subseteq Flags
        BY <1>1 DEF Accept
    <2> QED
        BY <1>1, <2>1, <2>2 DEF Accept, TypeOK, netVars, observed, AfterAccept
<1>2. CASE ReadingPauses
    BY <1>2 DEF ReadingPauses, TypeOK, netVars, observed
<1>3. CASE NothingToRead
    BY <1>3 DEF NothingToRead, Close, TypeOK, netVars, taskVars
<1>4. CASE NeedMore
    <2>1. First \in Pbuf /\ mailbox' \in Seq(Pbuf)
        BY <1>4, FirstTypes DEF NeedMore
    <2>2. asm' \in [holds : {"nothing", "short", "header", "junk"}, frame : Frame \union {None}]
          /\ lost' \subseteq Frame
        BY <1>4, <2>1 DEF NeedMore, IsComplete, Pbuf, TypeOK
    <2> QED
        BY <1>4, <2>1, <2>2 DEF NeedMore, Reads, TypeOK
<1>5. CASE FrameError
    <2>1. First \in Pbuf /\ mailbox' \in Seq(Pbuf) /\ Reads
        BY <1>5, FirstTypes DEF FrameError
    <2>2. ResponseTypes /\ pc' \in {"accept", "read"}
        BY <1>5, <2>1, RespondTypes DEF FrameError, Pbuf
    <2>3. lost' \subseteq Frame
        BY <1>5, <2>1 DEF FrameError, Behind, Pbuf, TypeOK
    <2> QED
        BY <1>5, <2>1, <2>2, <2>3 DEF FrameError, Reads, ResponseTypes, TypeOK, Empty
<1>6. CASE TrailingBytes
    <2>1. First \in Pbuf /\ mailbox' \in Seq(Pbuf) /\ Reads
        BY <1>6, FirstTypes DEF TrailingBytes
    <2> QED
        BY <1>6, <2>1 DEF TrailingBytes, Reads, Close, TypeOK, Empty
<1>7. CASE CommandReady
    <2>1. First \in Pbuf /\ mailbox' \in Seq(Pbuf) /\ Reads
        BY <1>7, FirstTypes DEF CommandReady
    <2>2. First.frame \in Frame /\ First.frame # None
        BY <2>1 DEF Pbuf, Frame, None
    <2>3. CASE First.kind \in DOMAIN AtOnce /\ Respond(First.frame, AtOnce[First.kind], "read")
        <3>1. AtOnce[First.kind] \in {"ack", "pong", "error"}
            BY <2>3 DEF AtOnce
        <3>2. ResponseTypes /\ pc' \in {"accept", "read"}
            BY <2>2, <2>3, <3>1, RespondTypes
        <3> QED
            BY <1>7, <2>1, <2>2, <3>2 DEF CommandReady, Reads, ResponseTypes, TypeOK, Empty
    <2>4. CASE First.kind \in {"command", "stop"} /\ current' = First.frame
               /\ pc' = (IF First.kind = "stop" THEN "stop" ELSE "put")
               /\ UNCHANGED <<peer, room, watch, pending, answer, overrun>>
        BY <1>7, <2>1, <2>2, <2>4 DEF CommandReady, Reads, TypeOK, Empty
    <2> QED
        BY <1>7, <2>3, <2>4 DEF CommandReady
<1> QED
    BY <1>1, <1>2, <1>3, <1>4, <1>5, <1>6, <1>7 DEF Reading

LEMMA HandlingTypes == TypeOK /\ StageOK /\ (Handling \/ FrameTimesOut) => TypeOK'
<1> SUFFICES ASSUME TypeOK, StageOK, Handling \/ FrameTimesOut PROVE TypeOK'
    OBVIOUS
<1>1. CASE RequestStop
    BY <1>1 DEF RequestStop, TypeOK, netVars, taskVars, observed
<1>2. CASE QueueFull
    <2>1. ResponseTypes /\ pc' \in {"accept", "read"}
        BY <1>2, RespondTypes DEF QueueFull, TypeOK
    <2> QED
        BY <1>2, <2>1 DEF QueueFull, ResponseTypes, TypeOK, netVars, None
<1>3. CASE PutCommand
    <2>1. current \in Frame /\ Len(queue) < QueueCapacity
        BY <1>3 DEF PutCommand, IsFull, TypeOK, StageOK
    <2>2. queue' \in Seq(Frame) /\ Len(queue') <= QueueCapacity /\ accepted' \subseteq Frame
        BY <1>3, <2>1 DEF PutCommand, TypeOK
    <2>3. CASE OlderAck = None
        BY <1>3, <2>2, <2>3 DEF PutCommand, TypeOK, netVars
    <2>4. CASE OlderAck # None
        <3>1. ResponseTypes /\ pc' \in {"accept", "slots"}
            BY <1>3, <2>4, RespondTypes DEF PutCommand, OlderAck, TypeOK
        <3> QED
            BY <1>3, <2>2, <2>4, <3>1 DEF PutCommand, ResponseTypes, TypeOK, netVars, None
    <2> QED
        BY <2>3, <2>4
<1>4. CASE AnswerCommand
    <2>1. CASE HoldsAck
        BY <1>4, <2>1 DEF AnswerCommand, TypeOK, netVars, None
    <2>2. CASE ~HoldsAck
        <3>1. ResponseTypes /\ pc' \in {"accept", "read"}
            BY <1>4, <2>2, RespondTypes DEF AnswerCommand, TypeOK
        <3> QED
            BY <1>4, <2>2, <3>1 DEF AnswerCommand, ResponseTypes, TypeOK, netVars, None
    <2> QED
        BY <2>1, <2>2
<1>5. CASE FrameTimesOut
    <2>1. asm.frame \in Frame \union {None}
        BY DEF TypeOK
    <2>2. CASE asm.holds = "header"
        <3>1. ResponseTypes /\ pc' \in {"accept", "wait"}
            BY <1>5, <2>1, <2>2, RespondTypes DEF FrameTimesOut
        <3> QED
            BY <1>5, <2>2, <3>1 DEF FrameTimesOut, ResponseTypes, TypeOK, netVars, Empty
    <2>3. CASE asm.holds # "header"
        <3>1. asm.frame \in Frame
            BY <1>5, <2>1, <2>3 DEF FrameTimesOut, Partial, StageOK
        <3> QED
            BY <1>5, <2>3, <3>1 DEF FrameTimesOut, TypeOK, netVars, Empty
    <2> QED
        BY <2>2, <2>3
<1> QED
    BY <1>1, <1>2, <1>3, <1>4, <1>5 DEF Handling

\* The waiting task: the flush and the decision to read touch only numbers and the stage.
LEMMA WaitingTypes == TypeOK /\ (WakeWithAck \/ Wake) => TypeOK'
<1> SUFFICES ASSUME TypeOK, WakeWithAck \/ Wake PROVE TypeOK'
    OBVIOUS
<1>1. pending \in 0 .. TxSize /\ AckSize \in Nat /\ TxSize \in Nat
    BY DEF TypeOK
<1>2. ASSUME NEW n \in 0 .. TxSize, Flushed(n), ReadOrWait(flags, TxSize - pending')
      PROVE  /\ pending' \in 0 .. TxSize /\ room' \in 0 .. SendBuffer /\ watch' \in BOOLEAN
             /\ pc' \in {"read", "wait"} /\ paused' \in BOOLEAN
    <2>1. pc' \in {"read", "wait"} /\ paused' \in BOOLEAN
        BY <1>2 DEF ReadOrWait, TypeOK
    <2> QED
        BY <1>2, <2>1, FlushedTypes
<1>3. CASE WakeWithAck
    <2>1. held \in Frame
        BY <1>3 DEF WakeWithAck, TypeOK
    <2>2. CASE Free < AckSize \/ WriteFails(pending + AckSize)
        BY <1>3, <2>2 DEF WakeWithAck, Close, TypeOK, netVars, None
    <2>3. CASE ~(Free < AckSize \/ WriteFails(pending + AckSize))
        <3>1. pending + AckSize \in 0 .. TxSize
            BY <1>1, <2>3 DEF Free
        <3> QED
            BY <1>2, <1>3, <2>1, <2>3, <3>1 DEF WakeWithAck, TypeOK, netVars, None
    <2> QED
        BY <2>2, <2>3
<1>4. CASE Wake
    <2>1. CASE flags \intersect {"TX", "ERROR"} = {}
        BY <1>4, <2>1 DEF Wake, ReadOrWait, TypeOK, netVars
    <2>2. CASE flags \intersect {"TX", "ERROR"} # {} /\ WriteFails(pending)
        BY <1>4, <2>2 DEF Wake, Close, TypeOK, netVars
    <2>3. CASE flags \intersect {"TX", "ERROR"} # {} /\ ~WriteFails(pending)
        BY <1>1, <1>2, <1>4, <2>3 DEF Wake, TypeOK, netVars
    <2> QED
        BY <2>1, <2>2, <2>3
<1> QED
    BY <1>3, <1>4

LEMMA StagePreserved == TypeOK /\ StageOK /\ [Next]_vars => StageOK'
<1> SUFFICES ASSUME TypeOK, StageOK, [Next]_vars PROVE StageOK'
    OBVIOUS
<1>1. CASE UNCHANGED vars \/ Client \/ Drain \/ Motion
    <2>1. UNCHANGED <<pc, current, asm>>
        BY <1>1 DEF vars, Client, Motion, Connect, WriteFrame, WriteRest, Hangup, Drain, Take,
                    Notify, taskVars
    <2>2. (tail' = tail /\ sent' = sent) \/ tail' = "none" \/ sent' # 0
        <3>1. CASE WriteFrame
            BY <3>1 DEF WriteFrame, TypeOK
        <3> QED
            BY <1>1, <3>1 DEF vars, Client, Motion, Connect, WriteRest, Hangup, Drain, Take,
                              Notify, netVars
    <2> QED
        BY <2>1, <2>2 DEF StageOK
<1>2. CASE Accept \/ ReadingPauses \/ NothingToRead \/ TrailingBytes
    BY <1>2 DEF Accept, AfterAccept, ReadingPauses, NothingToRead, TrailingBytes, Reads, Close, Empty,
                taskVars, netVars, StageOK
<1>3. CASE NeedMore
    <2>1. First.frame # None
        BY <1>3, FirstTypes DEF NeedMore, Pbuf, Frame, None
    <2> QED
        BY <1>3, <2>1 DEF NeedMore, Reads, StageOK
<1>4. CASE FrameError
    BY <1>4 DEF FrameError, Reads, Respond, Close, Empty, StageOK
<1>5. CASE CommandReady
    <2>1. First.frame # None
        BY <1>5, FirstTypes DEF CommandReady, Pbuf, Frame, None
    <2> QED
        BY <1>5, <2>1 DEF CommandReady, Reads, Respond, Close, Empty, StageOK
<1>6. CASE Handling
    BY <1>6 DEF Handling, RequestStop, QueueFull, PutCommand, AnswerCommand, Respond, Close,
                taskVars, netVars, StageOK
<1>7. CASE WakeWithAck \/ Wake
    BY <1>7 DEF WakeWithAck, Wake, ReadOrWait, Close, netVars, StageOK
<1>8. CASE FrameTimesOut
    BY <1>8 DEF FrameTimesOut, Respond, Close, Empty, netVars, StageOK
<1> QED
    BY <1>1, <1>2, <1>3, <1>4, <1>5, <1>6, <1>7, <1>8 DEF Next, Task, Reading

\* Every variable keeps its type, for every number of frames and every size.
THEOREM TypeInvariant == Spec => [](TypeOK /\ StageOK)
<1>1. TypeOK /\ StageOK /\ [Next]_vars => TypeOK'
    <2>1. TypeOK /\ UNCHANGED vars => TypeOK'
        BY DEF TypeOK, vars
    <2> QED
        BY <2>1, ClientTypes, ReadingTypes, HandlingTypes, WaitingTypes DEF Next, Task
<1> QED
    BY <1>1, TypeOKInit, StagePreserved, PTL DEF Spec


-----------------------------------------------------------------------------
(* Room for every response *)

\* What stays free for the responses that may still come: a held ACK, the timeout of a
\* frame whose header is known, and the answers of the command being handled.
Fits(n) == pending + n <= TxSize

RoomOK ==
    /\ held # None => Fits(AckSize)
    /\ asm.holds = "header" => Fits(ErrorSize)
    /\ asm.holds = "header" /\ held # None => Fits(ErrorSize + AckSize)
    /\ pc \in {"stop", "put"} => Fits(ErrorSize + ErrorSize)
    /\ pc = "slots" => held = None /\ pending + ErrorSize + ErrorSize <= TxSize + AckSize
    /\ pc \in {"stop", "put", "slots"} => asm.holds = "nothing"
    /\ ~overrun

\* Sizes: what fits besides two errors also fits besides less.
LEMMA FitsMore ==
    ASSUME NEW p \in Nat, NEW q \in Nat, NEW n \in Nat, NEW k \in Nat, NEW t \in Nat,
           q <= p + n, p + (n + k) <= t
    PROVE  q + k <= t
OBVIOUS

LEMMA SmallerFits ==
    ASSUME NEW q \in Nat, NEW a \in Nat, NEW e \in Nat, NEW t \in Nat, a <= e, q + e <= t
    PROVE  q + a <= t
OBVIOUS

LEMMA AckFits ==
    ASSUME NEW q \in Nat, NEW a \in Nat, NEW e \in Nat, NEW k \in Nat, NEW t \in Nat,
           k + a = e + e, q + k <= t
    PROVE  q + e + e <= t + a
OBVIOUS

LEMMA Difference ==
    ASSUME NEW a \in Nat, NEW e \in Nat, a <= e
    PROVE  \E k \in Nat : k + a = e + e
<1>1. e + e - a \in Nat /\ (e + e - a) + a = e + e
    OBVIOUS
<1> QED
    BY <1>1

LEMMA FitsLess ==
    ASSUME TypeOK, Fits(ErrorSize + ErrorSize)
    PROVE  Fits(AckSize) /\ Fits(ErrorSize) /\ Fits(ErrorSize + AckSize)
BY DEF TypeOK, Fits

LEMMA ReserveFits ==
    ASSUME TypeOK, Free >= Reserve
    PROVE  Fits(ErrorSize + ErrorSize)
BY DEF TypeOK, Free, Reserve, Fits

LEMMA CloseKeeps ==
    ASSUME TypeOK, Close(FALSE)
    PROVE  pending' = pending /\ overrun' = overrun /\ pc' = "accept"
BY Zenon DEF TypeOK, Close

\* A response that fits takes no more than its size, and its client stays.
LEMMA RespondRoom ==
    ASSUME TypeOK, ~overrun, NEW i \in Frame \union {None}, NEW type \in {"ack", "pong", "error"},
           NEW next, Respond(i, type, next), NEW n \in Nat, Size(type) <= n, NEW k \in Nat, Fits(n + k)
    PROVE  ~overrun' /\ Fits(k)' /\ pc' \in {"accept", next}
<1>1. /\ pending \in 0 .. TxSize /\ pending \in Nat /\ Size(type) \in Nat /\ TxSize \in Nat
      /\ pending + (n + k) <= TxSize
    BY DEF TypeOK, Size, Fits
<1>2. ~(Free < Size(type))
    BY <1>1 DEF Free
<1>3. CASE WriteFails(pending + Size(type))
    <2>1. Close(FALSE)
        BY <1>2, <1>3 DEF Respond
    <2>2. pending + k <= TxSize
        BY <1>1
    <2> QED
        BY <2>1, <2>2, CloseKeeps DEF Fits
<1>4. CASE ~WriteFails(pending + Size(type))
    <2>1. pending + Size(type) \in 0 .. TxSize
        BY <1>1, <1>2 DEF Free
    <2>2. Flushed(pending + Size(type)) /\ pc' = next /\ UNCHANGED overrun
        BY <1>2, <1>4 DEF Respond
    <2>3. pending' \in 0 .. pending + Size(type) /\ pending' \in 0 .. TxSize
        BY <2>1, <2>2, FlushedTypes
    <2>4. pending' \in Nat /\ pending' <= pending + n
        BY <1>1, <2>3
    <2>5. pending' + k <= TxSize
        BY <1>1, <2>4, FitsMore
    <2> QED
        BY <2>2, <2>5 DEF Fits
<1> QED
    BY <1>3, <1>4

LEMMA RoomPreserved == TypeOK /\ StageOK /\ RoomOK /\ [Next]_vars => RoomOK'
<1> SUFFICES ASSUME TypeOK, StageOK, RoomOK, [Next]_vars PROVE RoomOK'
    OBVIOUS
<1>1. /\ pending \in Nat /\ AckSize \in Nat /\ ErrorSize \in Nat /\ AckSize <= ErrorSize
      /\ TxSize \in Nat /\ ~overrun
    BY DEF TypeOK, RoomOK
<1>2. Size("error") <= ErrorSize /\ Size("pong") <= ErrorSize /\ Size("ack") <= AckSize
    BY <1>1 DEF Size
\* After a response to what was just read, a held ACK still fits.
<1>3. ASSUME Fits(ErrorSize)', held' = held, asm' = Empty \/ asm'.holds = "nothing", ~overrun',
             pc' \in {"accept", "read", "wait"}
      PROVE  RoomOK'
    <2>1. pending' \in Nat
        BY ClientTypes, ReadingTypes, HandlingTypes, WaitingTypes DEF Next, Task, TypeOK, vars
    <2>2. Fits(AckSize)'
        BY <1>1, <1>3, <2>1, SmallerFits DEF Fits
    <2> QED
        BY <1>3, <2>2 DEF RoomOK, Empty
<1>4. CASE UNCHANGED vars \/ Client \/ Drain \/ Motion
    <2>1. UNCHANGED <<pc, asm, held, pending, overrun>>
        BY <1>4 DEF vars, Client, Motion, Connect, WriteFrame, WriteRest, Hangup, Drain, Take,
                    Notify, taskVars, observed
    <2> QED
        BY <2>1 DEF RoomOK, Fits
<1>5. CASE Accept
    <2>1. held' = None /\ asm'.holds = "nothing" /\ overrun' = overrun /\ pc' = "read"
        BY <1>5 DEF Accept, AfterAccept, Empty, observed
    <2> QED
        BY <1>1, <2>1 DEF RoomOK
<1>6. CASE ReadingPauses \/ NothingToRead \/ TrailingBytes
    <2>1. UNCHANGED <<held, pending>> /\ overrun' = overrun /\ (UNCHANGED asm \/ asm' = Empty)
          /\ pc' \in {"wait", "accept"}
        BY <1>6, CloseKeeps DEF ReadingPauses, NothingToRead, TrailingBytes, Reads, taskVars, observed
    <2> QED
        BY <2>1 DEF RoomOK, Fits, Empty
<1>7. CASE NeedMore
    <2>1. Fits(ErrorSize + ErrorSize) /\ pc = "read"
        BY <1>7, ReserveFits DEF NeedMore, Reads
    <2>2. UNCHANGED <<held, pending, pc, overrun>>
        BY <1>7 DEF NeedMore, Reads
    <2> QED
        BY <2>1, <2>2, FitsLess DEF RoomOK, Fits
<1>8. CASE FrameError
    <2>1. Fits(ErrorSize + ErrorSize) /\ UNCHANGED held /\ asm' = Empty
        BY <1>8, ReserveFits DEF FrameError, Reads
    <2>2. First.frame \in Frame
        BY <1>8, FirstTypes DEF FrameError, Pbuf
    <2>3. \E i \in Frame \union {None} : Respond(i, "error", "read")
        BY <1>8, <2>2 DEF FrameError
    <2>4. ~overrun' /\ Fits(ErrorSize)' /\ pc' \in {"accept", "read"}
        BY <1>1, <1>2, <2>1, <2>3, RespondRoom
    <2> QED
        BY <1>3, <2>1, <2>4
<1>9. CASE CommandReady
    <2>1. Fits(ErrorSize + ErrorSize) /\ UNCHANGED held /\ asm' = Empty
        BY <1>9, ReserveFits DEF CommandReady, Reads
    <2>2. First.frame \in Frame
        BY <1>9, FirstTypes DEF CommandReady, Pbuf
    <2>3. CASE First.kind \in DOMAIN AtOnce /\ Respond(First.frame, AtOnce[First.kind], "read")
        <3>1. AtOnce[First.kind] \in {"ack", "pong", "error"} /\ Size(AtOnce[First.kind]) <= ErrorSize
            BY <1>1, <1>2, <2>3 DEF AtOnce
        <3>2. ~overrun' /\ Fits(ErrorSize)' /\ pc' \in {"accept", "read"}
            BY <1>1, <2>1, <2>2, <2>3, <3>1, RespondRoom
        <3> QED
            BY <1>3, <2>1, <3>2
    <2>4. CASE UNCHANGED <<pending, overrun>> /\ pc' \in {"stop", "put"}
        BY <1>1, <2>1, <2>4, FitsLess DEF RoomOK, Fits, Empty
    <2> QED
        BY <1>9, <2>3, <2>4 DEF CommandReady
<1>10. CASE RequestStop
    BY <1>10 DEF RequestStop, taskVars, observed, RoomOK, Fits
<1>11. CASE QueueFull
    <2>1. Fits(ErrorSize + ErrorSize) /\ UNCHANGED <<held, asm>> /\ asm.holds = "nothing"
        BY <1>11 DEF QueueFull, RoomOK
    <2>2. current \in Frame \union {None} /\ Respond(current, "error", "read")
        BY <1>11 DEF TypeOK, QueueFull
    <2>3. ~overrun' /\ Fits(ErrorSize)' /\ pc' \in {"accept", "read"}
        BY <1>1, <1>2, <2>1, <2>2, RespondRoom
    <2> QED
        BY <1>3, <2>1, <2>3
<1>12. CASE PutCommand
    <2>1. Fits(ErrorSize + ErrorSize) /\ UNCHANGED asm /\ asm.holds = "nothing"
        BY <1>12 DEF PutCommand, RoomOK
    <2>2. CASE held = None
        <3>1. UNCHANGED <<held, pending, overrun>> /\ pc' = "slots"
            BY <1>12, <2>2 DEF PutCommand, OlderAck
        <3>2. pending + ErrorSize + ErrorSize <= TxSize + AckSize
            BY <1>1, <2>1 DEF Fits
        <3> QED
            BY <1>1, <2>1, <2>2, <3>1, <3>2 DEF RoomOK
    <2>3. CASE held # None
        <3>1. held \in Frame \union {None}
            BY DEF TypeOK
        <3>2. Respond(held, "ack", "slots") /\ held' = None
            BY <1>12, <2>3 DEF PutCommand, OlderAck
        <3>3. PICK k \in Nat : k + AckSize = ErrorSize + ErrorSize
            BY <1>1, Difference
        <3>4. Fits(AckSize + k)
            BY <1>1, <2>1, <3>3 DEF Fits
        <3>5. ~overrun' /\ Fits(k)' /\ pc' \in {"accept", "slots"}
            BY <1>1, <1>2, <3>1, <3>2, <3>4, RespondRoom
        <3>6. pending' \in Nat
            BY <1>12, HandlingTypes DEF Handling, TypeOK
        <3>7. pending' + ErrorSize + ErrorSize <= TxSize + AckSize
            BY <1>1, <3>3, <3>5, <3>6, AckFits DEF Fits
        <3> QED
            BY <2>1, <3>2, <3>5, <3>7 DEF RoomOK
    <2> QED
        BY <2>2, <2>3
<1>13. CASE AnswerCommand
    <2>1. pending + ErrorSize + ErrorSize <= TxSize + AckSize /\ UNCHANGED asm /\ held = None
          /\ asm.holds = "nothing"
        BY <1>13 DEF AnswerCommand, RoomOK
    <2>2. Fits(AckSize)
        BY <1>1, <2>1 DEF Fits
    <2>3. CASE HoldsAck
        BY <1>13, <2>1, <2>2, <2>3 DEF AnswerCommand, RoomOK, Fits
    <2>4. CASE ~HoldsAck
        <3>1. current \in Frame \union {None} /\ Fits(AckSize + 0) /\ 0 \in Nat
            BY <1>1, <2>2 DEF TypeOK, Fits
        <3>2. Respond(current, "ack", "read") /\ UNCHANGED held
            BY <1>13, <2>4 DEF AnswerCommand
        <3>3. ~overrun' /\ pc' \in {"accept", "read"}
            BY <1>1, <1>2, <3>1, <3>2, RespondRoom
        <3> QED
            BY <2>1, <3>2, <3>3 DEF RoomOK
    <2> QED
        BY <2>3, <2>4
<1>14. CASE WakeWithAck
    <2>1. held' = None /\ UNCHANGED asm /\ ~(Free < AckSize) /\ held # None
        BY <1>1, <1>14 DEF WakeWithAck, RoomOK, Fits, Free
    <2>2. CASE WriteFails(pending + AckSize)
        <3>1. pending' = pending /\ overrun' = overrun /\ pc' = "accept"
            BY <1>14, <2>1, <2>2, CloseKeeps DEF WakeWithAck
        <3> QED
            BY <2>1, <3>1 DEF RoomOK, Fits
    <2>3. CASE ~WriteFails(pending + AckSize)
        <3>1. Flushed(pending + AckSize) /\ ReadOrWait(flags, TxSize - pending') /\ UNCHANGED overrun
            BY <1>14, <2>1, <2>3 DEF WakeWithAck
        <3>2. pending + AckSize \in 0 .. TxSize
            BY <1>1, <2>1 DEF Free
        <3>3. pending' \in 0 .. pending + AckSize /\ pc' \in {"read", "wait"}
            BY <3>1, <3>2, FlushedTypes DEF ReadOrWait
        <3>4. pending' \in Nat /\ pending' <= pending + AckSize
            BY <1>1, <3>3
        <3>5. asm.holds = "header" => pending' + ErrorSize <= TxSize
            <4>1. asm.holds = "header" => pending + (AckSize + ErrorSize) <= TxSize
                BY <1>1, <2>1 DEF RoomOK, Fits
            <4> QED
                BY <1>1, <3>4, <4>1, FitsMore
        <3> QED
            BY <2>1, <3>1, <3>3, <3>5 DEF RoomOK, Fits
    <2> QED
        BY <2>2, <2>3
<1>15. CASE Wake
    <2>1. UNCHANGED <<asm, held>> /\ overrun' = overrun /\ pc' \in {"read", "wait", "accept"}
        BY <1>15, CloseKeeps DEF Wake, ReadOrWait
    <2>2. pending' \in Nat /\ pending' <= pending + 0
        <3>1. pending \in 0 .. TxSize
            BY DEF TypeOK
        <3>2. CASE Flushed(pending)
            <4>1. pending' \in 0 .. pending
                BY <3>1, <3>2, FlushedTypes
            <4> QED
                BY <1>1, <4>1
        <3>3. CASE pending' = pending
            BY <1>1, <3>3
        <3> QED
            BY <1>15, <3>2, <3>3, CloseKeeps DEF Wake
    <2>3. ASSUME NEW n \in Nat, Fits(n) PROVE Fits(n)'
        <3>1. pending + (0 + n) <= TxSize
            BY <1>1, <2>3 DEF Fits
        <3> QED
            BY <1>1, <2>2, <3>1, FitsMore DEF Fits
    <2> QED
        BY <1>1, <2>1, <2>3 DEF RoomOK
<1>16. CASE FrameTimesOut
    <2>1. UNCHANGED held /\ asm' = Empty
        BY <1>16 DEF FrameTimesOut
    <2>2. CASE asm.holds = "header"
        <3>1. asm.frame \in Frame \union {None} /\ Respond(asm.frame, "error", "wait")
            BY <1>16, <2>2 DEF TypeOK, FrameTimesOut
        <3>2. CASE held = None
            <4>1. Fits(ErrorSize + 0) /\ 0 \in Nat
                BY <1>1, <2>2 DEF RoomOK, Fits
            <4>2. ~overrun' /\ pc' \in {"accept", "wait"}
                BY <1>1, <1>2, <3>1, <4>1, RespondRoom
            <4> QED
                BY <2>1, <3>2, <4>2 DEF RoomOK, Empty
        <3>3. CASE held # None
            <4>1. Fits(ErrorSize + AckSize)
                BY <2>2, <3>3 DEF RoomOK
            <4>2. ~overrun' /\ Fits(AckSize)' /\ pc' \in {"accept", "wait"}
                BY <1>1, <1>2, <3>1, <4>1, RespondRoom
            <4> QED
                BY <2>1, <4>2 DEF RoomOK, Empty
        <3> QED
            BY <3>2, <3>3
    <2>3. CASE asm.holds # "header"
        <3>1. UNCHANGED <<pc, pending, overrun>> /\ pc = "wait"
            BY <1>16, <2>3 DEF FrameTimesOut
        <3> QED
            BY <2>1, <3>1 DEF RoomOK, Fits, Empty
    <2> QED
        BY <2>2, <2>3
<1> QED
    BY <1>4, <1>5, <1>6, <1>7, <1>8, <1>9, <1>10, <1>11, <1>12, <1>13, <1>14, <1>15, <1>16
       DEF Next, Task, Reading, Handling

\* Whatever is held back, times out or is answered, no client is dropped because a response
\* has no room, whatever the sizes: the reserve of two errors is enough.
THEOREM ResponsesHaveRoom == Spec => []NeverOutOfRoom
<1>1. Init => RoomOK
    BY DEF Init, RoomOK, Empty, None
<1>2. RoomOK => NeverOutOfRoom
    BY DEF RoomOK, NeverOutOfRoom
<1> QED
    BY <1>1, <1>2, TypeInvariant, RoomPreserved, PTL DEF Spec

-----------------------------------------------------------------------------
(* The order of ACKs *)

Acked == {j \in Frame : answer[j] = "ack"}
Last(pbuf) == pbuf.part \in {"whole", "rest"}

\* Pbufs keep the order of their frames; the end of a frame is the last of it.
MailOK ==
    /\ \A k \in 1 .. Len(mailbox) :
         /\ mailbox[k].frame <= sent
         /\ Last(mailbox[k]) /\ tail # "none" => mailbox[k].frame < sent
    /\ \A k, l \in 1 .. Len(mailbox) :
         k < l => /\ mailbox[k].frame <= mailbox[l].frame
                  /\ Last(mailbox[k]) => mailbox[k].frame < mailbox[l].frame

\* What was acknowledged comes before what is held, that before what is handled, and that
\* before what is still to be read or written.
HandledOrder ==
    /\ held # None => \A j \in Acked : j < held
    /\ current # None => \A j \in Acked \union {held} : j < current
WrittenOrder ==
    \A j \in Acked \union {held, current} : j <= sent /\ (tail # "none" => j < sent)
ReadOrder ==
    \A j \in Acked \union {held, current}, k \in 1 .. Len(mailbox) : j < mailbox[k].frame
OrderOK == HandledOrder /\ WrittenOrder /\ ReadOrder

\* Taking the first pbuf shifts the others; a new one goes behind them.
LEMMA TailShifts ==
    ASSUME TypeOK, Reads
    PROVE  /\ Len(mailbox') = Len(mailbox) - 1 /\ Len(mailbox) \in Nat /\ Len(mailbox) # 0
           /\ \A k \in 1 .. Len(mailbox') : k + 1 \in 1 .. Len(mailbox) /\ mailbox'[k] = mailbox[k + 1]
           /\ First = mailbox[1] /\ sent' = sent /\ tail' = tail
BY DEF TypeOK, Reads, First

LEMMA AppendGoesBehind ==
    ASSUME TypeOK, NEW pbuf \in Pbuf, Deliver(pbuf)
    PROVE  /\ Len(mailbox') = Len(mailbox) + 1 /\ Len(mailbox) \in Nat
           /\ \A k \in 1 .. Len(mailbox') :
                mailbox'[k] = IF k = Len(mailbox) + 1 THEN pbuf ELSE mailbox[k]
BY DEF TypeOK, Deliver

\* Pbufs of one frame or of two, as they are written.
LEMMA Written ==
    ASSUME TypeOK, StageOK, WriteFrame
    PROVE  \E pbuf \in Pbuf :
             /\ Deliver(pbuf) /\ pbuf.frame = sent + 1 /\ sent' \in {sent + 1, sent + 2}
             /\ Last(pbuf) => tail' = "none"
             /\ UNCHANGED <<answer, held, current>> /\ sent \in Nat
<1>1. PICK k \in Kinds, part \in {"whole", "short", "header"}, more \in BOOLEAN :
        /\ sent + (IF more THEN 2 ELSE 1) <= MaxFrames
        /\ sent' = sent + (IF more THEN 2 ELSE 1)
        /\ tail' = IF part = "whole" THEN "none" ELSE k
        /\ Deliver([frame |-> sent + 1, kind |-> k, part |-> part, more |-> more])
    BY DEF WriteFrame
<1>2. sent \in Nat /\ sent + 1 \in Frame
    BY <1>1 DEF TypeOK, Frame
<1>3. [frame |-> sent + 1, kind |-> k, part |-> part, more |-> more] \in Pbuf
    BY <1>1, <1>2 DEF Pbuf, TypeOK, Frame, AllKinds
<1>4. UNCHANGED <<answer, held, current>>
    BY DEF WriteFrame, taskVars, observed
<1> QED
    BY <1>1, <1>2, <1>3, <1>4 DEF Last

LEMMA RestWritten ==
    ASSUME TypeOK, StageOK, WriteRest
    PROVE  \E pbuf \in Pbuf :
             /\ Deliver(pbuf) /\ pbuf.frame = sent /\ sent' = sent /\ tail # "none" /\ tail' = "none"
             /\ UNCHANGED <<answer, held, current>> /\ sent \in Nat
<1>1. sent \in Frame /\ tail \in AllKinds
    BY DEF WriteRest, TypeOK, StageOK, Frame
<1>2. [frame |-> sent, kind |-> tail, part |-> "rest", more |-> FALSE] \in Pbuf
    BY <1>1 DEF Pbuf
<1> QED
    BY <1>1, <1>2 DEF WriteRest, taskVars, observed, Frame

LEMMA MailPreserved == TypeOK /\ StageOK /\ MailOK /\ [Next]_vars => MailOK'
<1> SUFFICES ASSUME TypeOK, StageOK, MailOK, [Next]_vars PROVE MailOK'
    OBVIOUS
<1>1. sent \in Nat /\ \A k \in 1 .. Len(mailbox) : mailbox[k].frame \in Nat
    BY DEF TypeOK, Pbuf, Frame
<1>2. CASE Reads
    <2>1. \A k \in 1 .. Len(mailbox') : /\ mailbox'[k].frame <= sent'
                                        /\ Last(mailbox'[k]) /\ tail' # "none" => mailbox'[k].frame < sent'
        BY <1>2, TailShifts DEF MailOK
    <2>2. ASSUME NEW k \in 1 .. Len(mailbox'), NEW l \in 1 .. Len(mailbox'), k < l
          PROVE  /\ mailbox'[k].frame <= mailbox'[l].frame
                 /\ Last(mailbox'[k]) => mailbox'[k].frame < mailbox'[l].frame
        <3>1. k + 1 \in 1 .. Len(mailbox) /\ l + 1 \in 1 .. Len(mailbox) /\ k + 1 < l + 1
              /\ mailbox'[k] = mailbox[k + 1] /\ mailbox'[l] = mailbox[l + 1]
            BY <1>2, <2>2, TailShifts
        <3> QED
            BY <3>1 DEF MailOK
    <2> QED
        BY <2>1, <2>2 DEF MailOK
<1>3. CASE WriteFrame
    <2>1. PICK pbuf \in Pbuf :
             /\ Deliver(pbuf) /\ pbuf.frame = sent + 1 /\ sent' \in {sent + 1, sent + 2}
             /\ Last(pbuf) => tail' = "none"
        BY <1>3, Written
    <2>2. \A k \in 1 .. Len(mailbox') :
             /\ mailbox'[k] = IF k = Len(mailbox) + 1 THEN pbuf ELSE mailbox[k]
             /\ k # Len(mailbox) + 1 => k \in 1 .. Len(mailbox)
        BY <2>1, AppendGoesBehind
    <2>3. \A k \in 1 .. Len(mailbox') :
             mailbox'[k].frame <= sent' /\ (Last(mailbox'[k]) /\ tail' # "none" => mailbox'[k].frame < sent')
        BY <1>1, <2>1, <2>2 DEF MailOK
    <2>4. \A k, l \in 1 .. Len(mailbox') : k < l => k # Len(mailbox) + 1
        BY <2>1, AppendGoesBehind
    <2>5. \A k, l \in 1 .. Len(mailbox') : k < l =>
             mailbox'[k].frame <= mailbox'[l].frame /\ (Last(mailbox'[k]) => mailbox'[k].frame < mailbox'[l].frame)
        BY <1>1, <2>1, <2>2, <2>4 DEF MailOK
    <2> QED
        BY <2>3, <2>5 DEF MailOK
<1>4. CASE WriteRest
    <2>1. PICK pbuf \in Pbuf :
             Deliver(pbuf) /\ pbuf.frame = sent /\ sent' = sent /\ tail # "none" /\ tail' = "none"
        BY <1>4, RestWritten
    <2>2. \A k \in 1 .. Len(mailbox') :
             /\ mailbox'[k] = IF k = Len(mailbox) + 1 THEN pbuf ELSE mailbox[k]
             /\ k # Len(mailbox) + 1 => k \in 1 .. Len(mailbox)
        BY <2>1, AppendGoesBehind
    <2>3. \A k \in 1 .. Len(mailbox') :
             mailbox'[k].frame <= sent' /\ (Last(mailbox'[k]) /\ tail' # "none" => mailbox'[k].frame < sent')
        BY <1>1, <2>1, <2>2 DEF MailOK
    <2>4. \A k, l \in 1 .. Len(mailbox') : k < l => k # Len(mailbox) + 1
        BY <2>1, AppendGoesBehind
    <2>5. \A k, l \in 1 .. Len(mailbox') : k < l =>
             mailbox'[k].frame <= mailbox'[l].frame /\ (Last(mailbox'[k]) => mailbox'[k].frame < mailbox'[l].frame)
        BY <1>1, <2>1, <2>2, <2>4 DEF MailOK
    <2> QED
        BY <2>3, <2>5 DEF MailOK
<1>5. CASE Connect
    BY <1>5 DEF Connect, MailOK
<1>6. CASE UNCHANGED <<sent, tail, mailbox>>
    BY <1>6 DEF MailOK
<1> QED
    BY <1>2, <1>3, <1>4, <1>5, <1>6
       DEF Next, Client, Task, Reading, Handling, Motion, Hangup, Drain, Take, Notify, Accept,
           ReadingPauses, NothingToRead, NeedMore, FrameError, TrailingBytes, CommandReady,
           RequestStop, QueueFull, PutCommand, AnswerCommand, WakeWithAck, Wake, FrameTimesOut,
           netVars, vars

\* A response acknowledges at most the frame it answers.
LEMMA RespondAcks ==
    ASSUME TypeOK, NEW i \in Frame \union {None}, NEW type \in {"ack", "pong", "error"},
           NEW next, Respond(i, type, next)
    PROVE  Acked' \subseteq Acked \union (IF type = "ack" THEN {i} ELSE {})
<1>1. answer \in [Frame -> {"none", "ack", "pong", "error"}]
    BY DEF TypeOK
<1>2. answer' = answer \/ (i \in Frame /\ answer' = [answer EXCEPT ![i] = type])
      \/ (i = None /\ answer' = answer)
    BY DEF Respond
<1> QED
    BY <1>1, <1>2 DEF Acked

\* The steps that acknowledge nothing and hold nothing new.
Forgets ==
    /\ Acked' \subseteq Acked /\ held' \in {held, None} /\ current' \in {current, None}
    /\ UNCHANGED <<sent, tail, mailbox>> \/ Reads

LEMMA OrderPreserved == TypeOK /\ TypeOK' /\ StageOK /\ MailOK /\ RoomOK /\ OrderOK /\ [Next]_vars => OrderOK'
<1> SUFFICES ASSUME TypeOK, TypeOK', StageOK, MailOK, RoomOK, OrderOK, [Next]_vars
             PROVE  OrderOK'
    OBVIOUS
<1>1. /\ sent \in Nat /\ held \in Nat /\ current \in Nat /\ Acked \subseteq Nat
      /\ \A k \in 1 .. Len(mailbox) : mailbox[k].frame \in Nat /\ 0 < mailbox[k].frame
    BY DEF TypeOK, Pbuf, Frame, Acked, None
<1>2. ASSUME Forgets PROVE OrderOK'
    <2>1. Acked' \union {held', current'} \subseteq Acked \union {held, current, None}
        BY <1>2 DEF Forgets
    <2>2. HandledOrder'
        BY <1>1, <1>2 DEF Forgets, OrderOK, HandledOrder, None
    <2>3. UNCHANGED <<sent, tail>>
        BY <1>2, TailShifts DEF Forgets
    <2>4. WrittenOrder'
        <3>1. \A j \in Acked \union {held, current, None} : j <= sent /\ (tail # "none" => j < sent)
            <4>1. None <= sent /\ (tail # "none" => None < sent)
                BY <1>1 DEF StageOK, None
            <4> QED
                BY <4>1 DEF OrderOK, WrittenOrder
        <3> QED
            BY <2>1, <2>3, <3>1 DEF WrittenOrder
    <2>5. \A j \in Acked \union {held, current, None}, k \in 1 .. Len(mailbox) : j < mailbox[k].frame
        BY <1>1 DEF OrderOK, ReadOrder, None
    <2>6. CASE UNCHANGED mailbox
        BY <2>1, <2>2, <2>4, <2>5, <2>6 DEF OrderOK, ReadOrder
    <2>7. CASE Reads
        <3>1. ReadOrder'
            BY <2>1, <2>5, <2>7, TailShifts DEF ReadOrder
        <3> QED
            BY <2>2, <2>4, <3>1 DEF OrderOK
    <2> QED
        BY <1>2, <2>6, <2>7 DEF Forgets
<1>3. CASE WriteFrame
    <2>1. PICK pbuf \in Pbuf :
             /\ Deliver(pbuf) /\ pbuf.frame = sent + 1 /\ sent' \in {sent + 1, sent + 2}
             /\ UNCHANGED <<answer, held, current>>
        BY <1>3, Written
    <2>2. Acked' = Acked
        BY <2>1 DEF Acked
    <2> QED
        BY <1>1, <2>1, <2>2, AppendGoesBehind DEF OrderOK, HandledOrder, WrittenOrder, ReadOrder
<1>4. CASE WriteRest
    <2>1. PICK pbuf \in Pbuf :
             /\ Deliver(pbuf) /\ pbuf.frame = sent /\ sent' = sent /\ tail # "none" /\ tail' = "none"
             /\ UNCHANGED <<answer, held, current>>
        BY <1>4, RestWritten
    <2>2. Acked' = Acked
        BY <2>1 DEF Acked
    <2>3. HandledOrder' /\ WrittenOrder'
        BY <1>1, <2>1, <2>2 DEF OrderOK, HandledOrder, WrittenOrder
    <2>4. ReadOrder'
        BY <1>1, <2>1, <2>2, AppendGoesBehind DEF OrderOK, WrittenOrder, ReadOrder
    <2> QED
        BY <2>3, <2>4 DEF OrderOK
<1>5. CASE Connect
    <2>1. Acked' = Acked /\ UNCHANGED <<held, current, sent>> /\ mailbox' = <<>> /\ tail' = "none"
        BY <1>5 DEF Connect, Acked, taskVars
    <2> QED
        BY <2>1 DEF OrderOK, HandledOrder, WrittenOrder, ReadOrder
<1>6. CASE UNCHANGED vars \/ Hangup \/ Drain \/ Motion \/ Accept
    BY <1>2, <1>6 DEF vars, Hangup, Drain, Motion, Take, Notify, Accept, Forgets, Acked, taskVars,
                      netVars, observed
<1>7. CASE ReadingPauses \/ NothingToRead \/ NeedMore \/ TrailingBytes
    BY <1>2, <1>7 DEF ReadingPauses, NothingToRead, NeedMore, TrailingBytes, Reads, Forgets, Acked,
                      taskVars, netVars, observed
<1>8. CASE FrameError
    <2>1. First.frame \in Frame
        BY <1>8, FirstTypes DEF FrameError, Pbuf
    <2>2. Acked' \subseteq Acked
        BY <1>8, <2>1, RespondAcks DEF FrameError
    <2> QED
        BY <1>2, <1>8, <2>2 DEF FrameError, Reads, Forgets
<1>9. CASE CommandReady
    <2>1. First.frame \in Frame /\ Reads /\ held' = held /\ Last(First)
        BY <1>9, FirstTypes DEF CommandReady, Reads, Pbuf, IsComplete, Last
    <2>2. CASE First.kind \in DOMAIN AtOnce /\ Respond(First.frame, AtOnce[First.kind], "read")
                 /\ UNCHANGED current
        <3>1. AtOnce[First.kind] \in {"pong", "error"}
            BY <2>2 DEF AtOnce
        <3>2. Acked' \subseteq Acked
            BY <2>1, <2>2, <3>1, RespondAcks
        <3> QED
            BY <1>2, <2>1, <2>2, <3>2 DEF Forgets
    <2>3. CASE current' = First.frame /\ answer' = answer
        <3>1. Acked' = Acked
            BY <2>3 DEF Acked
        <3>2. \A j \in Acked \union {held, current} : j < First.frame
            <4>1. 1 \in 1 .. Len(mailbox) /\ First = mailbox[1]
                BY <2>1, TailShifts
            <4> QED
                BY <4>1 DEF OrderOK, ReadOrder
        <3>3. /\ First.frame <= sent /\ (tail # "none" => First.frame < sent)
              /\ \A k \in 1 .. Len(mailbox') : First.frame < mailbox'[k].frame
            BY <1>1, <2>1, TailShifts DEF MailOK
        <3>4. \A j \in Acked \union {held}, k \in 1 .. Len(mailbox') : j < mailbox'[k].frame
            BY <2>1, TailShifts DEF OrderOK, ReadOrder
        <3> QED
            BY <1>1, <2>1, <2>3, <3>1, <3>2, <3>3, <3>4, TailShifts DEF OrderOK, HandledOrder, WrittenOrder, ReadOrder
    <2> QED
        BY <1>9, <2>2, <2>3 DEF CommandReady
<1>10. CASE RequestStop \/ Wake
    BY <1>2, <1>10 DEF RequestStop, Wake, Forgets, Acked, taskVars, netVars, observed
<1>11. CASE QueueFull
    <2>1. current \in Frame \union {None}
        BY DEF TypeOK
    <2>2. Acked' \subseteq Acked
        BY <1>11, <2>1, RespondAcks DEF QueueFull
    <2> QED
        BY <1>2, <1>11, <2>2 DEF QueueFull, Forgets, netVars
<1>12. CASE PutCommand
    <2>1. UNCHANGED <<sent, tail, mailbox, current>> /\ held' = None
          /\ Acked' \subseteq Acked \union {held}
        <3>1. CASE OlderAck = None
            BY <1>12, <3>1 DEF PutCommand, OlderAck, Acked, netVars
        <3>2. CASE OlderAck # None
            <4>1. held \in Frame \union {None}
                BY DEF TypeOK
            <4> QED
                BY <1>12, <3>2, <4>1, RespondAcks DEF PutCommand, OlderAck, netVars
        <3> QED
            BY <3>1, <3>2
    <2>2. HandledOrder' /\ WrittenOrder'
        BY <1>1, <2>1 DEF OrderOK, HandledOrder, WrittenOrder, None
    <2>3. Acked' \union {held', current'} \subseteq Acked \union {held, current, None}
        BY <2>1
    <2>4. ReadOrder'
        BY <1>1, <2>1, <2>3 DEF OrderOK, ReadOrder, None
    <2> QED
        BY <2>2, <2>4 DEF OrderOK
<1>13. CASE AnswerCommand
    <2>1. UNCHANGED <<sent, tail, mailbox>> /\ current' = None /\ held = None /\ current # None
        BY <1>13 DEF AnswerCommand, RoomOK, StageOK, netVars
    <2>2. CASE HoldsAck
        <3>1. Acked' = Acked /\ held' = current
            BY <1>13, <2>2 DEF AnswerCommand, Acked
        <3> QED
            BY <1>1, <2>1, <3>1 DEF OrderOK, HandledOrder, WrittenOrder, ReadOrder, None
    <2>3. CASE ~HoldsAck
        <3>1. Acked' \subseteq Acked \union {current} /\ held' = None
            BY <1>13, <2>1, <2>3, RespondAcks DEF AnswerCommand, TypeOK
        <3> QED
            BY <1>1, <2>1, <3>1 DEF OrderOK, HandledOrder, WrittenOrder, ReadOrder, None
    <2> QED
        BY <2>2, <2>3
<1>14. CASE WakeWithAck
    <2>1. UNCHANGED <<sent, tail, mailbox, current>> /\ held' = None
          /\ Acked' \subseteq Acked \union {held}
        BY <1>14 DEF WakeWithAck, TypeOK, netVars, Acked
    <2>2. HandledOrder' /\ WrittenOrder'
        BY <1>1, <2>1 DEF OrderOK, HandledOrder, WrittenOrder, None
    <2>3. Acked' \union {held', current'} \subseteq Acked \union {held, current, None}
        BY <2>1
    <2>4. ReadOrder'
        BY <1>1, <2>1, <2>3 DEF OrderOK, ReadOrder, None
    <2> QED
        BY <2>2, <2>4 DEF OrderOK
<1>15. CASE FrameTimesOut
    <2>1. asm.frame \in Frame \union {None}
        BY DEF TypeOK
    <2>2. Acked' \subseteq Acked
        BY <1>15, <2>1, RespondAcks DEF FrameTimesOut, Acked
    <2> QED
        BY <1>2, <1>15, <2>2 DEF FrameTimesOut, Forgets, netVars
<1> QED
    BY <1>3, <1>4, <1>5, <1>6, <1>7, <1>8, <1>9, <1>10, <1>11, <1>12, <1>13, <1>14, <1>15
       DEF Next, Client, Task, Reading, Handling

LEMMA OrderStep == TypeOK /\ StageOK /\ RoomOK /\ OrderOK /\ [Next]_vars =>
    [\A i, j \in Frame :
       answer[i] = "none" /\ answer'[i] = "ack" /\ i < j => answer[j] # "ack"]_vars
<1> SUFFICES ASSUME TypeOK, StageOK, RoomOK, OrderOK, [Next]_vars,
                    NEW i \in Frame, NEW j \in Frame,
                    answer[i] = "none", answer'[i] = "ack", i < j, answer[j] = "ack"
             PROVE  FALSE
    OBVIOUS
<1>1. Acked' \subseteq Acked \union {held}
      \/ (Acked' \subseteq Acked \union {current} /\ current # None)
    <2>1. CASE answer' = answer
        BY <2>1
    <2>2. CASE FrameError
        BY <2>2, FirstTypes, RespondAcks DEF FrameError, Pbuf
    <2>3. CASE CommandReady
        <3>1. First.kind \in DOMAIN AtOnce => AtOnce[First.kind] \in {"pong", "error"}
            BY DEF AtOnce
        <3> QED
            BY <2>1, <2>3, <3>1, FirstTypes, RespondAcks DEF CommandReady, Pbuf
    <2>4. CASE QueueFull
        BY <2>4, RespondAcks DEF QueueFull, TypeOK
    <2>5. CASE PutCommand
        BY <2>1, <2>5, RespondAcks DEF PutCommand, OlderAck, TypeOK
    <2>6. CASE AnswerCommand
        BY <2>1, <2>6, RespondAcks DEF AnswerCommand, TypeOK, StageOK
    <2>7. CASE WakeWithAck
        BY <2>7 DEF WakeWithAck, TypeOK, Acked
    <2>8. CASE FrameTimesOut
        BY <2>1, <2>8, RespondAcks DEF FrameTimesOut, TypeOK
    <2> QED
        BY <2>1, <2>2, <2>3, <2>4, <2>5, <2>6, <2>7, <2>8
           DEF Next, Client, Task, Reading, Handling, Motion, Connect, WriteFrame, WriteRest, Hangup,
               Drain, Take, Notify, Accept, ReadingPauses, NothingToRead, NeedMore, TrailingBytes,
               RequestStop, Wake, observed, vars
<1>2. i \in Acked' /\ i \notin Acked /\ j \in Acked /\ i \in Nat /\ j \in Nat /\ i # None
    BY DEF Acked, Frame, None
<1> QED
    BY <1>1, <1>2 DEF OrderOK, HandledOrder

\* ACKs leave in the order of their commands, also when one is held while later frames are
\* refused, stopped or answered.
THEOREM AcksLeaveInOrder == Spec => AcksInOrder
<1>1. Init => RoomOK /\ MailOK /\ OrderOK
    <2>1. Init => RoomOK
        BY DEF Init, RoomOK, Empty, None
    <2>2. Init => MailOK /\ OrderOK
        BY DEF Init, MailOK, OrderOK, HandledOrder, WrittenOrder, ReadOrder, Acked, None
    <2> QED
        BY <2>1, <2>2
<1> QED
    BY <1>1, TypeInvariant, RoomPreserved, MailPreserved, OrderPreserved, OrderStep, PTL
       DEF Spec, AcksInOrder

-----------------------------------------------------------------------------
(* Answers and fates *)

Answered == {j \in Frame : answer[j] # "none"}
Begins(pbuf) == pbuf.part # "rest"

\* The beginning of a frame comes behind all of the frames before it.
BeginningsOK ==
    \A k, l \in 1 .. Len(mailbox) :
        k < l /\ Begins(mailbox[l]) => mailbox[k].frame < mailbox[l].frame

\* Of an answered frame only the rest may still come, of an accepted one nothing.
AnsweredOrder ==
    \A j \in Answered :
        /\ j <= sent
        /\ \A k \in 1 .. Len(mailbox) :
             j <= mailbox[k].frame /\ (Begins(mailbox[k]) => j < mailbox[k].frame)
AcceptedOrder ==
    \A j \in accepted :
        /\ j <= sent /\ (tail # "none" => j < sent)
        /\ \A k \in 1 .. Len(mailbox) : j < mailbox[k].frame

\* The frame being assembled is newer than all of those.
PartialOrder ==
    Partial =>
        /\ asm.frame <= sent
        /\ \A j \in Answered \union accepted : j < asm.frame
        /\ \A k \in 1 .. Len(mailbox) :
             asm.frame <= mailbox[k].frame /\ (Begins(mailbox[k]) => asm.frame < mailbox[k].frame)

FramesInOrder == BeginningsOK /\ AnsweredOrder /\ AcceptedOrder /\ PartialOrder

\* A command is answered once, a held one was accepted, and what the last client was
\* not told is lost when the next one is there.
FateOK ==
    /\ pc \in {"stop", "put"} => current \notin Answered \union accepted
    /\ pc = "slots" => current \in accepted \ Answered
    /\ held # None => held \in accepted
    /\ pc = "accept" /\ peer # "away" => \A i \in accepted \ Answered : i \in lost

\* Numbers of frames are numbers.
LEMMA FrameNumbers ==
    ASSUME TypeOK
    PROVE  /\ sent \in Nat /\ Len(mailbox) \in Nat
           /\ \A k \in 1 .. Len(mailbox) : mailbox[k].frame \in Nat /\ mailbox[k].frame \in Frame
           /\ asm.frame \in Nat /\ held \in Nat /\ current \in Nat
           /\ Answered \subseteq Frame /\ accepted \subseteq Frame /\ Frame \subseteq Nat
BY DEF TypeOK, Pbuf, Frame, Answered, None

\* A task step reads the first pbuf or none.
Keeps == UNCHANGED <<sent, tail, mailbox>> \/ Reads

\* What is still to come is behind the frames of S, but for the rest of the last.
LaterPast(S) ==
    \A j \in S :
        /\ j <= sent
        /\ \A k \in 1 .. Len(mailbox') :
             j <= mailbox'[k].frame /\ (Begins(mailbox'[k]) => j < mailbox'[k].frame)
LaterDone(S) ==
    \A j \in S :
        /\ j <= sent /\ (tail # "none" => j < sent)
        /\ \A k \in 1 .. Len(mailbox') : j < mailbox'[k].frame

LEMMA KeptPbufs ==
    ASSUME TypeOK, Keeps
    PROVE  /\ sent' = sent /\ tail' = tail
           /\ \A k \in 1 .. Len(mailbox') : \E l \in 1 .. Len(mailbox) : mailbox'[k] = mailbox[l]
           /\ Reads => /\ 1 \in 1 .. Len(mailbox) /\ First = mailbox[1]
                       /\ \A k \in 1 .. Len(mailbox') : k + 1 \in 1 .. Len(mailbox) /\ 1 < k + 1
                                                        /\ mailbox'[k] = mailbox[k + 1]
<1>1. CASE UNCHANGED <<sent, tail, mailbox>> /\ ~Reads
    BY <1>1
<1>2. CASE Reads
    BY <1>2, TailShifts, FrameNumbers
<1> QED
    BY <1>1, <1>2 DEF Keeps

LEMMA BeginningsKept ==
    ASSUME TypeOK, BeginningsOK, Keeps
    PROVE  BeginningsOK'
<1>1. CASE UNCHANGED mailbox
    BY <1>1 DEF BeginningsOK
<1>2. CASE Reads
    <2> SUFFICES ASSUME NEW k \in 1 .. Len(mailbox'), NEW l \in 1 .. Len(mailbox'), k < l, Begins(mailbox'[l])
                 PROVE  mailbox'[k].frame < mailbox'[l].frame
        BY DEF BeginningsOK
    <2>1. /\ k + 1 \in 1 .. Len(mailbox) /\ mailbox'[k] = mailbox[k + 1]
          /\ l + 1 \in 1 .. Len(mailbox) /\ mailbox'[l] = mailbox[l + 1]
        BY <1>2, KeptPbufs DEF Keeps
    <2>2. k + 1 < l + 1
        OBVIOUS
    <2> QED
        BY <2>1, <2>2 DEF BeginningsOK
<1> QED
    BY <1>1, <1>2 DEF Keeps

\* A step that answers frames of A and accepts those of B.
LEMMA FramesStayInOrder ==
    ASSUME TypeOK, FramesInOrder, Keeps, NEW A, NEW B,
           Answered' \subseteq Answered \union A, accepted' \subseteq accepted \union B,
           LaterPast(A), LaterDone(B),
           ~Partial' \/ (asm' = asm /\ \A j \in A \union B : j < asm.frame)
    PROVE  FramesInOrder'
<1>1. BeginningsOK'
    BY BeginningsKept DEF FramesInOrder
<1>2. AnsweredOrder /\ AcceptedOrder /\ PartialOrder
    BY DEF FramesInOrder
<1>3. /\ sent' = sent /\ tail' = tail
      /\ \A k \in 1 .. Len(mailbox') : \E l \in 1 .. Len(mailbox) : mailbox'[k] = mailbox[l]
    BY KeptPbufs
<1>4. LaterPast(Answered)
    BY <1>2, <1>3 DEF AnsweredOrder, LaterPast
<1>5. LaterDone(accepted)
    BY <1>2, <1>3 DEF AcceptedOrder, LaterDone
<1>6. AnsweredOrder'
    BY <1>3, <1>4 DEF LaterPast, AnsweredOrder
<1>7. AcceptedOrder'
    BY <1>3, <1>5 DEF LaterDone, AcceptedOrder
<1>8. PartialOrder'
    <2>1. CASE ~Partial'
        BY <2>1 DEF PartialOrder
    <2>2. CASE Partial' /\ asm' = asm /\ \A j \in A \union B : j < asm.frame
        <3>1. Partial
            BY <2>2 DEF Partial
        <3>2. /\ asm.frame <= sent
              /\ \A j \in Answered \union accepted : j < asm.frame
              /\ \A k \in 1 .. Len(mailbox) :
                   asm.frame <= mailbox[k].frame /\ (Begins(mailbox[k]) => asm.frame < mailbox[k].frame)
            BY <1>2, <3>1 DEF PartialOrder
        <3>3. \A j \in Answered' \union accepted' : j < asm.frame
            BY <2>2, <3>2
        <3>4. \A k \in 1 .. Len(mailbox') :
                   asm.frame <= mailbox'[k].frame /\ (Begins(mailbox'[k]) => asm.frame < mailbox'[k].frame)
            BY <1>3, <3>2
        <3> QED
            BY <1>3, <2>2, <3>2, <3>3, <3>4 DEF PartialOrder
    <2> QED
        BY <2>1, <2>2
<1> QED
    BY <1>1, <1>6, <1>7, <1>8 DEF FramesInOrder

\* A step that answers and accepts nothing.
LEMMA FramesUntouched ==
    ASSUME TypeOK, FramesInOrder, Keeps, answer' = answer, accepted' = accepted, ~Partial' \/ asm' = asm
    PROVE  FramesInOrder'
<1>1. Answered' \subseteq Answered \union {} /\ accepted' \subseteq accepted \union {}
    BY DEF Answered
<1>2. LaterPast({}) /\ LaterDone({})
    BY DEF LaterPast, LaterDone
<1> QED
    BY <1>1, <1>2, FramesStayInOrder

\* What is done with is also past.
LEMMA DoneIsPast ==
    ASSUME TypeOK, TypeOK', NEW j \in Nat, LaterDone({j})
    PROVE  LaterPast({j})
<1>1. \A k \in 1 .. Len(mailbox') : mailbox'[k].frame \in Nat
    BY DEF TypeOK, Pbuf, Frame
<1> QED
    BY <1>1 DEF LaterDone, LaterPast

\* The frame just read, the frame being assembled and the commands in hand.
LEMMA FirstIsPast ==
    ASSUME TypeOK, MailOK, BeginningsOK, Reads
    PROVE  /\ First \in Pbuf /\ First.frame \in Frame /\ LaterPast({First.frame})
           /\ Last(First) => LaterDone({First.frame})
<1>1. First \in Pbuf /\ First.frame \in Frame
    BY FirstTypes DEF Pbuf
<1>2. 1 \in 1 .. Len(mailbox) /\ First = mailbox[1]
      /\ \A k \in 1 .. Len(mailbox') : /\ k + 1 \in 1 .. Len(mailbox) /\ 1 < k + 1
                                       /\ mailbox'[k] = mailbox[k + 1]
    BY KeptPbufs DEF Keeps
<1>3. First.frame <= sent /\ (Last(First) /\ tail # "none" => First.frame < sent)
    BY <1>2 DEF MailOK
<1>4. \A k \in 1 .. Len(mailbox') :
          /\ First.frame <= mailbox'[k].frame /\ (Begins(mailbox'[k]) => First.frame < mailbox'[k].frame)
          /\ Last(First) => First.frame < mailbox'[k].frame
    BY <1>2 DEF MailOK, BeginningsOK
<1> QED
    BY <1>1, <1>3, <1>4 DEF LaterPast, LaterDone

LEMMA InHandIsDone ==
    ASSUME TypeOK, OrderOK, UNCHANGED <<sent, tail, mailbox>>
    PROVE  LaterDone({held}) /\ LaterDone({current})
BY DEF OrderOK, WrittenOrder, ReadOrder, LaterDone

LEMMA PartialIsPast ==
    ASSUME TypeOK, PartialOrder, Partial, UNCHANGED <<sent, tail, mailbox>>
    PROVE  LaterPast({asm.frame})
BY DEF PartialOrder, LaterPast

\* A response answers the frame it is for, or the client is gone.
LEMMA RespondAnswers ==
    ASSUME TypeOK, NEW i \in Frame \union {None}, NEW type \in {"ack", "pong", "error"},
           NEW next, Respond(i, type, next)
    PROVE  /\ \/ answer' = answer /\ pc' = "accept" /\ peer' = "away"
              \/ pc' = next /\ peer' = peer /\ answer' = IF i = None THEN answer ELSE [answer EXCEPT ![i] = type]
           /\ Answered' \subseteq Answered \union {i}
<1>1. answer \in [Frame -> {"none", "ack", "pong", "error"}]
    BY DEF TypeOK
<1>2. \/ answer' = answer /\ pc' = "accept" /\ peer' = "away"
      \/ pc' = next /\ peer' = peer /\ answer' = IF i = None THEN answer ELSE [answer EXCEPT ![i] = type]
    BY DEF Respond, Close
<1>3. Answered' \subseteq Answered \union {i}
    BY <1>1, <1>2 DEF Answered
<1> QED
    BY <1>2, <1>3


\* Frames are written, read, answered and accepted in the order of their numbers.
LEMMA FramesInOrderPreserved ==
    TypeOK /\ TypeOK' /\ StageOK /\ MailOK /\ RoomOK /\ OrderOK /\ FateOK /\ FramesInOrder /\ [Next]_vars
        => FramesInOrder'
<1> SUFFICES ASSUME TypeOK, TypeOK', StageOK, MailOK, RoomOK, OrderOK, FateOK, FramesInOrder, [Next]_vars
             PROVE  FramesInOrder'
    OBVIOUS
<1>1. /\ sent \in Nat /\ Len(mailbox) \in Nat
      /\ \A k \in 1 .. Len(mailbox) : mailbox[k].frame \in Nat
      /\ asm.frame \in Nat /\ held \in Nat /\ current \in Nat
      /\ Answered \subseteq Nat /\ accepted \subseteq Nat
    BY FrameNumbers
<1>2. BeginningsOK /\ AnsweredOrder /\ AcceptedOrder /\ PartialOrder
    BY DEF FramesInOrder
<1>3. LaterPast({}) /\ LaterDone({})
    BY DEF LaterPast, LaterDone
<1>4. pc \in {"stop", "put", "slots"} => ~Partial
    BY DEF RoomOK, Partial
<1>5. ASSUME UNCHANGED <<sent, tail, mailbox>>
      PROVE  Keeps /\ LaterPast({held}) /\ LaterPast({current}) /\ LaterDone({current})
    BY <1>1, <1>5, InHandIsDone, DoneIsPast DEF Keeps
<1>6. CASE WriteFrame
    <2>1. PICK pbuf \in Pbuf :
             /\ Deliver(pbuf) /\ pbuf.frame = sent + 1 /\ sent' \in {sent + 1, sent + 2}
        BY <1>6, Written
    <2>2. UNCHANGED <<asm, answer, accepted>>
        BY <1>6 DEF WriteFrame, taskVars, observed
    <2>3. Answered' = Answered /\ Partial' = Partial
        BY <2>2 DEF Answered, Partial
    <2>4. \A k \in 1 .. Len(mailbox') :
             \/ k = Len(mailbox) + 1 /\ mailbox'[k].frame = sent + 1
             \/ k \in 1 .. Len(mailbox) /\ mailbox'[k] = mailbox[k]
        BY <2>1, AppendGoesBehind
    <2>5. \A k \in 1 .. Len(mailbox) : mailbox[k].frame <= sent
        BY DEF MailOK
    <2>6. \A k, l \in 1 .. Len(mailbox') : k < l => k \in 1 .. Len(mailbox) /\ mailbox'[k] = mailbox[k]
        BY <2>1, AppendGoesBehind
    <2>7. BeginningsOK'
        <3> SUFFICES ASSUME NEW k \in 1 .. Len(mailbox'), NEW l \in 1 .. Len(mailbox'), k < l,
                            Begins(mailbox'[l])
                     PROVE  mailbox'[k].frame < mailbox'[l].frame
            BY DEF BeginningsOK
        <3>1. k \in 1 .. Len(mailbox) /\ mailbox'[k] = mailbox[k] /\ mailbox[k].frame <= sent
              /\ mailbox[k].frame \in Nat
            BY <1>1, <2>5, <2>6
        <3>2. CASE l \in 1 .. Len(mailbox) /\ mailbox'[l] = mailbox[l]
            BY <1>2, <3>1, <3>2 DEF BeginningsOK
        <3>3. CASE mailbox'[l].frame = sent + 1
            BY <1>1, <3>1, <3>3
        <3> QED
            BY <2>4, <3>2, <3>3
    <2>8. AnsweredOrder'
        <3> SUFFICES ASSUME NEW j \in Answered
                     PROVE  /\ j <= sent'
                            /\ \A k \in 1 .. Len(mailbox') :
                                 j <= mailbox'[k].frame /\ (Begins(mailbox'[k]) => j < mailbox'[k].frame)
            BY <2>3 DEF AnsweredOrder
        <3>1. j \in Nat /\ j <= sent /\ j <= sent + 1 /\ j < sent + 1
            BY <1>1, <1>2 DEF AnsweredOrder
        <3>2. j <= sent'
            BY <1>1, <2>1, <3>1
        <3> QED
            BY <1>2, <2>4, <3>1, <3>2 DEF AnsweredOrder
    <2>9. AcceptedOrder'
        <3> SUFFICES ASSUME NEW j \in accepted
                     PROVE  /\ j <= sent' /\ j < sent'
                            /\ \A k \in 1 .. Len(mailbox') : j < mailbox'[k].frame
            BY <2>2 DEF AcceptedOrder
        <3>1. j \in Nat /\ j <= sent /\ j < sent + 1
            BY <1>1, <1>2 DEF AcceptedOrder
        <3>2. j <= sent' /\ j < sent'
            BY <1>1, <2>1, <3>1
        <3> QED
            BY <1>2, <2>4, <3>1, <3>2 DEF AcceptedOrder
    <2>10. PartialOrder'
        <3> SUFFICES ASSUME Partial
                     PROVE  /\ asm.frame <= sent'
                            /\ \A j \in Answered \union accepted : j < asm.frame
                            /\ \A k \in 1 .. Len(mailbox') :
                                 /\ asm.frame <= mailbox'[k].frame
                                 /\ Begins(mailbox'[k]) => asm.frame < mailbox'[k].frame
            BY <2>2, <2>3 DEF PartialOrder
        <3>1. /\ asm.frame \in Nat /\ asm.frame <= sent
              /\ \A j \in Answered \union accepted : j < asm.frame
            BY <1>1, <1>2 DEF PartialOrder
        <3>2. asm.frame <= sent' /\ asm.frame <= sent + 1 /\ asm.frame < sent + 1
            BY <1>1, <2>1, <3>1
        <3> QED
            BY <1>2, <2>4, <3>1, <3>2 DEF PartialOrder
    <2> QED
        BY <2>7, <2>8, <2>9, <2>10 DEF FramesInOrder
<1>7. CASE WriteRest
    <2> DEFINE rest == [frame |-> sent, kind |-> tail, part |-> "rest", more |-> FALSE]
    <2>1. /\ sent \in Frame /\ tail \in AllKinds /\ tail # "none" /\ sent' = sent /\ tail' = "none"
          /\ Deliver(rest)
        BY <1>7 DEF WriteRest, TypeOK, StageOK, Frame
    <2>2. rest \in Pbuf /\ rest.frame = sent /\ ~Begins(rest)
        BY <2>1 DEF Pbuf, Begins
    <2>3. UNCHANGED <<asm, answer, accepted>>
        BY <1>7 DEF WriteRest, taskVars, observed
    <2>4. Answered' = Answered /\ Partial' = Partial
        BY <2>3 DEF Answered, Partial
    <2>5. \A k \in 1 .. Len(mailbox') :
             \/ k = Len(mailbox) + 1 /\ mailbox'[k].frame = sent /\ ~Begins(mailbox'[k])
             \/ k \in 1 .. Len(mailbox) /\ mailbox'[k] = mailbox[k]
        <3> HIDE DEF rest
        <3> QED
            BY <2>1, <2>2, AppendGoesBehind
    <2>6. BeginningsOK'
        <3> SUFFICES ASSUME NEW k \in 1 .. Len(mailbox'), NEW l \in 1 .. Len(mailbox'), k < l,
                            Begins(mailbox'[l])
                     PROVE  mailbox'[k].frame < mailbox'[l].frame
            BY DEF BeginningsOK
        <3>1. l \in 1 .. Len(mailbox) /\ mailbox'[l] = mailbox[l]
            BY <2>5
        <3>2. k \in 1 .. Len(mailbox) /\ mailbox'[k] = mailbox[k]
            BY <1>1, <2>5, <3>1
        <3> QED
            BY <1>2, <3>1, <3>2 DEF BeginningsOK
    <2>7. AnsweredOrder'
        BY <1>2, <2>1, <2>4, <2>5 DEF AnsweredOrder
    <2>8. AcceptedOrder'
        BY <1>2, <2>1, <2>3, <2>5 DEF AcceptedOrder
    <2>9. PartialOrder'
        BY <1>2, <2>1, <2>3, <2>4, <2>5 DEF PartialOrder
    <2> QED
        BY <2>6, <2>7, <2>8, <2>9 DEF FramesInOrder
<1>8. CASE Connect
    <2>1. mailbox' = <<>> /\ tail' = "none" /\ UNCHANGED <<sent, asm, answer, accepted>>
        BY <1>8 DEF Connect, taskVars
    <2>2. Answered' = Answered /\ Partial' = Partial
        BY <2>1 DEF Answered, Partial
    <2> QED
        BY <1>2, <2>1, <2>2 DEF FramesInOrder, BeginningsOK, AnsweredOrder, AcceptedOrder, PartialOrder
<1>9. CASE UNCHANGED vars \/ Hangup \/ Drain \/ Motion \/ RequestStop \/ ReadingPauses \/ NothingToRead \/ Wake
    <2>1. UNCHANGED <<sent, tail, mailbox, asm, answer, accepted>>
        BY <1>9 DEF vars, Hangup, Drain, Motion, Take, Notify, RequestStop, ReadingPauses, NothingToRead,
                    Wake, taskVars, netVars, observed
    <2> QED
        BY <2>1, FramesUntouched DEF Keeps
<1>10. CASE Accept \/ TrailingBytes
    <2>1. Keeps /\ UNCHANGED <<answer, accepted>> /\ asm' = Empty
        BY <1>10 DEF Accept, TrailingBytes, netVars, observed, Keeps
    <2>2. ~Partial'
        BY <2>1 DEF Partial, Empty
    <2> QED
        BY <2>1, <2>2, FramesUntouched
<1>11. CASE NeedMore
    <2>1. Reads /\ Keeps /\ UNCHANGED <<answer, accepted>>
        BY <1>11 DEF NeedMore, Keeps
    <2>2. CASE asm' = [holds |-> "junk", frame |-> None]
        <3>1. ~Partial'
            BY <2>2 DEF Partial
        <3> QED
            BY <2>1, <3>1, FramesUntouched
    <2>3. CASE ~IsJunk /\ ~IsComplete /\ asm' = [holds |-> First.part, frame |-> First.frame]
        <3>1. First \in Pbuf /\ First.frame \in Frame /\ LaterPast({First.frame})
            BY <1>2, <2>1, FirstIsPast
        <3>2. Begins(First)
            BY <2>3 DEF IsComplete, Begins
        <3>3. 1 \in 1 .. Len(mailbox) /\ First = mailbox[1] /\ sent' = sent /\ tail' = tail
              /\ \A k \in 1 .. Len(mailbox') : k + 1 \in 1 .. Len(mailbox) /\ mailbox'[k] = mailbox[k + 1]
            BY <2>1, KeptPbufs
        <3>4. Answered' = Answered /\ asm'.frame = First.frame
            BY <2>1, <2>3 DEF Answered
        <3>5. \A j \in Answered \union accepted : j < First.frame
            BY <1>2, <3>2, <3>3 DEF AnsweredOrder, AcceptedOrder
        <3>6. BeginningsOK'
            BY <1>2, <2>1, BeginningsKept
        <3>7. AnsweredOrder' /\ AcceptedOrder'
            BY <1>2, <2>1, <3>3, <3>4 DEF AnsweredOrder, AcceptedOrder
        <3>8. PartialOrder'
            BY <2>1, <3>1, <3>3, <3>4, <3>5 DEF PartialOrder, LaterPast
        <3> QED
            BY <3>6, <3>7, <3>8 DEF FramesInOrder
    <2> QED
        BY <1>11, <2>2, <2>3 DEF NeedMore
<1>12. CASE FrameError
    <2>1. Reads /\ Keeps /\ accepted' = accepted /\ asm' = Empty
        BY <1>12 DEF FrameError, Keeps
    <2>2. First.frame \in Frame /\ LaterPast({First.frame})
        BY <1>2, <2>1, FirstIsPast
    <2>3. ~Partial'
        BY <2>1 DEF Partial, Empty
    <2>4. CASE Respond(First.frame, "error", "read")
        <3>1. Answered' \subseteq Answered \union {First.frame}
            BY <2>2, <2>4, RespondAnswers
        <3> QED
            BY <1>3, <2>1, <2>2, <2>3, <3>1, FramesStayInOrder
    <2>5. CASE Respond(None, "error", "read")
        <3>1. answer' = answer
            BY <2>5, RespondAnswers
        <3> QED
            BY <2>1, <2>3, <3>1, FramesUntouched
    <2> QED
        BY <1>12, <2>4, <2>5 DEF FrameError
<1>13. CASE CommandReady
    <2>1. Reads /\ Keeps /\ accepted' = accepted /\ asm' = Empty
        BY <1>13 DEF CommandReady, Keeps
    <2>2. First.frame \in Frame /\ LaterPast({First.frame})
        BY <1>2, <2>1, FirstIsPast
    <2>3. ~Partial'
        BY <2>1 DEF Partial, Empty
    <2>4. CASE First.kind \in DOMAIN AtOnce /\ Respond(First.frame, AtOnce[First.kind], "read")
        <3>1. AtOnce[First.kind] \in {"ack", "pong", "error"}
            BY <2>4 DEF AtOnce
        <3>2. Answered' \subseteq Answered \union {First.frame}
            BY <2>2, <2>4, <3>1, RespondAnswers
        <3> QED
            BY <1>3, <2>1, <2>2, <2>3, <3>2, FramesStayInOrder
    <2>5. CASE answer' = answer
        BY <2>1, <2>3, <2>5, FramesUntouched
    <2> QED
        BY <1>13, <2>4, <2>5 DEF CommandReady
<1>14. CASE QueueFull
    <2>1. UNCHANGED <<sent, tail, mailbox>> /\ accepted' = accepted /\ asm' = asm /\ ~Partial'
        BY <1>4, <1>14 DEF QueueFull, netVars, Partial
    <2>2. Answered' \subseteq Answered \union {current}
        BY <1>14, RespondAnswers DEF QueueFull, TypeOK
    <2> QED
        BY <1>3, <1>5, <2>1, <2>2, FramesStayInOrder
<1>15. CASE PutCommand
    <2>1. UNCHANGED <<sent, tail, mailbox>> /\ accepted' = accepted \union {current} /\ ~Partial'
        BY <1>4, <1>15 DEF PutCommand, netVars, Partial
    <2>2. Answered' \subseteq Answered \union {held}
        <3>1. CASE OlderAck = None
            BY <1>15, <3>1 DEF PutCommand, Answered
        <3>2. CASE OlderAck # None
            BY <1>15, <3>2, RespondAnswers DEF PutCommand, OlderAck, TypeOK
        <3> QED
            BY <3>1, <3>2
    <2> QED
        BY <1>5, <2>1, <2>2, FramesStayInOrder
<1>16. CASE AnswerCommand
    <2>1. UNCHANGED <<sent, tail, mailbox>> /\ accepted' = accepted /\ ~Partial'
        BY <1>4, <1>16 DEF AnswerCommand, netVars, Partial
    <2>2. Answered' \subseteq Answered \union {current}
        <3>1. CASE HoldsAck
            BY <1>16, <3>1 DEF AnswerCommand, Answered
        <3>2. CASE ~HoldsAck
            BY <1>16, <3>2, RespondAnswers DEF AnswerCommand, TypeOK
        <3> QED
            BY <3>1, <3>2
    <2> QED
        BY <1>3, <1>5, <2>1, <2>2, FramesStayInOrder
<1>17. CASE WakeWithAck
    <2>1. UNCHANGED <<sent, tail, mailbox, accepted, asm>> /\ held \in accepted
        BY <1>17 DEF WakeWithAck, netVars, FateOK
    <2>2. Answered' \subseteq Answered \union {held}
        BY <1>17 DEF WakeWithAck, Answered, TypeOK
    <2>3. Partial => held < asm.frame
        BY <1>2, <2>1 DEF PartialOrder
    <2>4. Partial' = Partial
        BY <2>1 DEF Partial
    <2>5. ~Partial' \/ (asm' = asm /\ \A j \in {held} \union {} : j < asm.frame)
        BY <2>1, <2>3, <2>4
    <2>6. accepted' \subseteq accepted \union {}
        BY <2>1
    <2> QED
        BY <1>3, <1>5, <2>1, <2>2, <2>5, <2>6, FramesStayInOrder
<1>18. CASE FrameTimesOut
    <2>1. UNCHANGED <<sent, tail, mailbox, accepted>> /\ asm' = Empty /\ Partial
        BY <1>18 DEF FrameTimesOut, netVars
    <2>2. ~Partial'
        BY <2>1 DEF Partial, Empty
    <2>3. Answered' \subseteq Answered \union {asm.frame}
        <3>1. CASE asm.holds = "header"
            BY <1>18, <3>1, RespondAnswers DEF FrameTimesOut, TypeOK
        <3>2. CASE asm.holds # "header"
            BY <1>18, <3>2 DEF FrameTimesOut, Answered
        <3> QED
            BY <3>1, <3>2
    <2>4. LaterPast({asm.frame})
        BY <1>2, <2>1, PartialIsPast
    <2> QED
        BY <1>3, <1>5, <2>1, <2>2, <2>3, <2>4, FramesStayInOrder
<1> QED
    BY <1>6, <1>7, <1>8, <1>9, <1>10, <1>11, <1>12, <1>13, <1>14, <1>15, <1>16, <1>17, <1>18
       DEF Next, Client, Task, Reading, Handling


\* Steps that accept nothing and answer, if at all, a frame that was not accepted.
LEMMA FateKept ==
    ASSUME TypeOK, FateOK, AnswerTellsFate, NEW i \in Frame \union {None}, NEW type \in {"error", "pong"},
           answer' = answer \/ (i \notin accepted /\ answer' = [answer EXCEPT ![i] = type]),
           accepted' = accepted, lost \subseteq lost', held' = held,
           pc \notin {"slots", "accept"}, pc' \in {"read", "wait"} \/ (pc' = "accept" /\ peer' = "away")
    PROVE  FateOK' /\ AnswerTellsFate'
<1>1. answer \in [Frame -> {"none", "ack", "pong", "error"}]
    BY DEF TypeOK
<1>2. AnswerTellsFate'
    <2> SUFFICES ASSUME NEW j \in Frame
                 PROVE  /\ answer'[j] = "ack" => j \in accepted
                        /\ answer'[j] \in {"error", "pong"} => j \notin accepted
                        /\ j \in accepted /\ answer'[j] = "none" => j = held \/ j \in lost'
        BY DEF AnswerTellsFate
    <2>1. /\ answer[j] = "ack" => j \in accepted
          /\ answer[j] \in {"error", "pong"} => j \notin accepted
          /\ j \in accepted /\ answer[j] = "none" => j = held \/ j \in lost'
        BY DEF AnswerTellsFate
    <2>2. answer'[j] = answer[j] \/ (j \notin accepted /\ answer'[j] = type)
        BY <1>1
    <2> QED
        BY <2>1, <2>2
<1>3. FateOK'
    BY DEF FateOK
<1> QED
    BY <1>2, <1>3

\* An accepted frame is a frame that was sent.
LEMMA AcceptedWasSent ==
    ASSUME TypeOK, AcceptedOrder, NEW j \in accepted
    PROVE  j \in 1 .. sent /\ j \in Frame
BY DEF TypeOK, AcceptedOrder, Frame

LEMMA FatePreserved ==
    TypeOK /\ StageOK /\ MailOK /\ RoomOK /\ FramesInOrder /\ FateOK /\ AnswerTellsFate /\ [Next]_vars
        => FateOK' /\ AnswerTellsFate'
<1> SUFFICES ASSUME TypeOK, StageOK, MailOK, RoomOK, FramesInOrder, FateOK, AnswerTellsFate, [Next]_vars
             PROVE  FateOK' /\ AnswerTellsFate'
    OBVIOUS
<1>1. /\ answer \in [Frame -> {"none", "ack", "pong", "error"}] /\ accepted \subseteq Frame
      /\ held \in Frame \union {None} /\ current \in Frame \union {None} /\ None \notin Frame
      /\ asm.frame \in Frame \union {None}
    BY DEF TypeOK, Frame, None
<1>2. AnsweredOrder /\ AcceptedOrder /\ PartialOrder /\ BeginningsOK
    BY DEF FramesInOrder
\* What was read is not yet accepted.
<1>3. ASSUME Reads
      PROVE  /\ First.frame \in Frame \ accepted /\ 1 \in 1 .. Len(mailbox) /\ First = mailbox[1]
             /\ First \in Pbuf /\ pc = "read" /\ held' = held
    <2>1. 1 \in 1 .. Len(mailbox) /\ First = mailbox[1]
        BY <1>3, KeptPbufs DEF Keeps
    <2>2. First \in Pbuf /\ First.frame \in Frame
        BY <1>2, <1>3, FirstIsPast
    <2>3. First.frame \notin accepted
        BY <1>2, <2>1, <2>2 DEF AcceptedOrder, Frame
    <2> QED
        BY <1>3, <2>1, <2>2, <2>3 DEF Reads
<1>4. CASE UNCHANGED vars \/ WriteFrame \/ WriteRest \/ Hangup \/ Drain \/ Motion
    <2>1. UNCHANGED <<pc, answer, accepted, held, current, lost>> /\ (peer' = peer \/ peer = "open")
        BY <1>4 DEF vars, WriteFrame, WriteRest, Hangup, Drain, Motion, Take, Notify, taskVars, netVars,
                    observed
    <2>2. Answered' = Answered
        BY <2>1 DEF Answered
    <2> QED
        BY <2>1, <2>2 DEF FateOK, AnswerTellsFate
<1>5. CASE Connect
    <2>1. /\ UNCHANGED <<pc, answer, accepted, held, current>> /\ pc = "accept"
          /\ lost' = lost \union {i \in 1 .. sent : answer[i] = "none"}
        BY <1>5 DEF Connect, taskVars
    <2>2. \A j \in accepted : answer[j] = "none" => j \in lost'
        BY <1>2, <2>1, AcceptedWasSent
    <2>3. FateOK'
        BY <1>1, <2>1, <2>2 DEF FateOK, Answered
    <2>4. AnswerTellsFate'
        BY <2>1, <2>2 DEF AnswerTellsFate
    <2> QED
        BY <2>3, <2>4
<1>6. CASE Accept
    <2>1. /\ pc = "accept" /\ peer # "away" /\ pc' = "read" /\ held' = None
          /\ UNCHANGED <<answer, accepted, lost>>
        BY <1>6 DEF Accept, AfterAccept, observed
    <2>2. \A j \in accepted : answer[j] = "none" => j \in lost
        BY <1>1, <2>1 DEF FateOK, Answered
    <2> QED
        BY <2>1, <2>2 DEF FateOK, AnswerTellsFate
<1>7. CASE ReadingPauses \/ NothingToRead \/ NeedMore \/ TrailingBytes \/ Wake
    <2>1. /\ UNCHANGED <<answer, accepted, held>> /\ lost \subseteq lost' /\ pc \in {"read", "wait"}
          /\ pc' \in {"read", "wait"} \/ (pc' = "accept" /\ peer' = "away")
        BY <1>7 DEF ReadingPauses, NothingToRead, NeedMore, TrailingBytes, Wake, Reads, Close, ReadOrWait,
                    taskVars, observed
    <2>2. None \in Frame \union {None} /\ "error" \in {"error", "pong"}
        OBVIOUS
    <2> QED
        BY <2>1, <2>2, FateKept
<1>8. CASE FrameError
    <2>1. Reads /\ accepted' = accepted /\ lost \subseteq lost'
        BY <1>8 DEF FrameError
    <2>2. PICK i \in {First.frame, None} : Respond(i, "error", "read")
        BY <1>8 DEF FrameError
    <2>3. i \in Frame \union {None} /\ i \notin accepted
        BY <1>1, <1>3, <2>1
    <2>4. /\ answer' = answer \/ answer' = [answer EXCEPT ![i] = "error"]
          /\ pc' = "read" \/ (pc' = "accept" /\ peer' = "away")
        BY <2>2, <2>3, RespondAnswers
    <2> QED
        BY <1>3, <2>1, <2>3, <2>4, FateKept
<1>9. CASE CommandReady
    <2>1. Reads /\ accepted' = accepted /\ lost' = lost /\ IsComplete
        BY <1>9 DEF CommandReady
    <2>2. CASE First.kind \in DOMAIN AtOnce /\ Respond(First.frame, AtOnce[First.kind], "read")
        <3>1. AtOnce[First.kind] \in {"pong", "error"}
            BY <2>2 DEF AtOnce
        <3>2. /\ answer' = answer \/ answer' = [answer EXCEPT ![First.frame] = AtOnce[First.kind]]
              /\ pc' = "read" \/ (pc' = "accept" /\ peer' = "away")
            BY <1>3, <2>1, <2>2, <3>1, RespondAnswers
        <3> QED
            BY <1>3, <2>1, <3>1, <3>2, FateKept
    <2>3. CASE current' = First.frame /\ pc' \in {"stop", "put"} /\ answer' = answer
        <3>1. First.frame \notin Answered
            <4>1. CASE Begins(First)
                BY <1>2, <1>3, <2>1, <4>1 DEF AnsweredOrder, Frame
            <4>2. CASE ~Begins(First)
                <5>1. asm.holds \notin {"junk", "nothing"}
                    BY <2>1, <4>2 DEF IsComplete, IsJunk, Begins
                <5>2. Partial
                    BY <5>1 DEF Partial, TypeOK
                <5>3. asm.frame <= First.frame /\ \A j \in Answered : j < asm.frame
                    BY <1>2, <1>3, <2>1, <5>2 DEF PartialOrder
                <5> QED
                    BY <1>3, <2>1, <5>3, FrameNumbers
            <4> QED
                BY <4>1, <4>2
        <3>2. First.frame \notin Answered' \union accepted'
            BY <1>3, <2>1, <2>3, <3>1 DEF Answered
        <3>3. held' = held /\ pc = "read"
            BY <1>3, <2>1
        <3>4. FateOK'
            BY <2>1, <2>3, <3>2, <3>3 DEF FateOK
        <3>5. AnswerTellsFate'
            BY <2>1, <2>3, <3>3 DEF AnswerTellsFate
        <3> QED
            BY <3>4, <3>5
    <2> QED
        BY <1>9, <2>2, <2>3 DEF CommandReady
<1>10. CASE RequestStop
    <2>1. pc = "stop" /\ pc' = "put" /\ UNCHANGED <<current, held, answer, accepted, lost>>
        BY <1>10 DEF RequestStop, taskVars, observed
    <2>2. Answered' = Answered
        BY <2>1 DEF Answered
    <2> QED
        BY <2>1, <2>2 DEF FateOK, AnswerTellsFate
<1>11. CASE QueueFull
    <2>1. pc = "put" /\ UNCHANGED <<held, accepted, lost>> /\ current \notin accepted
        BY <1>11 DEF QueueFull, FateOK
    <2>2. /\ answer' = answer \/ answer' = [answer EXCEPT ![current] = "error"]
          /\ pc' = "read" \/ (pc' = "accept" /\ peer' = "away")
        BY <1>1, <1>11, RespondAnswers DEF QueueFull
    <2> QED
        BY <1>1, <2>1, <2>2, FateKept
<1>12. CASE PutCommand
    <2>1. /\ pc = "put" /\ accepted' = accepted \union {current} /\ UNCHANGED <<current, lost>>
          /\ current \in Frame /\ answer[current] = "none" /\ current \notin accepted
        BY <1>1, <1>12 DEF PutCommand, StageOK, FateOK, Answered
    <2>2. CASE held = None
        <3>1. pc' = "slots" /\ UNCHANGED <<held, answer>>
            BY <1>12, <2>2 DEF PutCommand, OlderAck
        <3>2. FateOK'
            BY <2>1, <2>2, <3>1 DEF FateOK, Answered
        <3>3. AnswerTellsFate'
            BY <1>1, <2>1, <2>2, <3>1 DEF AnswerTellsFate
        <3> QED
            BY <3>2, <3>3
    <2>3. CASE held # None
        <3>1. Respond(held, "ack", "slots") /\ held' = None /\ held \in accepted /\ held # current
            BY <1>12, <2>1, <2>3 DEF PutCommand, OlderAck, FateOK
        <3>2. \/ answer' = answer /\ pc' = "accept" /\ peer' = "away"
              \/ pc' = "slots" /\ answer' = [answer EXCEPT ![held] = "ack"]
            BY <1>1, <2>3, <3>1, RespondAnswers
        <3>3. CASE answer' = answer /\ pc' = "accept" /\ peer' = "away"
            BY <1>1, <2>1, <3>1, <3>3 DEF FateOK, AnswerTellsFate
        <3>4. CASE pc' = "slots" /\ answer' = [answer EXCEPT ![held] = "ack"]
            <4>1. answer'[current] = "none" /\ answer'[held] = "ack"
                  /\ \A j \in Frame : j # held => answer'[j] = answer[j]
                BY <1>1, <2>1, <2>3, <3>1, <3>4
            <4>2. FateOK'
                BY <2>1, <3>1, <3>4, <4>1 DEF FateOK, Answered
            <4>3. AnswerTellsFate'
                BY <1>1, <2>1, <3>1, <3>4, <4>1 DEF AnswerTellsFate
            <4> QED
                BY <4>2, <4>3
        <3> QED
            BY <3>2, <3>3, <3>4
    <2> QED
        BY <2>2, <2>3
<1>13. CASE AnswerCommand
    <2>1. /\ pc = "slots" /\ held = None /\ UNCHANGED <<accepted, lost>>
          /\ current \in accepted /\ current \in Frame /\ current # None
        BY <1>1, <1>13 DEF AnswerCommand, RoomOK, FateOK
    <2>2. CASE HoldsAck
        <3>1. held' = current /\ pc' = "read" /\ answer' = answer
            BY <1>13, <2>2 DEF AnswerCommand
        <3> QED
            BY <1>1, <2>1, <3>1 DEF FateOK, AnswerTellsFate
    <2>3. CASE ~HoldsAck
        <3>1. Respond(current, "ack", "read") /\ held' = held
            BY <1>13, <2>3 DEF AnswerCommand
        <3>2. \/ answer' = answer /\ pc' = "accept" /\ peer' = "away"
              \/ pc' = "read" /\ answer' = [answer EXCEPT ![current] = "ack"]
            BY <1>1, <2>1, <3>1, RespondAnswers
        <3>3. FateOK'
            BY <2>1, <3>1, <3>2 DEF FateOK
        <3>4. AnswerTellsFate'
            BY <1>1, <2>1, <3>1, <3>2 DEF AnswerTellsFate
        <3> QED
            BY <3>3, <3>4
    <2> QED
        BY <2>2, <2>3
<1>14. CASE WakeWithAck
    <2>1. /\ pc = "wait" /\ held \in accepted /\ held \in Frame /\ held' = None
          /\ UNCHANGED <<accepted, lost>>
        BY <1>1, <1>14 DEF WakeWithAck, FateOK
    <2>2. \/ answer' = answer /\ pc' = "accept" /\ peer' = "away"
          \/ pc' \in {"read", "wait"} /\ answer' = [answer EXCEPT ![held] = "ack"]
        BY <1>14 DEF WakeWithAck, Close, ReadOrWait
    <2>3. FateOK'
        BY <2>1, <2>2 DEF FateOK
    <2>4. AnswerTellsFate'
        BY <1>1, <2>1, <2>2 DEF AnswerTellsFate
    <2> QED
        BY <2>3, <2>4
<1>15. CASE FrameTimesOut
    <2>1. pc = "wait" /\ Partial /\ UNCHANGED <<held, accepted>> /\ lost \subseteq lost'
        BY <1>15 DEF FrameTimesOut
    <2>2. asm.frame \notin accepted
        BY <1>2, <2>1, FrameNumbers DEF PartialOrder
    <2>3. /\ answer' = answer \/ answer' = [answer EXCEPT ![asm.frame] = "error"]
          /\ pc' = "wait" \/ (pc' = "accept" /\ peer' = "away")
        <3>1. CASE asm.holds = "header"
            BY <1>1, <1>15, <3>1, RespondAnswers DEF FrameTimesOut
        <3>2. CASE asm.holds # "header"
            BY <1>15, <2>1, <3>2 DEF FrameTimesOut
        <3> QED
            BY <3>1, <3>2
    <2> QED
        BY <1>1, <2>1, <2>2, <2>3, FateKept
<1> QED
    BY <1>4, <1>5, <1>6, <1>7, <1>8, <1>9, <1>10, <1>11, <1>12, <1>13, <1>14, <1>15
       DEF Next, Client, Task, Reading, Handling

\* An ACK is given to queued commands only and an ERROR or a PONG to frames that never are,
\* and a queued command without an answer has its ACK held, is about to be answered, or its
\* connection ended first: whatever is torn, dropped, timed out or broken off meanwhile.
THEOREM AnswersTellTheFate == Spec => []AnswerTellsFate
<1>1. Init => RoomOK /\ MailOK /\ OrderOK
    <2>1. Init => RoomOK
        BY DEF Init, RoomOK, Empty, None
    <2>2. Init => MailOK /\ OrderOK
        BY DEF Init, MailOK, OrderOK, HandledOrder, WrittenOrder, ReadOrder, Acked, None
    <2> QED
        BY <2>1, <2>2
<1>2. Init => FramesInOrder /\ FateOK /\ AnswerTellsFate
    <2> SUFFICES ASSUME Init PROVE FramesInOrder /\ FateOK /\ AnswerTellsFate
        OBVIOUS
    <2>1. Answered = {} /\ accepted = {} /\ mailbox = <<>> /\ ~Partial
        BY DEF Init, Answered, Partial, Empty
    <2>2. FramesInOrder
        BY <2>1 DEF FramesInOrder, BeginningsOK, AnsweredOrder, AcceptedOrder, PartialOrder
    <2> QED
        BY <2>1, <2>2 DEF Init, FateOK, AnswerTellsFate
<1> QED
    BY <1>1, <1>2, TypeInvariant, RoomPreserved, MailPreserved, OrderPreserved, FramesInOrderPreserved,
       FatePreserved, PTL DEF Spec
=============================================================================
