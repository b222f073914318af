----------------------------- MODULE StepStream -----------------------------
(***************************************************************************)
(* The DMA-driven step stream of axis X: a circular DMA moves records of   *)
(* Burst words into the timer, and the steps that were played are          *)
(* reconstructed from the halves of the buffer that its interrupt has      *)
(* counted, the flags that are still pending and the DMA's own counter     *)
(* (src/BSP/MCU/step_stream_axis.c, src/BSP/MCU/step_stream_format.c).     *)
(* The DMA goes on while any of these is read.  No task starts a stream    *)
(* yet; one caller at a time is assumed.                                   *)
(*                                                                         *)
(* The timer, the pulse and period ticks and the buffer's contents are     *)
(* left out.                                                               *)
(***************************************************************************)
EXTENDS Integers, FiniteSets

CONSTANTS
  Records,   \* STEP_STREAM_AXIS_RECORD_COUNT
  Burst,     \* words of a record
  Word,      \* 2^32 of the code
  MaxWords   \* bound: words of one stream

ASSUME StreamAssumption ==
  /\ Records \in Nat \ {0} /\ Records % 2 = 0
  /\ Burst \in Nat \ {0} /\ Word \in Nat \ {0} /\ MaxWords \in Nat

Total == Records * Burst
HalfRecords == Records \div 2
Half == HalfRecords * Burst

\* A stream ends before its halves, and the one that disabling it may add, fill their count.
ASSUME LengthAssumption == MaxWords < (Word - 1) * Half

VARIABLES
  streaming,           \* STEP_STREAM_AXIS_STATE_STREAMING
  words,               \* the DMA: words moved since the stream began
  flags,               \* HTIF0 ("half") and TCIF0 ("full") that are set
  completed,           \* step_stream_axis_completed_half_buffers
  lastDone,            \* step_stream_axis_last_steps_done
  busy,                \* who is between two accesses: "nobody", "interrupt" or "reader"
  seen,                \* the flags the interrupt has read
  halves,              \* and the halves the reader has added up
  since,               \* words moved since the reader read the flags
  reported, asked,     \* history: the last answer, and the words moved when it was asked for
  spurious             \* history: disabling the DMA has set TCIF0

streamVars == <<streaming, words, flags, completed, lastDone, busy, seen, halves, since, reported, asked, spurious>>

Ndtr == Total - (words % Total)
AtMost(n, limit) == IF n > limit THEN limit ELSE n

\* The first record only replaces the values the timer began with.
StepsOf(records) == AtMost(IF records = 0 THEN 0 ELSE records - 1, Word - 1)
Played == words \div Burst

\* The type invariant: no count of steps leaves its width, the one of no record included.
StreamTypeOK ==
  /\ streaming \in BOOLEAN /\ words \in 0 .. MaxWords
  /\ flags \subseteq {"half", "full"} /\ seen \subseteq {"half", "full"}
  /\ completed \in 0 .. Word - 1 /\ lastDone \in 0 .. Word - 1
  /\ busy \in {"nobody", "interrupt", "reader"}
  /\ halves \in 0 .. Word - 1
  /\ since \in 0 .. Half /\ reported \in 0 .. Word - 1 /\ asked \in 0 .. MaxWords /\ spurious \in BOOLEAN

StreamInit ==
  /\ streaming = FALSE /\ words = 0 /\ flags = {}
  /\ completed = 0 /\ lastDone = 0 /\ busy = "nobody" /\ seen = {} /\ halves = 0 /\ since = 0
  /\ reported = 0 /\ asked = 0 /\ spurious = FALSE

\* step_stream_format_steps_done.  The counter may have passed a half that is not counted
\* yet: an odd count then takes the half as played, an even one as not begun.
InHalfUncounted(count, ndtr) ==
  IF count % 2 = 0 THEN IF ndtr >= Half THEN Total - ndtr ELSE 0
  ELSE IF ndtr <= Half THEN Half - ndtr ELSE 0
InHalf(count, ndtr) ==
  IF count % 2 = 0 THEN IF ndtr >= Half THEN Total - ndtr ELSE 0
  ELSE IF ndtr <= Half THEN Half - ndtr ELSE Half
StepsDone(count, ndtr) == StepsOf(count * HalfRecords + InHalf(count, ndtr) \div Burst)

-----------------------------------------------------------------------------
(* The DMA *)

\* The flags the next word sets.
Reached(count) == {f \in {"half", "full"} : count % Total = (IF f = "half" THEN Half ELSE 0)}

\* A flag that is still pending is not set twice: the interrupt is served within a lap, and
\* less than half a lap passes between the two reads of a reader.
InTime ==
  /\ Reached(words + 1) \cap flags = {}
  /\ busy = "reader" => since < Half - 1

Transfer ==
  /\ streaming /\ words < MaxWords /\ InTime
  /\ words' = words + 1
  /\ flags' = flags \cup Reached(words')
  /\ since' = IF busy = "reader" THEN since + 1 ELSE since
  /\ UNCHANGED <<streaming, completed, lastDone, busy, seen, halves, reported, asked, spurious>>

-----------------------------------------------------------------------------
(* DMA1_Stream0_IRQHandler *)

InterruptReads ==
  /\ busy = "nobody" /\ flags # {}
  /\ busy' = "interrupt" /\ seen' = flags
  /\ UNCHANGED <<streaming, words, flags, completed, lastDone, halves, since, reported, asked, spurious>>

\* Only the flags that were read are cleared.
NoneLeft == {}
StillPending == flags \ seen
InterruptCounts ==
  /\ busy = "interrupt" /\ busy' = "nobody"
  /\ completed' = (completed + Cardinality(seen)) % Word
  /\ flags' = StillPending /\ seen' = {}
  /\ UNCHANGED <<streaming, words, lastDone, halves, since, reported, asked, spurious>>

-----------------------------------------------------------------------------
(* The caller *)

Start ==
  /\ busy = "nobody" /\ ~streaming /\ streaming' = TRUE
  /\ words' = 0 /\ flags' = {}
  /\ completed' = 0 /\ lastDone' = 0 /\ reported' = 0 /\ asked' = 0 /\ spurious' = FALSE
  /\ UNCHANGED <<busy, seen, halves, since>>

\* step_stream_axis_current_steps, with interrupts masked: the flags first, ...
HalvesCounted == completed
Halves == (completed + Cardinality(flags)) % Word
ReadFlags ==
  /\ busy = "nobody" /\ streaming
  /\ busy' = "reader" /\ halves' = Halves /\ since' = 0 /\ asked' = words
  /\ UNCHANGED <<streaming, words, flags, completed, lastDone, seen, reported, spurious>>

\* ... then the counter.
ReadCounter ==
  /\ busy = "reader" /\ busy' = "nobody"
  /\ reported' = StepsDone(halves, Ndtr) /\ halves' = 0 /\ since' = 0
  /\ UNCHANGED <<streaming, words, flags, completed, lastDone, seen, asked, spurious>>

\* A stream that has stopped answers with what stop counted.
ReadStopped ==
  /\ busy = "nobody" /\ ~streaming
  /\ reported' = lastDone /\ asked' = words
  /\ UNCHANGED <<streaming, words, flags, completed, lastDone, busy, seen, halves, since, spurious>>

\* Disabling a DMA stream ends its transfer, which the DMA may report like any other end,
\* with TCIF0; the flags are read after that.
Stop ==
  /\ busy = "nobody" /\ streaming /\ streaming' = FALSE
  /\ \E ends \in BOOLEAN :
       /\ spurious' = (ends /\ "full" \notin flags)
       /\ lastDone' = StepsDone((Halves + (IF spurious' THEN 1 ELSE 0)) % Word, Ndtr)
  /\ flags' = {}
  /\ UNCHANGED <<words, completed, busy, seen, halves, since, reported, asked>>

StreamNext ==
  \/ Transfer \/ InterruptReads \/ InterruptCounts
  \/ Start \/ ReadFlags \/ ReadCounter \/ ReadStopped \/ Stop

StreamSpec == StreamInit /\ [][StreamNext]_streamVars

-----------------------------------------------------------------------------
(* Properties *)

\* The DMA has passed the middle of the buffer since the flags were read.
MiddlePassed == asked % Total < Half /\ asked \div Total = words \div Total /\ words % Total >= Half

\* An answer is what was played at some moment of the call, whichever flags and interrupts
\* are pending and also when the buffer ends in between.  If its middle is passed in between
\* the answer is that of the buffer's start, up to a half too few, but never too many.
AnswersInBetween ==
  [][ReadCounter =>
       /\ reported' <= StepsOf(Played)
       /\ reported' >= StepsOf(IF MiddlePassed THEN (asked \div Total) * Records ELSE asked \div Burst)]_streamVars

\* A stopped stream has counted every record, none twice; if disabling the DMA has set
\* TCIF0 it has counted up to a lap too many, but none too few.
StopCountsAll ==
  [][Stop => /\ StepsOf(Played) <= lastDone' /\ lastDone' <= StepsOf(Played + Records)
             /\ ~spurious' => lastDone' = StepsOf(Played)]_streamVars

\* No count leaves its width, and every half the DMA has passed is counted once: by the
\* interrupt, or by a flag it has yet to see.
HalvesConserved == StreamTypeOK /\ (streaming => Halves = (words \div Half) % Word)
=============================================================================
