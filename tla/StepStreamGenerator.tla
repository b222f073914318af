------------------------ MODULE StepStreamGenerator ------------------------
(***************************************************************************)
(* The generator of one axis' step stream                                  *)
(* (src/APP/motion/step_stream_generator.c).  The duration of a block is   *)
(* cut into one interval per step on a grid of nanoseconds rounded up, an  *)
(* interval into timer ticks rounded down with a carry, and ticks that do  *)
(* not fit a timer period into records of nearly equal length.  The first  *)
(* record of a step gives its pulse.                                       *)
(*                                                                         *)
(* A call of fill() writes some of the records and keeps the generator for *)
(* the next, so a record at a time says what it does for every size.  A    *)
(* stream may take up the carry of the one before it: such streams are a   *)
(* chain.  No task makes a stream yet.  Sums that would not fit 64 bits    *)
(* are left out, as in MotionPlanner.                                      *)
(***************************************************************************)
EXTENDS MotionPlanner

CONSTANTS
  TimerClock, PulseTicks, LowTicks, MinRecord,   \* StepStreamGeneratorConfig_t
  MaxRecord,      \* 65536
  StreamBlocks,   \* blocks that a stream may be made of
  MaxChain        \* bound: nanoseconds of the streams before the last of a chain

\* step_stream_generator_validate_config
ASSUME StreamConfigAssumption ==
  /\ TimerClock \in Nat \ {0} /\ LowTicks \in Nat /\ MaxRecord \in Nat /\ MaxChain \in Nat
  /\ PulseTicks \in 1 .. MaxRecord - 1 /\ MinRecord \in 1 .. MaxRecord
  /\ PulseTicks + LowTicks <= MaxRecord

ASSUME StreamBlocksAssumption ==
  \A b \in StreamBlocks :
    b.master \in Nat /\ b.rate \in Nat /\ b.interval \in Nat /\ \A a \in PlannerAxes : b.delta[a] \in Int

VARIABLES
  generator,       \* StepStreamGenerator_t
  record,          \* the record written last
  given,           \* history: ticks of the records of this chain,
  firstCarry, past,     \* the carry it began with and the nanoseconds before this stream,
  pulses, pulseAt  \* steps of this stream, and the ticks given before the last of them

generatorVars == <<generator, record, given, firstCarry, past, pulses, pulseAt>>

RoundedUp(numerator, denominator) ==
  numerator \div denominator + (IF numerator % denominator # 0 THEN 1 ELSE 0)

\* step_stream_generator_calculate_duration
DurationOf(b) == RoundedUp(b.master * b.interval, b.rate)

\* step_stream_generator_init
StreamBegin(count, duration, carry) ==
  [steps |-> count, duration |-> duration, grid |-> 0, carry |-> carry,
   done |-> 0, records |-> 0, index |-> 0, base |-> 0, extra |-> 0]

Intervals(g) == IF g.steps = 0 THEN 1 ELSE g.steps

GridRemainder(g) == (g.duration % g.steps)

\* The remainder of the grid after the next step: it wraps at a whole nanosecond.
Wraps(g) == GridRemainder(g) # 0 /\ g.grid >= g.steps - GridRemainder(g)
NextGrid(g) ==
  IF g.steps = 0 THEN 0
  ELSE IF Wraps(g) THEN g.grid - (g.steps - GridRemainder(g)) ELSE g.grid + GridRemainder(g)

\* The next interval, with both its ends rounded up to the grid.
IntervalRoundedUp(g) ==
  IF g.steps = 0 THEN g.duration
  ELSE g.duration \div g.steps + (IF Wraps(g) THEN 1 ELSE 0)
       + (IF NextGrid(g) # 0 /\ g.grid = 0 THEN 1 ELSE 0)
IntervalOf(g) ==
  IF g.steps = 0 THEN g.duration
  ELSE g.duration \div g.steps + (IF Wraps(g) THEN 1 ELSE 0)
       + (IF NextGrid(g) # 0 /\ g.grid = 0 THEN 1 ELSE IF NextGrid(g) = 0 /\ g.grid # 0 THEN -1 ELSE 0)

\* step_stream_generator_convert_interval, before the division by NsPerSecond
Converted(g) == IntervalOf(g) * TimerClock + g.carry
TicksOf(g) == Converted(g) \div NsPerSecond

ShortestStepWithoutLow == Max({MinRecord, PulseTicks})
ShortestStep == Max({MinRecord, PulseTicks + LowTicks})

RecordCountOneMore(ticks) == ticks \div MaxRecord + 1
RecordCount(ticks) == RoundedUp(ticks, MaxRecord)
TooShort(g) ==
  LET ticks == TicksOf(g)
      longest == RoundedUp(ticks, RecordCount(ticks))
  IN \/ ticks = 0
     \/ ticks \div RecordCount(ticks) < MinRecord
     \/ g.steps # 0 /\ (ticks < ShortestStep \/ longest <= PulseTicks)

\* step_stream_generator_prepare_interval
Prepared(g) ==
  LET ticks == TicksOf(g) IN
  [g EXCEPT !.grid = NextGrid(g), !.carry = Converted(g) % NsPerSecond, !.done = g.done + 1,
            !.records = RecordCount(ticks), !.index = 0,
            !.base = ticks \div RecordCount(ticks), !.extra = ticks % RecordCount(ticks)]

AtInterval(g) == g.index = g.records
StreamIsDone(g) == AtInterval(g) /\ g.done = Intervals(g)

RecordOf(g) ==
  [ticks |-> g.base + (IF g.index < g.extra THEN 1 ELSE 0), pulse |-> g.steps # 0 /\ g.index = 0]

-----------------------------------------------------------------------------
(* The actions *)

\* step_stream_generator_init_from_block, with no carry or with that of the stream before.
Accepts(b, a) == b.master # 0 /\ b.rate # 0 /\ b.interval # 0 /\ Abs(b.delta[a]) <= b.master

Begins(carry) ==
  /\ \E b \in StreamBlocks, a \in PlannerAxes :
       Accepts(b, a) /\ generator' = StreamBegin(Abs(b.delta[a]), DurationOf(b), carry)
  /\ pulses' = 0 /\ pulseAt' = 0 /\ record' = [ticks |-> 0, pulse |-> FALSE]

BeginAlone == Begins(0) /\ firstCarry' = 0 /\ past' = 0 /\ given' = 0

\* get_carry of a stream that was not filled to its end begins another chain.
BeginAfterAnother ==
  /\ Begins(generator.carry)
  /\ IF StreamIsDone(generator)
     THEN past' = past + generator.duration /\ past' <= MaxChain /\ UNCHANGED <<given, firstCarry>>
     ELSE firstCarry' = generator.carry /\ past' = 0 /\ given' = 0

\* step_stream_generator_fill, one record of it.  Where an interval is too short it
\* returns an error and leaves the generator as it is.
Refuses(g) == AtInterval(g) /\ ~StreamIsDone(g) /\ TooShort(g)

Fill ==
  LET g == IF AtInterval(generator) THEN Prepared(generator) ELSE generator IN
  /\ ~StreamIsDone(generator) /\ ~Refuses(generator)
  /\ generator' = [g EXCEPT !.index = g.index + 1]
  /\ record' = RecordOf(g)
  /\ given' = given + RecordOf(g).ticks
  /\ IF RecordOf(g).pulse THEN pulses' = pulses + 1 /\ pulseAt' = given ELSE UNCHANGED <<pulses, pulseAt>>
  /\ UNCHANGED <<firstCarry, past>>

GeneratorInit ==
  /\ \E b \in StreamBlocks, a \in PlannerAxes :
       Accepts(b, a) /\ generator = StreamBegin(Abs(b.delta[a]), DurationOf(b), 0)
  /\ record = [ticks |-> 0, pulse |-> FALSE] /\ given = 0 /\ firstCarry = 0 /\ past = 0
  /\ pulses = 0 /\ pulseAt = 0

GeneratorNext == BeginAlone \/ BeginAfterAnother \/ Fill

GeneratorSpec == GeneratorInit /\ [][GeneratorNext]_generatorVars

-----------------------------------------------------------------------------
(* Properties *)

\* The tick of the chain at which the n-th interval of the stream is to end: its place on
\* the grid of nanoseconds rounded up, in ticks rounded down.
TickOf(n) ==
  ((past + RoundedUp(n * generator.duration, Intervals(generator))) * TimerClock + firstCarry) \div NsPerSecond
LengthOf(n) == TickOf(n) - TickOf(n - 1)

\* Every step begins at its tick, and a stream that ends has given all its steps and, with
\* the carry it leaves, the exact duration of all the streams of its chain: rounding never
\* adds up over steps, records or moves.
StreamKeepsTime ==
  /\ pulses > 0 => pulseAt = TickOf(pulses - 1)
  /\ StreamIsDone(generator) =>
       /\ pulses = generator.steps
       /\ given * NsPerSecond + generator.carry = (past + generator.duration) * TimerClock + firstCarry

\* Every record fits the timer and the DMA, one with a pulse is longer than the pulse, and
\* each step leaves the pin low for long enough before the next.
RecordsFit ==
  /\ record.ticks # 0 => record.ticks \in MinRecord .. MaxRecord
  /\ record.pulse => record.ticks > PulseTicks
  /\ \A n \in 1 .. pulses : LengthOf(n) >= PulseTicks + LowTicks

\* A stream is refused only where its next step, or the whole of an idle axis, has no room
\* for that: it is too short, or, with a configuration whose pulse or shortest record
\* is more than half of the longest one, too long for one record and too short for two.
RefusedForLackOfRoom ==
  Refuses(generator) =>
    LET length == LengthOf(generator.done + 1)
        moves == generator.steps # 0
    IN \/ length < MinRecord
       \/ moves /\ (length < PulseTicks + LowTicks \/ length <= PulseTicks)
       \/ length > MaxRecord /\ (2 * MinRecord > MaxRecord + 1 \/ (moves /\ 2 * PulseTicks > MaxRecord))

\* The test for room in an interval draws the line right on both sides: what passes is cut
\* into records that fit, and what it refuses has no room.
FitsOrIsRefused == RecordsFit /\ RefusedForLackOfRoom
=============================================================================
