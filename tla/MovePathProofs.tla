--------------------------- MODULE MovePathProofs ---------------------------
(***************************************************************************)
(* Proofs about the arithmetic of a move, for every calibration, position, *)
(* feedrate and size of the arithmetic.                                    *)
(*                                                                         *)
(* The segment generator: the error terms are the part of a step, and of a *)
(* nanosecond, that an axis is ahead of its last event.                    *)
(*                                                                         *)
(* The planner: its integer square root, its sum of squares and its        *)
(* largest number of steps are what their names say.  Each is a function   *)
(* defined by recursion; induction is by a smallest counterexample         *)
(* (Smallest), which needs no operator as a parameter.                     *)
(*                                                                         *)
(* The path: positions, motors and limits along any sequence of moves,     *)
(* homings and calibrations, and the planner's blocks as blocks of the     *)
(* generator.                                                              *)
(*                                                                         *)
(* The generator of step streams: the grid, the clock and the records of a *)
(* chain of streams.                                                       *)
(*                                                                         *)
(* The step stream: the halves of a buffer that its DMA has played.        *)
(***************************************************************************)
EXTENDS MovePath, StepStreamGenerator, StepStream, WellFoundedInduction, FiniteSetTheorems, TLAPS

-----------------------------------------------------------------------------
(* Arithmetic *)

LEMMA Division ==
  ASSUME NEW n \in Nat, NEW d \in Nat, d > 0
  PROVE  n \div d \in Nat /\ n % d \in 0 .. d - 1 /\ n = (n \div d) * d + (n % d)
BY SMT

\* An error term passes its threshold: one more of a whole, and the rest stays.
LEMMA OneMore ==
  ASSUME NEW k \in Nat, NEW s \in Nat, NEW e \in Nat, NEW m \in Nat, NEW r \in Nat,
         s <= m, r < m, r >= m - s, k * s = e * m + r
  PROVE  /\ (k + 1) * s = (e + 1) * m + (r - (m - s))
         /\ r - (m - s) \in Nat /\ (m > 0 => r - (m - s) < m)
BY SMT

LEMMA NoneMore ==
  ASSUME NEW k \in Nat, NEW s \in Nat, NEW e \in Nat, NEW m \in Nat, NEW r \in Nat,
         s <= m, r < m - s, k * s = e * m + r
  PROVE  /\ (k + 1) * s = e * m + (r + s)
         /\ r + s \in Nat /\ r + s < m
BY SMT

\* The same for a fraction of a whole number of units.
LEMMA Elapses ==
  ASSUME NEW k \in Nat, NEW n \in Nat, NEW t \in Nat, NEW d \in Nat, NEW r \in Nat, NEW q \in Nat, NEW c \in Nat,
         n = q * d + c, k * n = t * d + r
  PROVE  /\ (k + 1) * n = (t + q) * d + (r + c)
         /\ (k + 1) * n = (t + (q + 1)) * d + (r - (d - c))
<1>1. (k + 1) * n = k * n + n
  BY SMT
<1>2. (t + q) * d = t * d + q * d
  BY SMT
<1>3. (t + (q + 1)) * d = t * d + q * d + d
  BY SMT
<1> QED BY <1>1, <1>2, <1>3, SMT

LEMMA WholeBlock ==
  ASSUME NEW d \in Nat, NEW m \in Nat, NEW r \in Nat, NEW n \in Nat, r < m, m * d = n * m + r
  PROVE  n = d
BY SMT

\* A quotient and its remainder are the bounds of what is divided.
LEMMA Between ==
  ASSUME NEW x \in Nat, NEW n \in Nat, NEW m \in Nat, NEW r \in Nat, r < m, x = n * m + r
  PROVE  n * m <= x /\ x < (n + 1) * m
BY SMT

LEMMA MagnitudeType == ASSUME NEW v \in Int PROVE Magnitude(v) \in Nat /\ (Magnitude(v) = 0 <=> v = 0)
BY SMT DEF Magnitude

-----------------------------------------------------------------------------
(* The invariant *)

Spread ==
  block # NoBlock =>
    \A a \in Axes : error[a] < block.master /\ events * Magnitude(block.delta[a]) = moved[a] * block.master + error[a]

Timed == events * block.interval = elapsed * block.rate + accumulator

\* Before its first block the generator has made no step.
Resting == block = NoBlock => \A a \in Axes : moved[a] = 0

IInv == TypeOK /\ Spread /\ Timed /\ Resting /\ EventsAreValid

LEMMA ValidBlock ==
  ASSUME TypeOK, ~Done
  PROVE  /\ block \in Block /\ IsValid(block) /\ block # NoBlock
         /\ block.master \in Nat \ {0} /\ block.rate \in Nat \ {0} /\ block.interval \in Nat
         /\ block.delta \in [Axes -> Int] /\ events \in Nat /\ events < block.master
<1>1. block # NoBlock
  BY SMT DEF TypeOK, Done, NoBlock
<1> QED BY <1>1, SMT DEF TypeOK, Done, IsValid, Block

\* Before an event, at its start, and with a new block the sums are those of nothing.
LEMMA InitIInv == Init => IInv
<1> SUFFICES ASSUME Init PROVE IInv
  OBVIOUS
<1>1. TypeOK
  BY SMT DEF Init, TypeOK, Block, NoBlock
<1>2. Spread
  BY DEF Init, Spread
<1>3. Timed
  BY SMT DEF Init, Timed, NoBlock
<1>4. EventsAreValid
  BY SMT DEF Init, EventsAreValid
<1>5. Resting
  BY DEF Init, Resting
<1> QED BY <1>1, <1>2, <1>3, <1>4, <1>5 DEF IInv

LEMMA BeginIInv == ASSUME BeginNext PROVE IInv'
<1>1. /\ block' \in Block /\ IsValid(block') /\ events' = 0 /\ accumulator' = 0
      /\ error' = [a \in Axes |-> 0] /\ moved' = [a \in Axes |-> 0] /\ elapsed' = 0
      /\ interval' = 0 /\ stepMask' = {}
  BY DEF BeginNext, Begin, Blocks
<1>2. /\ block'.master \in Nat \ {0} /\ block'.rate \in Nat \ {0} /\ block'.interval \in Nat
      /\ block'.delta \in [Axes -> Int]
  BY <1>1, SMT DEF Block, IsValid
<1>3. TypeOK'
  BY <1>1, <1>2, SMT DEF TypeOK
<1>4. Spread'
  <2> SUFFICES ASSUME NEW a \in Axes
               PROVE  error'[a] < block'.master
                      /\ events' * Magnitude(block'.delta[a]) = moved'[a] * block'.master + error'[a]
    BY DEF Spread
  <2>1. Magnitude(block'.delta[a]) \in Nat
    BY <1>2, MagnitudeType
  <2> QED BY <1>1, <1>2, <2>1, SMT
<1>5. Timed'
  BY <1>1, <1>2, SMT DEF Timed
<1>6. EventsAreValid'
  BY <1>1, SMT DEF EventsAreValid
<1>7. Resting'
  BY <1>1 DEF Resting
<1> QED BY <1>3, <1>4, <1>5, <1>6, <1>7 DEF IInv

LEMMA EventTimes ==
  ASSUME IInv, NextEvent
  PROVE  interval' \in Nat \ {0} /\ accumulator' \in 0 .. block.rate - 1 /\ elapsed' \in Nat /\ Timed'
<1>1. /\ block.rate \in Nat \ {0} /\ block.interval \in Nat /\ block.interval >= block.rate
      /\ events \in Nat /\ elapsed \in Nat /\ accumulator \in 0 .. block.rate - 1
  BY ValidBlock, SMT DEF IInv, NextEvent, TypeOK, IsValid
<1>2. Base \in Nat /\ Remainder \in 0 .. block.rate - 1 /\ block.interval = Base * block.rate + Remainder
  BY <1>1, Division DEF Base, Remainder
<1>3. Base # 0
  BY <1>1, <1>2, SMT
<1>4. /\ (events + 1) * block.interval = (elapsed + Base) * block.rate + (accumulator + Remainder)
      /\ (events + 1) * block.interval
           = (elapsed + (Base + 1)) * block.rate + (accumulator - (block.rate - Remainder))
  BY <1>1, <1>2, Elapses, SMT DEF IInv, Timed
<1>5. events' = events + 1 /\ block' = block /\ elapsed' = elapsed + interval'
  BY DEF NextEvent
<1>6. CASE Carries
  <2>1. interval' = Base + 1 /\ accumulator' = accumulator - (block.rate - Remainder)
    BY <1>6 DEF NextEvent
  <2>2. accumulator' \in 0 .. block.rate - 1
    BY <1>1, <1>2, <1>6, <2>1, SMT DEF Carries
  <2> QED BY <1>1, <1>2, <1>4, <1>5, <2>1, <2>2, SMT DEF Timed
<1>7. CASE ~Carries
  <2>1. interval' = Base /\ accumulator' = accumulator + Remainder
    BY <1>7 DEF NextEvent
  <2>2. accumulator' \in 0 .. block.rate - 1
    BY <1>1, <1>2, <1>7, <2>1, SMT DEF Carries
  <2> QED BY <1>1, <1>2, <1>3, <1>4, <1>5, <2>1, <2>2, SMT DEF Timed
<1> QED BY <1>6, <1>7

LEMMA EventSpreads ==
  ASSUME IInv, NextEvent, NEW a \in Axes
  PROVE  /\ error'[a] \in Nat /\ moved'[a] \in Nat /\ error'[a] < block.master
         /\ events' * Magnitude(block.delta[a]) = moved'[a] * block.master + error'[a]
<1> DEFINE s == Magnitude(block.delta[a])
<1>1. /\ block.master \in Nat \ {0} /\ block.delta[a] \in Int /\ s \in Nat /\ s <= block.master
      /\ (s = 0 <=> block.delta[a] = 0)
      /\ events \in Nat /\ moved[a] \in Nat /\ error[a] \in Nat
  BY ValidBlock, MagnitudeType, SMT DEF IInv, NextEvent, TypeOK, IsValid
<1>2. error[a] < block.master /\ events * s = moved[a] * block.master + error[a]
  BY ValidBlock DEF IInv, NextEvent, Spread
<1>3. /\ events' = events + 1
      /\ error'[a] = IF Steps(a) THEN error[a] - Threshold(a) ELSE error[a] + s
      /\ moved'[a] = IF Steps(a) THEN moved[a] + 1 ELSE moved[a]
  BY DEF NextEvent, IInv, TypeOK
<1>4. Threshold(a) = block.master - s
  BY DEF Threshold
<1> HIDE DEF s
<1>5. CASE Steps(a)
  <2>1. error[a] >= block.master - s
    BY <1>4, <1>5 DEF Steps
  <2> QED BY <1>1, <1>2, <1>3, <1>4, <1>5, <2>1, OneMore, SMT DEF s
<1>6. CASE ~Steps(a)
  <2>1. error[a] < block.master - s
    BY <1>1, <1>2, <1>4, <1>6, SMT DEF Steps
  <2> QED BY <1>1, <1>2, <1>3, <1>6, <2>1, NoneMore, SMT DEF s
<1> QED BY <1>5, <1>6

\* The axis with the most steps has no threshold.
LEMMA EventSteps == ASSUME IInv, NextEvent PROVE stepMask' # {} /\ \A a \in stepMask' : block.delta[a] # 0
<1>1. PICK a \in Axes : Magnitude(block.delta[a]) = block.master
  BY ValidBlock DEF IInv, NextEvent, IsValid
<1>2. /\ block.master \in Nat \ {0} /\ block.delta[a] \in Int /\ error[a] \in Nat
  BY ValidBlock, SMT DEF IInv, NextEvent, TypeOK
<1>3. block.delta[a] # 0
  BY <1>1, <1>2, MagnitudeType, SMT
<1>4. Threshold(a) = 0
  BY <1>1, <1>2, SMT DEF Threshold
<1>5. Steps(a)
  BY <1>2, <1>3, <1>4, SMT DEF Steps
<1>6. stepMask' = {b \in Axes : Steps(b)}
  BY DEF NextEvent
<1>7. \A b \in stepMask' : block.delta[b] # 0
  BY <1>6 DEF Steps
<1> QED BY <1>5, <1>6, <1>7

LEMMA EventIInv == ASSUME IInv, NextEvent PROVE IInv'
<1>1. /\ block' = block /\ events' = events + 1 /\ elapsed' = elapsed + interval'
      /\ error' = [a \in Axes |-> error'[a]] /\ moved' = [a \in Axes |-> moved'[a]]
      /\ stepMask' \subseteq Axes
  BY DEF NextEvent
<1>2. TypeOK'
  <2>1. \A a \in Axes : error'[a] \in Nat /\ moved'[a] \in Nat
    BY EventSpreads
  <2>2. error' \in [Axes -> Nat] /\ moved' \in [Axes -> Nat]
    BY <1>1, <2>1
  <2>3. block \in Block /\ (block = NoBlock \/ IsValid(block))
    BY DEF IInv, TypeOK
  <2>4. events' \in 0 .. block.master
    BY <1>1, ValidBlock, SMT DEF IInv, NextEvent
  <2>5. interval' \in Nat /\ accumulator' \in 0 .. block.rate - 1 /\ elapsed' \in Nat
    BY EventTimes, SMT
  <2>6. IsValid(block)' = IsValid(block)
    BY <1>1 DEF IsValid
  <2> QED BY <1>1, <2>2, <2>3, <2>4, <2>5, <2>6 DEF TypeOK, NoBlock
<1>3. Spread'
  BY <1>1, EventSpreads DEF Spread
<1>4. EventsAreValid'
  BY <1>1, EventTimes, EventSteps, SMT DEF EventsAreValid
<1>5. Resting'
  BY <1>1, ValidBlock DEF IInv, NextEvent, Resting, NoBlock
<1> QED BY <1>2, <1>3, <1>4, <1>5, EventTimes DEF IInv

LEMMA StepIInv == IInv /\ [Next]_segmentVars => IInv'
<1> SUFFICES ASSUME IInv, [Next]_segmentVars PROVE IInv'
  OBVIOUS
<1>1. CASE NextEvent
  BY <1>1, EventIInv
<1>2. CASE BeginNext
  BY <1>2, BeginIInv
<1>3. CASE UNCHANGED segmentVars
  BY <1>3 DEF segmentVars, IInv, TypeOK, Spread, Timed, Resting, EventsAreValid, NoBlock, IsValid
<1> QED BY <1>1, <1>2, <1>3 DEF Next

LEMMA Invariance == Spec => []IInv
BY InitIInv, StepIInv, PTL DEF Spec

-----------------------------------------------------------------------------
(* What it implies *)

LEMMA IInvLine == IInv => StraightLine /\ EndsExactly
<1> SUFFICES ASSUME IInv PROVE StraightLine /\ EndsExactly
  OBVIOUS
<1>1. ASSUME block # NoBlock, NEW a \in Axes
      PROVE  /\ block.master \in Nat /\ Magnitude(block.delta[a]) \in Nat /\ events \in Nat
             /\ moved[a] \in Nat /\ error[a] \in Nat /\ error[a] < block.master
             /\ events * Magnitude(block.delta[a]) \in Nat
             /\ events * Magnitude(block.delta[a]) = moved[a] * block.master + error[a]
  <2>1. block.master \in Nat /\ block.delta[a] \in Int /\ events \in Nat /\ moved[a] \in Nat /\ error[a] \in Nat
    BY SMT DEF IInv, TypeOK, Block
  <2>2. Magnitude(block.delta[a]) \in Nat
    BY <2>1, MagnitudeType
  <2>3. events * Magnitude(block.delta[a]) \in Nat
    BY <2>1, <2>2, SMT
  <2> QED BY <1>1, <2>1, <2>2, <2>3 DEF IInv, Spread
<1>2. StraightLine
  BY <1>1, Between DEF StraightLine
<1>3. EndsExactly
  <2> SUFFICES ASSUME Done, NEW a \in Axes PROVE moved[a] = Magnitude(block.delta[a])
    BY DEF EndsExactly
  <2>1. CASE block = NoBlock
    <3>1. moved[a] = 0
      BY <2>1 DEF IInv, Resting
    <3>2. block.delta[a] = 0
      BY <2>1 DEF NoBlock
    <3> QED BY <3>1, <3>2, MagnitudeType, SMT DEF Magnitude
  <2>2. CASE block # NoBlock
    BY <1>1, <2>2, WholeBlock DEF Done
  <2> QED BY <2>1, <2>2
<1> QED BY <1>2, <1>3

LEMMA IInvTime == IInv => OnTime
<1> SUFFICES ASSUME IInv PROVE OnTime
  OBVIOUS
<1>1. /\ events \in Nat /\ block.interval \in Nat /\ elapsed \in Nat /\ block.rate \in Nat
      /\ accumulator \in Nat /\ accumulator < block.rate
  BY SMT DEF IInv, TypeOK, Block
<1>2. events * block.interval \in Nat
  BY <1>1, SMT
<1> QED BY <1>1, <1>2, Between DEF IInv, Timed, OnTime

-----------------------------------------------------------------------------

\* Every state of the generator has its type; in particular no error term outgrows the
\* block it divides.
THEOREM TypeInvariant == Spec => []TypeOK
<1>1. IInv => TypeOK
  BY DEF IInv
<1> QED BY <1>1, Invariance, PTL

\* Whatever the block, every axis keeps to the straight line within one step.
THEOREM KeepsTheLine == Spec => []StraightLine
BY IInvLine, Invariance, PTL

\* Whatever the block, every axis makes its steps, no more and no fewer.
THEOREM MakesEveryStep == Spec => []EndsExactly
BY IInvLine, Invariance, PTL

\* Whatever the rate, the events are within a nanosecond of it at any time.
THEOREM KeepsTime == Spec => []OnTime
BY IInvTime, Invariance, PTL

\* The two late checks of next(), which would drop an event half played, never fail.
THEOREM EventsStayValid == Spec => []EventsAreValid
<1>1. IInv => EventsAreValid
  BY DEF IInv
<1> QED BY <1>1, Invariance, PTL

\* All of it together: the promises that MovePath relies on for the planner's blocks hold
\* for every block that init() accepts.
THEOREM PlaysBlocksExactly == Spec => []BlockPlayedExactly
<1>1. IInv => BlockPlayedExactly
  BY IInvLine, IInvTime DEF IInv, BlockPlayedExactly
<1> QED BY <1>1, Invariance, PTL

\* A set of numbers has a smallest one: induction by the smallest counterexample.
LEMMA Smallest ==
  ASSUME NEW T, T \subseteq Nat, T # {}
  PROVE  \E x \in T : \A y \in T : x <= y
<1>1. PICK x \in T : \A y \in T : ~ (<<y, x>> \in OpToRel(<, Nat))
  BY WFMin, NatLessThanWellFounded
<1>2. \A y \in T : ~(y < x)
  BY <1>1 DEF OpToRel
<1> QED
  BY <1>2

\* A function that is defined from each number for the next exists.
Unrolled(f, S, first, step, k) ==
  f \in [0 .. k -> S] /\ f[0] = first /\ \A n \in 1 .. k : f[n] = step[n][f[n - 1]]

\* It is the smallest counterexample again: the function up to one number less can be extended.
LEMMA Unrolls ==
  ASSUME NEW S, NEW first \in S, NEW N \in Nat, NEW step \in [1 .. N -> [S -> S]]
  PROVE  \E f : Unrolled(f, S, first, step, N)
<1> DEFINE T == {k \in 0 .. N : ~ \E f : Unrolled(f, S, first, step, k)}
<1>1. ASSUME T # {} PROVE FALSE
  <2>1. T \subseteq Nat
    OBVIOUS
  <2>2. PICK k \in T : \A m \in T : k <= m
    <3> HIDE DEF T
    <3> QED
      BY <1>1, <2>1, Smallest
  <2>3. k \in 0 .. N /\ ~ \E f : Unrolled(f, S, first, step, k)
    OBVIOUS
  <2>4. \E f : Unrolled(f, S, first, step, 0)
    <3> DEFINE f == [n \in 0 .. 0 |-> first]
    <3>1. f \in [0 .. 0 -> S] /\ f[0] = first /\ 1 .. 0 = {}
      OBVIOUS
    <3> QED
      BY <3>1 DEF Unrolled
  <2>5. k # 0 /\ k - 1 \in 0 .. N /\ k \in Nat /\ k - 1 < k
    BY <2>3, <2>4
  <2>6. PICK f : Unrolled(f, S, first, step, k - 1)
    <3>1. k - 1 \notin T
      <4> HIDE DEF T
      <4> QED
        BY <2>2, <2>5
    <3> QED
      BY <2>5, <3>1
  <2> DEFINE g == [n \in 0 .. k |-> IF n = k THEN step[k][f[k - 1]] ELSE f[n]]
  <2>7. f \in [0 .. k - 1 -> S] /\ f[k - 1] \in S /\ f[0] = first
    BY <2>5, <2>6 DEF Unrolled
  <2>8. step[k][f[k - 1]] \in S
    <3>1. k \in 1 .. N
      BY <2>3, <2>5
    <3>2. step[k] \in [S -> S]
      BY <3>1
    <3> QED
      BY <2>7, <3>2
  <2>9. g \in [0 .. k -> S]
    <3>1. \A n \in 0 .. k : n # k => n \in 0 .. k - 1
      BY <2>5
    <3> QED
      BY <2>7, <2>8, <3>1
  <2>10. g[0] = first
    BY <2>5, <2>7
  <2>11. ASSUME NEW n \in 1 .. k PROVE g[n] = step[n][g[n - 1]]
    <3>1. n - 1 \in 0 .. k /\ n - 1 # k /\ n \in 0 .. k
      BY <2>5
    <3>2. g[n - 1] = f[n - 1]
      BY <3>1
    <3>3. CASE n = k
      BY <3>1, <3>2, <3>3
    <3>4. CASE n # k
      <4>1. n \in 1 .. k - 1
        BY <2>5, <3>4
      <4>2. f[n] = step[n][f[n - 1]]
        BY <2>6, <4>1 DEF Unrolled
      <4> QED
        BY <3>1, <3>2, <3>4, <4>2
    <3> QED
      BY <3>3, <3>4
  <2>12. Unrolled(g, S, first, step, k)
    <3> HIDE DEF g
    <3> QED
      BY <2>9, <2>10, <2>11 DEF Unrolled
  <2> QED
    BY <2>3, <2>12
<1>2. N \in 0 .. N
  OBVIOUS
<1>3. N \notin T
  <2> HIDE DEF T
  <2> QED
    BY <1>1
<1> QED
  BY <1>2, <1>3

\* FourTo is the powers of four: what the recursive definition says.
LEMMA FourToIs ==
  /\ FourTo[0] = 1
  /\ \A n \in 1 .. SqrtBits + 1 : FourTo[n] = 4 * FourTo[n - 1]
<1> DEFINE N == SqrtBits + 1
           step == [n \in 1 .. N |-> [x \in Int |-> 4 * x]]
<1>1. step \in [1 .. N -> [Int -> Int]] /\ N \in Nat
  BY PlannerAssumption
<1>2. PICK f : Unrolled(f, Int, 1, step, N)
  <2>1. 1 \in Int
    OBVIOUS
  <2> HIDE DEF N, step
  <2> QED
    BY <1>1, <2>1, Unrolls
<1>3. f = [n \in 0 .. SqrtBits + 1 |-> IF n = 0 THEN 1 ELSE 4 * f[n - 1]]
  <2>1. f \in [0 .. N -> Int] /\ f[0] = 1
    BY <1>2 DEF Unrolled
  <2>2. ASSUME NEW n \in 1 .. N PROVE f[n] = 4 * f[n - 1]
    <3>1. f[n] = step[n][f[n - 1]]
      BY <1>2 DEF Unrolled
    <3>2. n - 1 \in 0 .. N
      BY <1>1
    <3>3. f[n - 1] \in Int
      BY <2>1, <3>2
    <3> QED
      BY <3>1, <3>3
  <2>3. \A n \in 0 .. N : n = 0 \/ n \in 1 .. N
    BY <1>1
  <2> QED
    BY <2>1, <2>2, <2>3
<1>4. FourTo = [n \in 0 .. SqrtBits + 1 |-> IF n = 0 THEN 1 ELSE 4 * FourTo[n - 1]]
  BY <1>3 DEF FourTo
<1>5. 0 \in 0 .. SqrtBits + 1 /\ \A n \in 1 .. SqrtBits + 1 : n \in 0 .. SqrtBits + 1 /\ n # 0
  BY PlannerAssumption
<1> QED
  BY <1>4, <1>5

\* A power of four is one of a power of two.
Squared(n) == FourTo[n] \in Nat \ {0} /\ \E t \in Nat \ {0} : FourTo[n] = t * t

\* By a smallest counterexample, each of them is the square of a power of two.
LEMMA PowersAreSquares == \A n \in 0 .. SqrtBits + 1 : Squared(n)
<1> DEFINE T == {n \in 0 .. SqrtBits + 1 : ~Squared(n)}
<1>1. ASSUME T # {} PROVE FALSE
  <2>1. T \subseteq Nat
    OBVIOUS
  <2>2. PICK n \in T : \A m \in T : n <= m
    <3> HIDE DEF T
    <3> QED
      BY <1>1, <2>1, Smallest
  <2>3. n \in 0 .. SqrtBits + 1 /\ ~Squared(n)
    OBVIOUS
  <2>4. Squared(0)
    <3>1. FourTo[0] = 1 /\ 1 = 1 * 1 /\ 1 \in Nat \ {0}
      BY FourToIs
    <3> QED
      BY <3>1 DEF Squared
  <2>5. n \in 1 .. SqrtBits + 1 /\ n - 1 \in 0 .. SqrtBits + 1 /\ n - 1 < n
    BY <2>3, <2>4, PlannerAssumption
  <2>6. Squared(n - 1)
    <3>1. n - 1 \notin T
      <4> HIDE DEF T
      <4> QED
        BY <2>2, <2>5
    <3> QED
      BY <2>5, <3>1
  <2>7. PICK t \in Nat \ {0} : FourTo[n - 1] = t * t
    BY <2>6 DEF Squared
  <2>8. FourTo[n] = 4 * (t * t)
    BY <2>5, <2>7, FourToIs
  <2>9. 4 * (t * t) = (2 * t) * (2 * t) /\ 2 * t \in Nat \ {0} /\ 4 * (t * t) \in Nat \ {0}
    BY <2>7, SMT
  <2>10. Squared(n)
    BY <2>8, <2>9 DEF Squared
  <2> QED
    BY <2>3, <2>10
<1> QED
  BY <1>1

\* Two numbers with the same square are one.
LEMMA EqualSquares == ASSUME NEW a \in Nat, NEW b \in Nat, a * a = b * b PROVE a = b
<1>1. ASSUME NEW x \in Nat, NEW y \in Nat, x < y PROVE x * x < y * y
  <2>1. PICK c \in Nat : y = x + 1 + c
    <3>1. y - x - 1 \in Nat /\ y = x + 1 + (y - x - 1)
      BY <1>1, SMT
    <3> QED
      BY <3>1
  <2>2. y * y = x * x + 2 * (x * (1 + c)) + (1 + c) * (1 + c)
    BY <2>1, SMT
  <2>3. x * (1 + c) \in Nat /\ (1 + c) * (1 + c) \in Nat \ {0} /\ x * x \in Nat
    BY <2>1, SMT
  <2> QED
    BY <2>2, <2>3, SMT
<1>2. a * a \in Nat /\ b * b \in Nat
  BY SMT
<1>3. ~(a < b) /\ ~(b < a)
  BY <1>1, <1>2, SMT
<1> QED
  BY <1>3, SMT

\* What is left after a digit is the value without the square of the root so far; the field
\* root is that root, shifted by the digits to come.
Rooted(value, digits, bit) ==
  \E r \in Nat, t \in Nat \ {0} :
    /\ bit = t * t /\ digits.root = r * t /\ digits.left = value - r * r
    /\ digits.left \in Nat /\ digits.left < 2 * (r * t) + t * t

\* A round of the loop halves the scale of the root and keeps it the root of what it has taken off.
LEMMA DigitKeepsRoot ==
  ASSUME NEW value \in Nat, NEW digits, NEW bit, Squared(bit),
         bit \in 0 .. SqrtBits, Rooted(value, digits, FourTo[bit + 1])
  PROVE  Rooted(value, NextDigit(digits, FourTo[bit]), FourTo[bit])
<1>1. PICK u \in Nat \ {0} : FourTo[bit] = u * u
  BY DEF Squared
<1>2. PICK r \in Nat, t \in Nat \ {0} :
         /\ FourTo[bit + 1] = t * t /\ digits.root = r * t /\ digits.left = value - r * r
         /\ digits.left \in Nat /\ digits.left < 2 * (r * t) + t * t
  BY DEF Rooted
<1>3. t = 2 * u
  <2>1. bit + 1 \in 1 .. SqrtBits + 1 /\ (bit + 1) - 1 = bit
    BY PlannerAssumption
  <2>2. t * t = 4 * (u * u)
    BY <1>1, <1>2, <2>1, FourToIs
  <2>3. 4 * (u * u) = (2 * u) * (2 * u) /\ 2 * u \in Nat
    BY SMT
  <2> QED
    BY <2>2, <2>3, EqualSquares
<1> DEFINE p == r * u
           q == u * u
           s == r * r
<1>4. p \in Nat /\ q \in Nat \ {0} /\ s \in Nat /\ r * t = 2 * p /\ t * t = 4 * q
      /\ (r + u) * u = p + q /\ (r + u) * (r + u) = s + 2 * p + q /\ r + u \in Nat
  BY <1>3, SMT
<1>5. digits.root = 2 * p /\ digits.left = value - s /\ digits.left \in Nat
      /\ digits.left < 4 * p + 4 * q /\ FourTo[bit] = q
  <2> HIDE DEF p, q, s
  <2> QED
    BY <1>1, <1>2, <1>4, SMT DEF q, s
<1>6. CASE digits.left >= digits.root + FourTo[bit]
  <2> HIDE DEF p, q, s
  <2>1. NextDigit(digits, FourTo[bit]) = [left |-> digits.left - (digits.root + q), root |-> digits.root \div 2 + q]
    BY <1>5, <1>6 DEF NextDigit
  <2>2. digits.root \div 2 = p
    BY <1>4, <1>5, SMT
  <2> DEFINE d == NextDigit(digits, FourTo[bit])
  <2>3. d.root = p + q /\ d.left = digits.left - (2 * p + q)
    BY <1>5, <2>1, <2>2
  <2> HIDE DEF d
  <2>4. d.left = value - (s + 2 * p + q) /\ d.left \in Nat /\ d.left < 2 * (p + q) + q
    BY <1>4, <1>5, <1>6, <2>3, SMT
  <2>5. /\ FourTo[bit] = u * u /\ d.root = (r + u) * u /\ d.left = value - (r + u) * (r + u)
        /\ d.left \in Nat /\ d.left < 2 * ((r + u) * u) + u * u
    BY <1>1, <1>4, <2>3, <2>4 DEF q
  <2> QED
    BY <1>4, <2>5 DEF Rooted, d
<1>7. CASE ~(digits.left >= digits.root + FourTo[bit])
  <2> HIDE DEF p, q, s
  <2>1. NextDigit(digits, FourTo[bit]) = [left |-> digits.left, root |-> digits.root \div 2]
    BY <1>7 DEF NextDigit
  <2>2. digits.root \div 2 = p
    BY <1>4, <1>5, SMT
  <2> DEFINE d == NextDigit(digits, FourTo[bit])
  <2>3. d.root = p /\ d.left = digits.left
    BY <2>1, <2>2
  <2> HIDE DEF d
  <2>4. d.left < 2 * p + q
    BY <1>4, <1>5, <1>7, <2>3, SMT
  <2>5. /\ FourTo[bit] = u * u /\ d.root = r * u /\ d.left = value - r * r
        /\ d.left \in Nat /\ d.left < 2 * (r * u) + u * u
    BY <1>1, <1>5, <2>3, <2>4 DEF p, q, s
  <2> QED
    BY <2>5 DEF Rooted, d
<1> QED
  BY <1>6, <1>7

\* The root is the number whose square fits, for every value that the highest bit fits.
THEOREM SqrtIsRoot ==
  ASSUME NEW value \in Nat, value < FourTo[SqrtBits + 1]
  PROVE  /\ IntegerSqrt(value) \in Nat /\ IntegerSqrt(value) * IntegerSqrt(value) <= value
         /\ value < (IntegerSqrt(value) + 1) * (IntegerSqrt(value) + 1)
<1> DEFINE N == SqrtBits + 1
           Eq(f) == f = [n \in 0 .. SqrtBits + 1 |->
                           IF n = 0 THEN [left |-> value, root |-> 0]
                           ELSE NextDigit(f[n - 1], FourTo[SqrtBits + 1 - n])]
           D == [left : Int, root : Int]
           step == [n \in 1 .. N |-> [d \in D |-> NextDigit(d, FourTo[SqrtBits + 1 - n])]]
<1>1. N \in Nat /\ \A n \in 1 .. N : SqrtBits + 1 - n \in 0 .. SqrtBits /\ SqrtBits + 1 - n \in 0 .. SqrtBits + 1
  BY PlannerAssumption
<1>2. \E f : Eq(f)
  <2>1. \A n \in 1 .. N, d \in D : NextDigit(d, FourTo[SqrtBits + 1 - n]) \in D
    <3> SUFFICES ASSUME NEW n \in 1 .. N, NEW d \in D
                 PROVE  NextDigit(d, FourTo[SqrtBits + 1 - n]) \in D
      OBVIOUS
    <3>1. FourTo[SqrtBits + 1 - n] \in Int
      BY <1>1, PowersAreSquares DEF Squared
    <3> DEFINE b == FourTo[SqrtBits + 1 - n]
    <3> HIDE DEF b
    <3>2. d.left - (d.root + b) \in Int /\ d.root \div 2 + b \in Int /\ d.root \div 2 \in Int /\ d.left \in Int
      BY <3>1 DEF b
    <3> QED
      BY <3>2 DEF NextDigit, b
  <2>2. step \in [1 .. N -> [D -> D]] /\ [left |-> value, root |-> 0] \in D
    BY <2>1
  <2>3. PICK f : Unrolled(f, D, [left |-> value, root |-> 0], step, N)
    <3> HIDE DEF N, step, D
    <3> QED
      BY <1>1, <2>2, Unrolls
  <2>4. Eq(f)
    <3>1. f \in [0 .. N -> D] /\ f[0] = [left |-> value, root |-> 0]
      BY <2>3 DEF Unrolled
    <3>2. ASSUME NEW n \in 1 .. N PROVE f[n] = NextDigit(f[n - 1], FourTo[SqrtBits + 1 - n])
      <4>1. f[n] = step[n][f[n - 1]]
        BY <2>3 DEF Unrolled
      <4>2. n - 1 \in 0 .. N
        BY <1>1
      <4>3. f[n - 1] \in D
        BY <3>1, <4>2
      <4> QED
        BY <4>1, <4>3
    <3>3. \A n \in 0 .. N : n = 0 \/ n \in 1 .. N
      BY <1>1
    <3> QED
      BY <3>1, <3>2, <3>3
  <2> QED
    BY <2>4
<1> DEFINE A == CHOOSE f : Eq(f)
<1>3. Eq(A) /\ IntegerSqrt(value) = A[SqrtBits + 1].root
  BY <1>2 DEF IntegerSqrt
<1>4. /\ A[0] = [left |-> value, root |-> 0]
      /\ \A n \in 1 .. N : A[n] = NextDigit(A[n - 1], FourTo[SqrtBits + 1 - n])
  <2>1. 0 \in 0 .. SqrtBits + 1 /\ \A n \in 1 .. N : n \in 0 .. SqrtBits + 1 /\ n # 0
    BY <1>1
  <2> HIDE DEF A
  <2> QED
    BY <1>3, <2>1
<1> HIDE DEF A
<1> DEFINE T == {n \in 0 .. N : ~Rooted(value, A[n], FourTo[N - n])}
<1>5. ASSUME T # {} PROVE FALSE
  <2>1. T \subseteq Nat
    OBVIOUS
  <2>2. PICK n \in T : \A m \in T : n <= m
    <3> HIDE DEF T
    <3> QED
      BY <1>5, <2>1, Smallest
  <2>3. n \in 0 .. N /\ ~Rooted(value, A[n], FourTo[N - n])
    OBVIOUS
  <2>4. Rooted(value, A[0], FourTo[N - 0])
    <3>1. N - 0 = SqrtBits + 1 /\ N \in 0 .. SqrtBits + 1
      BY <1>1
    <3>2. PICK t \in Nat \ {0} : FourTo[N] = t * t
      BY <3>1, PowersAreSquares DEF Squared
    <3>3. A[0].root = 0 * t /\ A[0].left = value - 0 * 0 /\ A[0].left \in Nat /\ A[0].left < 2 * (0 * t) + t * t
      BY <1>4, <3>2, SMT
    <3> QED
      BY <3>1, <3>2, <3>3 DEF Rooted
  <2>5. n \in 1 .. N /\ n - 1 \in 0 .. N /\ n - 1 < n /\ N - n \in 0 .. SqrtBits /\ N - (n - 1) = (N - n) + 1
        /\ N - n \in 0 .. SqrtBits + 1
    <3>1. n # 0
      <4> SUFFICES ASSUME n = 0 PROVE FALSE
        OBVIOUS
      <4> QED
        BY <2>3, <2>4
    <3> QED
      BY <2>3, <3>1, PlannerAssumption
  <2>6. Rooted(value, A[n - 1], FourTo[(N - n) + 1])
    <3>1. n - 1 \notin T
      <4> HIDE DEF T
      <4> QED
        BY <2>2, <2>5
    <3> QED
      BY <2>5, <3>1
  <2>7. Rooted(value, NextDigit(A[n - 1], FourTo[N - n]), FourTo[N - n])
    BY <2>5, <2>6, PowersAreSquares, DigitKeepsRoot
  <2>8. A[n] = NextDigit(A[n - 1], FourTo[N - n])
    <3>1. A[n] = NextDigit(A[n - 1], FourTo[SqrtBits + 1 - n])
      BY <1>4, <2>5
    <3>2. SqrtBits + 1 - n = N - n
      BY <2>5, PlannerAssumption
    <3> QED
      BY <3>1, <3>2
  <2>9. Rooted(value, A[n], FourTo[N - n])
    BY <2>7, <2>8
  <2> QED
    BY <2>3, <2>9
<1>6. Rooted(value, A[N], FourTo[0])
  <2>1. N \in 0 .. N /\ N - N = 0
    BY <1>1
  <2>2. N \notin T
    <3> HIDE DEF T
    <3> QED
      BY <1>5
  <2> QED
    BY <2>1, <2>2
<1>7. PICK r \in Nat, t \in Nat \ {0} :
         /\ FourTo[0] = t * t /\ A[N].root = r * t /\ A[N].left = value - r * r
         /\ A[N].left \in Nat /\ A[N].left < 2 * (r * t) + t * t
  BY <1>6 DEF Rooted
<1>8. t = 1
  <2>1. t * t = 1 * 1
    BY <1>7, FourToIs
  <2> QED
    BY <2>1, EqualSquares
<1>9. IntegerSqrt(value) = r
  BY <1>3, <1>7, <1>8
<1>10. r * r <= value /\ value < (r + 1) * (r + 1)
  <2>1. r * r \in Nat /\ (r + 1) * (r + 1) = r * r + 2 * r + 1
    BY SMT
  <2>2. value - r * r \in Nat /\ value - r * r < 2 * r + 1
    BY <1>7, <1>8
  <2> QED
    BY <2>1, <2>2, SMT
<1> QED
  BY <1>9, <1>10

\* A finite set of numbers has a largest one.
LEMMA Largest ==
  ASSUME NEW S, S \subseteq Nat, S # {}, IsFiniteSet(S)
  PROVE  Max(S) \in S /\ \A y \in S : y <= Max(S)
<1> DEFINE Bounded(U) == \E x \in U : \A y \in U : x >= y
           T == {n \in Nat : \E U \in SUBSET Nat : /\ U # {} /\ IsFiniteSet(U) /\ Cardinality(U) = n
                                                  /\ ~Bounded(U)}
<1>1. ASSUME T # {} PROVE FALSE
  <2>1. T \subseteq Nat
    OBVIOUS
  <2>2. PICK n \in T : \A m \in T : n <= m
    <3> HIDE DEF T
    <3> QED
      BY <1>1, <2>1, Smallest
  <2>3. n \in Nat
    OBVIOUS
  <2>4. PICK U \in SUBSET Nat : U # {} /\ IsFiniteSet(U) /\ Cardinality(U) = n /\ ~Bounded(U)
    OBVIOUS
  <2>5. PICK x \in U : TRUE
    BY <2>4
  <2> DEFINE V == U \ {x}
  <2>6. V \in SUBSET Nat /\ IsFiniteSet(V) /\ Cardinality(V) = n - 1
    BY <2>4, <2>5, FS_RemoveElement
  <2>7. CASE V = {}
    <3>1. \A y \in U : y = x /\ x >= y
      BY <2>4, <2>5, <2>7
    <3> QED
      BY <2>4, <2>5, <3>1
  <2>8. CASE V # {}
    <3>1. Cardinality(V) \in Nat
      BY <2>6, FS_CardinalityType
    <3>2. n - 1 \notin T
      <4>1. n - 1 \in Nat /\ ~(n <= n - 1)
        BY <2>3, <2>6, <3>1
      <4> HIDE DEF T
      <4> QED
        BY <2>2, <4>1
    <3>3. Bounded(V)
      BY <2>6, <2>8, <3>1, <3>2
    <3>4. PICK z \in V : \A y \in V : z >= y
      BY <3>3
    <3>5. x \in Nat /\ z \in Nat /\ z \in U
      BY <2>4, <2>5
    <3>6. CASE z >= x
      <4>1. \A y \in U : z >= y
        BY <3>4, <3>6
      <4> QED
        BY <2>4, <3>5, <4>1
    <3>7. CASE x >= z
      <4>1. \A y \in U : x >= y
        <5> SUFFICES ASSUME NEW y \in U PROVE x >= y
          OBVIOUS
        <5>1. CASE y = x
          BY <3>5, <5>1
        <5>2. CASE y # x
          <6>1. z >= y /\ y \in Nat
            BY <2>4, <3>4, <5>2
          <6> QED
            BY <3>5, <3>7, <6>1
        <5> QED
          BY <5>1, <5>2
      <4> QED
        BY <2>4, <2>5, <4>1
    <3> QED
      BY <3>5, <3>6, <3>7
  <2> QED
    BY <2>7, <2>8
<1>2. Cardinality(S) \in Nat
  BY FS_CardinalityType
<1>3. Bounded(S)
  BY <1>1, <1>2
<1>4. PICK x \in S : \A y \in S : x >= y
  BY <1>3
<1>5. Max(S) \in S /\ \A y \in S : Max(S) >= y
  BY <1>4 DEF Max
<1>6. \A y \in S : y <= Max(S)
  <2> SUFFICES ASSUME NEW y \in S PROVE y <= Max(S)
    OBVIOUS
  <2>1. Max(S) >= y /\ y \in Nat /\ Max(S) \in Nat
    BY <1>5
  <2> QED
    BY <2>1
<1> QED
  BY <1>5, <1>6

\* The sum over a finite set, and what it says of its terms.
First(s) == CHOOSE x \in s : TRUE
Sums(f, S, t) == f = [s \in SUBSET S |-> IF s = {} THEN 0 ELSE t[First(s)] + f[s \ {First(s)}]]

\* The function of all partial sums exists, by the size of its sets.
LEMMA SumsExist ==
  ASSUME NEW S, IsFiniteSet(S), NEW t \in [S -> Nat]
  PROVE  \E f : Sums(f, S, t)
<1> DEFINE Upto(n) == {s \in SUBSET S : Cardinality(s) <= n}
           Eq(f, n) == /\ f \in [Upto(n) -> Nat]
                       /\ \A s \in Upto(n) : f[s] = IF s = {} THEN 0 ELSE t[First(s)] + f[s \ {First(s)}]
           T == {n \in Nat : ~ \E f : Eq(f, n)}
<1>1. \A s \in SUBSET S : IsFiniteSet(s) /\ Cardinality(s) \in Nat /\ (Cardinality(s) = 0 <=> s = {})
  BY FS_Subset, FS_CardinalityType, FS_EmptySet
<1>2. ASSUME NEW s \in SUBSET S, s # {}
      PROVE  /\ First(s) \in s /\ t[First(s)] \in Nat
             /\ s \ {First(s)} \in SUBSET S /\ Cardinality(s \ {First(s)}) = Cardinality(s) - 1
  <2>1. First(s) \in s
    BY <1>2 DEF First
  <2>2. IsFiniteSet(s)
    BY <1>1
  <2>3. Cardinality(s \ {First(s)}) = Cardinality(s) - 1
    BY <2>1, <2>2, FS_RemoveElement
  <2> QED
    BY <2>1, <2>3
<1>3. ASSUME T # {} PROVE FALSE
  <2>1. T \subseteq Nat
    OBVIOUS
  <2>2. PICK n \in T : \A m \in T : n <= m
    <3> HIDE DEF T
    <3> QED
      BY <1>3, <2>1, Smallest
  <2>3. n \in Nat /\ ~ \E f : Eq(f, n)
    OBVIOUS
  <2>4. n # 0
    <3> DEFINE f == [s \in Upto(0) |-> 0]
    <3>1. \A s \in Upto(0) : s = {}
      BY <1>1
    <3>2. Eq(f, 0)
      BY <3>1
    <3> HIDE DEF f, Eq
    <3> QED
      BY <2>3, <3>2
  <2>5. PICK f : Eq(f, n - 1)
    <3>1. n - 1 \in Nat /\ ~(n <= n - 1)
      BY <2>3, <2>4
    <3>2. n - 1 \notin T
      <4> HIDE DEF T
      <4> QED
        BY <2>2, <3>1
    <3> HIDE DEF Eq
    <3> QED
      BY <3>1, <3>2
  <2> DEFINE term(s) == t[First(s)] + f[s \ {First(s)}]
             g == [s \in Upto(n) |-> IF s = {} THEN 0 ELSE term(s)]
  <2>6. ASSUME NEW s \in Upto(n), s # {}
        PROVE  s \ {First(s)} \in Upto(n - 1) /\ s \ {First(s)} \in Upto(n) /\ term(s) \in Nat
    <3>1. /\ s \in SUBSET S /\ Cardinality(s) <= n /\ t[First(s)] \in Nat
          /\ s \ {First(s)} \in SUBSET S /\ Cardinality(s \ {First(s)}) = Cardinality(s) - 1
          /\ Cardinality(s) \in Nat
      BY <1>1, <1>2, <2>6
    <3>2. Cardinality(s) - 1 <= n - 1 /\ Cardinality(s) - 1 <= n
      BY <2>3, <3>1
    <3>3. s \ {First(s)} \in Upto(n - 1) /\ s \ {First(s)} \in Upto(n)
      BY <3>1, <3>2
    <3>4. f[s \ {First(s)}] \in Nat
      BY <2>5, <3>3
    <3> QED
      BY <3>1, <3>3, <3>4
  <2>7. g \in [Upto(n) -> Nat]
    BY <2>6
  <2>8. ASSUME NEW s \in Upto(n - 1) PROVE s \in Upto(n) /\ g[s] = f[s]
    <3>1. s \in Upto(n)
      <4>1. s \in SUBSET S /\ Cardinality(s) <= n - 1 /\ Cardinality(s) \in Nat
        BY <1>1
      <4> QED
        BY <2>3, <4>1
    <3>2. f[s] = IF s = {} THEN 0 ELSE term(s)
      BY <2>5
    <3> QED
      BY <3>1, <3>2
  <2>9. \A s \in Upto(n) : g[s] = IF s = {} THEN 0 ELSE t[First(s)] + g[s \ {First(s)}]
    BY <2>6, <2>8
  <2>10. Eq(g, n)
    <3> HIDE DEF g
    <3> QED
      BY <2>7, <2>9
  <2> HIDE DEF Eq, g
  <2> QED
    BY <2>3, <2>10
<1>4. Cardinality(S) \in Nat
  BY FS_CardinalityType
<1>5. PICK f : Eq(f, Cardinality(S))
  <2> HIDE DEF Eq
  <2> QED
    BY <1>3, <1>4
<1>6. Upto(Cardinality(S)) = SUBSET S
  BY FS_Subset
<1> QED
  BY <1>5, <1>6 DEF Sums

\* What sums like this comes out as a number at least as large as each term.
LEMMA SumsAreSums ==
  ASSUME NEW S, IsFiniteSet(S), NEW t \in [S -> Nat], NEW f, Sums(f, S, t)
  PROVE  f[S] \in Nat /\ \A a \in S : t[a] <= f[S]
<1> DEFINE Sum(s) == f[s] \in Nat /\ \A a \in s : t[a] <= f[s]
           T == {n \in Nat : \E s \in SUBSET S : Cardinality(s) = n /\ ~Sum(s)}
<1>1. \A s \in SUBSET S : IsFiniteSet(s) /\ Cardinality(s) \in Nat
  BY FS_Subset, FS_CardinalityType
<1>2. \A s \in SUBSET S : f[s] = IF s = {} THEN 0 ELSE t[First(s)] + f[s \ {First(s)}]
  BY DEF Sums
<1>3. ASSUME T # {} PROVE FALSE
  <2>1. T \subseteq Nat
    OBVIOUS
  <2>2. PICK n \in T : \A m \in T : n <= m
    <3> HIDE DEF T
    <3> QED
      BY <1>3, <2>1, Smallest
  <2>3. PICK s \in SUBSET S : Cardinality(s) = n /\ ~Sum(s)
    OBVIOUS
  <2>4. s # {}
    <3>1. f[{}] = 0
      BY <1>2
    <3>2. Sum({})
      BY <3>1
    <3> QED
      BY <2>3, <3>2
  <2> DEFINE x == First(s)
             r == s \ {x}
  <2>5. x \in s /\ r \in SUBSET S /\ t[x] \in Nat
    BY <2>3, <2>4 DEF First
  <2>6. Cardinality(r) = n - 1 /\ n - 1 \in Nat /\ n \in Nat
    <3>1. Cardinality(r) = Cardinality(s) - 1 /\ Cardinality(r) \in Nat /\ Cardinality(s) \in Nat
      BY <1>1, <2>3, <2>5, FS_RemoveElement
    <3> QED
      BY <2>3, <3>1
  <2>7. Sum(r)
    <3>1. n - 1 \notin T
      <4>1. ~(n <= n - 1)
        BY <2>6
      <4> HIDE DEF T
      <4> QED
        BY <2>2, <4>1
    <3> HIDE DEF Sum, r
    <3> QED
      BY <2>5, <2>6, <3>1
  <2>8. f[s] = t[x] + f[r]
    BY <1>2, <2>4
  <2>9. f[s] \in Nat /\ t[x] <= f[s] /\ f[r] <= f[s] /\ f[r] \in Nat
    BY <2>5, <2>7, <2>8
  <2>10. ASSUME NEW a \in s PROVE t[a] <= f[s]
    <3>1. CASE a = x
      BY <2>9, <3>1
    <3>2. CASE a # x
      <4>1. t[a] <= f[r] /\ t[a] \in Nat
        BY <2>7, <3>2
      <4> QED
        BY <2>9, <4>1
    <3> QED
      BY <3>1, <3>2
  <2> QED
    BY <2>3, <2>9, <2>10
<1>4. Cardinality(S) \in Nat /\ S \in SUBSET S
  BY FS_CardinalityType
<1> QED
  BY <1>3, <1>4

\* The square of the path is a number, and no axis goes further than the path.
LEMMA SquareSumIs ==
  ASSUME NEW start \in [PlannerAxes -> Int], NEW target \in [PlannerAxes -> Int]
  PROVE  /\ SquareSum(start, target) \in Nat
         /\ \A a \in PlannerAxes : (target[a] - start[a]) * (target[a] - start[a]) <= SquareSum(start, target)
<1> DEFINE S == PlannerAxes
           t == [a \in S |-> (target[a] - start[a]) * (target[a] - start[a])]
           Eq(f) == f = [s \in SUBSET S |->
                           IF s = {} THEN 0
                           ELSE (target[CHOOSE x \in s : TRUE] - start[CHOOSE x \in s : TRUE])
                                  * (target[CHOOSE x \in s : TRUE] - start[CHOOSE x \in s : TRUE])
                                + f[s \ {CHOOSE x \in s : TRUE}]]
           A == CHOOSE f : Eq(f)
<1>1. t \in [S -> Nat] /\ IsFiniteSet(S)
  <2>1. \A d \in Int : d * d \in Nat
    BY SMT
  <2>2. \A a \in S : target[a] - start[a] \in Int
    OBVIOUS
  <2> QED
    BY <2>1, <2>2, PlannerAssumption
<1>2. ASSUME NEW f PROVE Sums(f, S, t) <=> Eq(f)
  <2>1. \A s \in SUBSET S : s # {} => (CHOOSE x \in s : TRUE) \in S
    OBVIOUS
  <2> QED
    BY <2>1, Zenon DEF Sums, First
<1>3. SquareSum(start, target) = A[S]
  BY DEF SquareSum, MapThenSumSet, MapThenFoldSet
<1>4. PICK f : Sums(f, S, t)
  <2> HIDE DEF t
  <2> QED
    BY <1>1, SumsExist
<1>5. Eq(A)
  <2>1. Eq(f)
    BY <1>2, <1>4
  <2> HIDE DEF Eq
  <2> QED
    BY <2>1
<1>6. Sums(A, S, t)
  BY <1>2, <1>5
<1>7. A[S] \in Nat /\ \A a \in S : t[a] <= A[S]
  <2> HIDE DEF A, t
  <2> QED
    BY <1>1, <1>6, SumsAreSums
<1> QED
  BY <1>3, <1>7

\* There is one quotient with a remainder below the divisor.
LEMMA Quotient ==
  ASSUME NEW n \in Nat, NEW d \in Nat, NEW q \in Nat, NEW r \in Nat, r < d, n = q * d + r
  PROVE  n \div d = q /\ n % d = r
<1> DEFINE p == n \div d
           s == n % d
<1>1. p \in Nat /\ s \in 0 .. d - 1 /\ n = p * d + s
  BY Division, SMT
<1> HIDE DEF p, s
<1>2. ASSUME NEW a \in Nat, NEW b \in Nat, NEW k \in Nat, NEW l \in Nat, a < b, k < d, a * d + k = b * d + l
      PROVE  FALSE
  <2>1. PICK c \in Nat : b = a + 1 + c
    <3>1. b - a - 1 \in Nat /\ b = a + 1 + (b - a - 1)
      BY <1>2, SMT
    <3> QED
      BY <3>1
  <2>2. b * d = a * d + d + c * d /\ c * d >= 0 /\ a * d \in Int /\ c * d \in Int
    BY <1>2, <2>1, SMT
  <2> QED
    BY <1>2, <2>2, SMT
<1>3. p = q
  BY <1>1, <1>2, SMT
<1>4. s = r
  BY <1>1, <1>3, SMT
<1> QED
  BY <1>3, <1>4 DEF p, s


-----------------------------------------------------------------------------
(* The planner *)

\* A product without a common factor.
LEMMA Cancel ==
  ASSUME NEW a \in Nat, NEW b \in Nat, NEW c \in Nat \ {0}, a * c < b * c
  PROVE  a < b
<1>1. CASE a >= b
  <2>1. PICK d \in Nat : a = b + d
    <3>1. a - b \in Nat /\ a = b + (a - b)
      BY <1>1, SMT
    <3> QED
      BY <3>1
  <2>2. a * c = b * c + d * c /\ d * c \in Nat /\ b * c \in Nat
    BY <2>1, SMT
  <2> QED
    BY <2>2, SMT
<1> QED
  BY <1>1, SMT

\* Multiplication keeps the order.
LEMMA TimesMore ==
  ASSUME NEW a \in Nat, NEW b \in Nat, NEW c \in Nat, a <= b
  PROVE  a * c <= b * c /\ a * c \in Nat /\ b * c \in Nat
<1>1. PICK d \in Nat : b = a + d
  <2>1. b - a \in Nat /\ b = a + (b - a)
    BY SMT
  <2> QED
    BY <2>1
<1>2. b * c = a * c + d * c /\ d * c \in Nat /\ a * c \in Nat
  BY <1>1, SMT
<1> QED
  BY <1>2, SMT

\* What the ratio check lets pass is within the limit exactly, not only its whole part.
LEMMA WithinLimit ==
  ASSUME NEW n \in Nat, NEW d \in Nat \ {0}, NEW limit \in Nat, ~Exceeds(n, d, limit)
  PROVE  n <= limit * d
<1> DEFINE q == n \div d
           r == n % d
<1>1. q \in Nat /\ r \in 0 .. d - 1 /\ n = q * d + r
  BY Division, SMT
<1>2. q < limit \/ (q = limit /\ r = 0)
  BY <1>1, SMT DEF Exceeds
<1> HIDE DEF q, r
<1>3. CASE q < limit
  <2>1. (q + 1) * d <= limit * d /\ (q + 1) * d = q * d + d /\ limit * d \in Nat /\ q * d \in Nat
    BY <1>1, <1>3, TimesMore, SMT
  <2> QED
    BY <1>1, <2>1, SMT
<1>4. CASE q = limit /\ r = 0
  BY <1>1, <1>4, SMT
<1> QED
  BY <1>2, <1>3, <1>4

\* The planner's and the generator's absolute values are the same.
LEMMA AbsIs == ASSUME NEW v \in Int PROVE Abs(v) \in Nat /\ (Abs(v) = 0 <=> v = 0) /\ Abs(v) = Magnitude(v)
BY SMT DEF Abs, Magnitude

\* The limits and the ratio of an axis, whatever its calibration.
LEMMA AxisTypes ==
  ASSUME NEW c \in Calibrations
  PROVE  /\ AxisOf(c).numerator \in Nat \ {0} /\ AxisOf(c).denominator \in Nat \ {0}
         /\ AxisOf(c).speed \in Nat \ {0}
<1>1. /\ c.steps \in Nat \ {0} /\ c.distance \in Nat \ {0} /\ MaxStepRate * c.distance >= c.steps
      /\ MaxStepRate \in Nat
  BY PathAssumption, PlannerAssumption
<1> DEFINE n == MaxStepRate * c.distance
<1>2. n \in Nat /\ n >= c.steps
  BY <1>1, SMT
<1> HIDE DEF n
<1>3. n \div c.steps \in Nat \ {0}
  <2>1. n \div c.steps \in Nat /\ n % c.steps \in 0 .. c.steps - 1 /\ n = (n \div c.steps) * c.steps + (n % c.steps)
    BY <1>1, <1>2, Division
  <2>2. n \div c.steps # 0
    BY <1>1, <1>2, <2>1, SMT
  <2> QED
    BY <2>1, <2>2
<1> QED
  BY <1>1, <1>3 DEF AxisOf, n

\* A position is some number of steps, and the zero is none, whatever the calibration.
LEMMA StepsOfPosition ==
  ASSUME NEW p \in Int, NEW c \in Calibrations
  PROVE  PositionToSteps(p, AxisOf(c)) \in Int /\ PositionToSteps(0, AxisOf(c)) = 0
<1> DEFINE u == AxisOf(c).numerator
           d == AxisOf(c).denominator
<1>1. u \in Nat /\ d \in Nat \ {0}
  BY AxisTypes
<1> HIDE DEF u, d
<1>2. Abs(p) * u \in Nat /\ Abs(0) * u = 0 /\ d \div 2 \in Nat /\ d \div 2 < d
  BY <1>1, AbsIs, SMT
<1>3. (Abs(p) * u + d \div 2) \div d \in Nat
  BY <1>1, <1>2, Division, SMT
<1>4. (Abs(0) * u + d \div 2) \div d = 0
  <2>1. d \div 2 = 0 * d + d \div 2
    BY <1>1, <1>2, SMT
  <2>2. (d \div 2) \div d = 0
    BY <1>1, <1>2, <2>1, Quotient
  <2>3. Abs(0) * u + d \div 2 = d \div 2
    BY <1>1, <1>2, SMT
  <2> QED
    BY <2>2, <2>3
<1>5. PositionToSteps(p, AxisOf(c)) = IF p < 0 THEN -((Abs(p) * u + d \div 2) \div d) ELSE (Abs(p) * u + d \div 2) \div d
  BY DEF PositionToSteps, u, d
<1>6. PositionToSteps(0, AxisOf(c)) = (Abs(0) * u + d \div 2) \div d
  BY DEF PositionToSteps, u, d
<1> QED
  BY <1>3, <1>4, <1>5, <1>6, SMT

Configs == {AxisOf(c) : c \in Calibrations}

\* The path that is planned has a length, the whole part of its exact one.
LEMMA LengthIsExact ==
  ASSUME NEW start \in [Axes -> Int], NEW target \in [Axes -> Int], NEW feedrate \in Nat,
         NEW axes \in [Axes -> Configs], NEW homed, Plans(start, target, feedrate, axes, homed)
  PROVE  LET length == PathLength(start, target)
             square == SquareSum(start, target)
         IN /\ length \in Nat \ {0} /\ square \in Nat
            /\ length * length <= square /\ square < (length + 1) * (length + 1)
<1> DEFINE length == PathLength(start, target)
           square == SquareSum(start, target)
<1>1. PlannerAxes = Axes
  BY PathAssumption
<1>2. square \in Nat /\ \A a \in Axes : (target[a] - start[a]) * (target[a] - start[a]) <= square
  BY <1>1, SquareSumIs
<1>3. square < FourTo[SqrtBits + 1]
  BY DEF Plans
<1>4. length \in Nat /\ length * length <= square /\ square < (length + 1) * (length + 1)
  BY <1>2, <1>3, SqrtIsRoot DEF PathLength
<1>5. PICK a \in Axes : target[a] # start[a]
  BY <1>1 DEF Plans, Requested
<1>6. square # 0
  <2> DEFINE d == target[a] - start[a]
  <2>1. d \in Int /\ d # 0
    <3>1. target[a] \in Int /\ start[a] \in Int
      OBVIOUS
    <3> QED
      BY <1>5, <3>1, SMT
  <2>2. d * d <= square
    <3> HIDE DEF square
    <3> QED
      BY <1>2, Zenon
  <2> HIDE DEF d, square
  <2>3. d * d \in Nat /\ d * d # 0
    BY <2>1, SMT
  <2> QED
    BY <1>2, <2>2, <2>3, SMT
<1>7. length # 0
  <2> HIDE DEF length, square
  <2> QED
    BY <1>2, <1>4, <1>6, SMT
<1> QED
  BY <1>2, <1>4, <1>7

\* Every block that is planned is one that the generator accepts, and it keeps the limits.
LEMMA PlannedBlock ==
  ASSUME NEW start \in [Axes -> Int], NEW target \in [Axes -> Int], NEW feedrate \in Nat,
         NEW axes \in [Axes -> Configs], NEW homed, Plans(start, target, feedrate, axes, homed)
  PROVE  LET b == BlockOf(start, target, feedrate, axes)
             length == PathLength(start, target)
         IN /\ b \in Blocks /\ feedrate # 0
            /\ b.interval = length * NsPerSecond /\ b.rate = feedrate * b.master
            /\ b.rate <= MaxStepRate * length
            /\ \A a \in Axes :
                 /\ b.delta[a] = PositionToSteps(target[a], axes[a]) - PositionToSteps(start[a], axes[a])
                 /\ feedrate * Abs(target[a] - start[a]) <= axes[a].speed * length
<1> DEFINE b == BlockOf(start, target, feedrate, axes)
           length == PathLength(start, target)
           delta == DeltaOf(start, target, axes)
           sizes == {Abs(delta[a]) : a \in PlannerAxes}
<1>1. PlannerAxes = Axes /\ IsFiniteSet(Axes) /\ length \in Nat \ {0} /\ feedrate # 0
      /\ MaxStepRate \in Nat \ {0} /\ NsPerSecond \in Nat \ {0} /\ MaxStepRate <= NsPerSecond
  BY PathAssumption, PlannerAssumption, LengthIsExact DEF Plans
<1>2. ASSUME NEW a \in Axes
      PROVE  /\ delta[a] = PositionToSteps(target[a], axes[a]) - PositionToSteps(start[a], axes[a])
             /\ delta[a] \in Int /\ Abs(delta[a]) \in Nat /\ Abs(delta[a]) \in sizes /\ axes[a].speed \in Nat
  <2>1. PICK c \in Calibrations : axes[a] = AxisOf(c)
    BY DEF Configs
  <2>2. PositionToSteps(target[a], axes[a]) \in Int /\ PositionToSteps(start[a], axes[a]) \in Int
    BY <2>1, StepsOfPosition
  <2>3. delta[a] = PositionToSteps(target[a], axes[a]) - PositionToSteps(start[a], axes[a])
    BY <1>1 DEF DeltaOf
  <2>4. delta[a] \in Int
    BY <2>2, <2>3
  <2> QED
    BY <1>1, <2>1, <2>3, <2>4, AbsIs, AxisTypes
<1>3. delta \in [Axes -> Int]
  BY <1>1, <1>2 DEF DeltaOf
<1>4. PICK a0 \in Axes : delta[a0] # 0
  BY <1>1 DEF Plans, Moves
<1>5. sizes \subseteq Nat /\ sizes # {} /\ IsFiniteSet(sizes)
  <2>1. sizes \subseteq Nat /\ sizes # {}
    BY <1>1, <1>2, <1>4
  <2> DEFINE f == [a \in Axes |-> Abs(delta[a])]
  <2>2. f \in Surjection(Axes, sizes)
    <3>1. f \in [Axes -> sizes] /\ \A s \in sizes : \E a \in Axes : f[a] = s
      BY <1>1
    <3> HIDE DEF f, sizes
    <3> QED
      BY <3>1 DEF Surjection
  <2>3. IsFiniteSet(sizes)
    <3> HIDE DEF f, sizes
    <3> QED
      BY <1>1, <2>2, FS_Surjection
  <2> QED
    BY <2>1, <2>3
<1>6. Max(sizes) \in sizes /\ \A y \in sizes : y <= Max(sizes)
  <2> HIDE DEF sizes
  <2> QED
    BY <1>5, Largest
<1>7. b = [delta |-> delta, master |-> Max(sizes), rate |-> feedrate * Max(sizes), interval |-> length * NsPerSecond]
  BY DEF BlockOf
<1> DEFINE m == Max(sizes)
<1>8. /\ m \in Nat /\ m # 0 /\ \A a \in Axes : Abs(delta[a]) <= m
      /\ \E a \in Axes : Abs(delta[a]) = m
  <2>1. m \in Nat /\ \A a \in Axes : Abs(delta[a]) <= m
    BY <1>2, <1>5, <1>6
  <2>2. \E a \in Axes : Abs(delta[a]) = m
    BY <1>1, <1>6
  <2>3. Abs(delta[a0]) # 0 /\ Abs(delta[a0]) \in Nat /\ Abs(delta[a0]) <= m
    BY <1>2, <1>4, <2>1, AbsIs
  <2>4. m # 0
    <3> HIDE DEF m, delta
    <3> QED
      BY <2>1, <2>3, SMT
  <2> QED
    BY <2>1, <2>2, <2>4
<1>9. b.delta = delta /\ b.master = m /\ b.rate = feedrate * m /\ b.interval = length * NsPerSecond
  BY <1>7
<1>10. ~Exceeds(feedrate * m, length, MaxStepRate)
  BY <1>9 DEF Plans
<1> HIDE DEF b, length, delta, m
<1>11. feedrate * m \in Nat \ {0} /\ length * NsPerSecond \in Nat
  BY <1>1, <1>8, SMT
<1>12. feedrate * m <= MaxStepRate * length
  BY <1>1, <1>10, <1>11, WithinLimit
<1>13. feedrate * m <= length * NsPerSecond
  <2>1. MaxStepRate * length <= NsPerSecond * length
    BY <1>1, TimesMore
  <2> QED
    BY <1>1, <1>11, <1>12, <2>1, SMT
<1>14. b \in Blocks
  <2>1. b \in Block
    BY <1>3, <1>7, <1>8, <1>11 DEF Block, b, m, delta, length
  <2>2. \A a \in Axes : Magnitude(b.delta[a]) = Abs(delta[a])
    BY <1>2, <1>9, AbsIs
  <2>3. IsValid(b)
    BY <1>8, <1>9, <1>11, <1>13, <2>2 DEF IsValid
  <2> QED
    BY <2>1, <2>3 DEF Blocks
<1>15. ASSUME NEW a \in Axes
       PROVE  feedrate * Abs(target[a] - start[a]) <= axes[a].speed * length
  <2>1. target[a] - start[a] \in Int /\ axes[a].speed \in Nat
    BY <1>2
  <2>2. feedrate * Abs(target[a] - start[a]) \in Nat
    BY <2>1, AbsIs, SMT
  <2>3. CASE a \in Requested(start, target)
    <3>1. ~Exceeds(feedrate * Abs(target[a] - start[a]), length, axes[a].speed)
      BY <2>3 DEF Plans, length
    <3> QED
      BY <1>1, <2>1, <2>2, <3>1, WithinLimit
  <2>4. CASE a \notin Requested(start, target)
    <3>1. target[a] - start[a] = 0
      BY <1>1, <2>4 DEF Requested
    <3>2. Abs(target[a] - start[a]) = 0
      BY <3>1, AbsIs
    <3> QED
      BY <1>1, <2>1, <3>2, SMT
  <2> QED
    BY <2>3, <2>4
<1> QED
  BY <1>1, <1>2, <1>9, <1>12, <1>14, <1>15 DEF b, length, delta

-----------------------------------------------------------------------------
(* The path *)

PathTypeOK ==
  /\ position \in [Axes -> Int] /\ from \in [Axes -> Int] /\ motor \in [Axes -> Int]
  /\ homedAxes \subseteq Axes /\ axisConfig \in [Axes -> Configs]

\* The steps of the block that the motor of an axis has yet to make.
ToGo(a) ==
  IF block.delta[a] > 0 THEN Magnitude(block.delta[a]) - moved[a] ELSE moved[a] - Magnitude(block.delta[a])

\* At any time of a move, the motor of a homed axis will be where the position is.
MotorOK == \A a \in homedAxes : motor[a] + ToGo(a) = PositionToSteps(position[a], axisConfig[a])

\* A block keeps the limits along the path that its interval stands for.
LimitsOK ==
  block # NoBlock =>
    \E length \in Nat \ {0}, feedrate \in Nat \ {0} :
      /\ block.interval = length * NsPerSecond /\ block.rate = feedrate * block.master
      /\ block.rate <= MaxStepRate * length
      /\ \A a \in Axes : feedrate * Abs(position[a] - from[a]) <= axisConfig[a].speed * length

\* That path is the move's.
LengthOK ==
  ~Done =>
    LET length == block.interval \div NsPerSecond
        square == SquareSum(from, position)
    IN length * length <= square /\ square < (length + 1) * (length + 1)

\* No event comes too soon after the one before.
RateOK == events > 0 => MaxStepRate * (interval + 1) > NsPerSecond

PathIInv == IInv /\ PathTypeOK /\ MotorOK /\ LimitsOK /\ LengthOK /\ RateOK

LEMMA InitPath == PathInit => PathIInv
<1> SUFFICES ASSUME PathInit PROVE PathIInv
  OBVIOUS
<1>1. IInv
  BY InitIInv DEF PathInit
<1>2. PathTypeOK
  <2>1. [a \in Axes |-> 0] \in [Axes -> Int]
    OBVIOUS
  <2> QED
    BY <2>1 DEF PathInit, PathTypeOK, Configs
<1>3. MotorOK
  BY DEF PathInit, MotorOK
<1>4. Done /\ block = NoBlock /\ events = 0
  BY DEF PathInit, Init, Done, NoBlock
<1>5. LimitsOK /\ LengthOK
  BY <1>4 DEF LimitsOK, LengthOK
<1>6. RateOK
  BY <1>4, SMT DEF RateOK
<1> QED
  BY <1>1, <1>2, <1>3, <1>5, <1>6 DEF PathIInv

\* The same for the calibration that an axis has.
LEMMA ConfigTypes ==
  ASSUME PathTypeOK, NEW a \in Axes
  PROVE  /\ axisConfig[a].speed \in Nat \ {0}
         /\ \A p \in Int : PositionToSteps(p, axisConfig[a]) \in Int /\ PositionToSteps(0, axisConfig[a]) = 0
<1>1. PICK c \in Calibrations : axisConfig[a] = AxisOf(c)
  BY DEF PathTypeOK, Configs
<1> QED
  BY <1>1, AxisTypes, StepsOfPosition

\* What the generator's invariant says of the numbers of a block.
LEMMA SegmentTypes ==
  ASSUME IInv
  PROVE  /\ events \in Nat /\ elapsed \in Nat /\ interval \in Nat
         /\ block.interval \in Nat /\ block.rate \in Nat /\ block.master \in Nat
         /\ \A a \in Axes : moved[a] \in Nat /\ block.delta[a] \in Int /\ Magnitude(block.delta[a]) \in Nat
<1>1. /\ events \in Nat /\ elapsed \in Nat /\ interval \in Nat /\ block \in Block
      /\ moved \in [Axes -> Nat]
  BY SMT DEF IInv, TypeOK
<1>2. block.interval \in Nat /\ block.rate \in Nat /\ block.master \in Nat /\ block.delta \in [Axes -> Int]
  BY <1>1 DEF Block
<1> QED
  BY <1>1, <1>2, MagnitudeType

\* A block that is over has nothing to go.
LEMMA NothingToGo == ASSUME IInv, Done PROVE \A a \in Axes : ToGo(a) = 0
<1> SUFFICES ASSUME NEW a \in Axes PROVE ToGo(a) = 0
  OBVIOUS
<1>1. moved[a] = Magnitude(block.delta[a])
  BY IInvLine DEF EndsExactly
<1>2. moved[a] \in Nat
  BY SegmentTypes
<1> QED
  BY <1>1, <1>2, SMT DEF ToGo

\* The planner's block begins the generator anew.
LEMMA QueueMoveBegins ==
  ASSUME PathTypeOK, QueueMove
  PROVE  /\ BeginNext /\ block' # NoBlock
         /\ position' \in [Axes -> Int] /\ from' = position
         /\ UNCHANGED <<homedAxes, axisConfig, motor>>
         /\ LimitsOK' /\ LengthOK'
         /\ \A a \in Axes : block'.delta[a] = PositionToSteps(position'[a], axisConfig[a])
                                              - PositionToSteps(position[a], axisConfig[a])
<1>1. PICK target \in [Axes -> Targets], feedrate \in Feedrates :
         /\ Plans(position, target, feedrate, axisConfig, homedAxes \cap StreamAxes)
         /\ Begin(BlockOf(position, target, feedrate, axisConfig))
         /\ position' = target
  BY DEF QueueMove
<1>2. Done /\ from' = position /\ UNCHANGED <<homedAxes, axisConfig, motor>>
  BY DEF QueueMove
<1>3. position \in [Axes -> Int] /\ target \in [Axes -> Int] /\ feedrate \in Nat /\ axisConfig \in [Axes -> Configs]
  BY PathAssumption DEF PathTypeOK
<1> DEFINE b == BlockOf(position, target, feedrate, axisConfig)
           length == PathLength(position, target)
<1>4. /\ b \in Blocks /\ feedrate # 0
      /\ b.interval = length * NsPerSecond /\ b.rate = feedrate * b.master
      /\ b.rate <= MaxStepRate * length
      /\ \A a \in Axes :
           /\ b.delta[a] = PositionToSteps(target[a], axisConfig[a]) - PositionToSteps(position[a], axisConfig[a])
           /\ feedrate * Abs(target[a] - position[a]) <= axisConfig[a].speed * length
  BY <1>1, <1>3, PlannedBlock
<1>5. /\ length \in Nat \ {0} /\ SquareSum(position, target) \in Nat
      /\ length * length <= SquareSum(position, target)
      /\ SquareSum(position, target) < (length + 1) * (length + 1)
  BY <1>1, <1>3, LengthIsExact
<1>6. block' = b /\ events' = 0 /\ Begin(block')
  BY <1>1 DEF Begin
<1> HIDE DEF b, length
<1>7. BeginNext
  BY <1>2, <1>4, <1>6 DEF BeginNext
<1>8. block' # NoBlock
  BY <1>4, <1>6 DEF Blocks, IsValid, NoBlock
<1>9. LimitsOK'
  <2>1. /\ length \in Nat \ {0} /\ feedrate \in Nat \ {0}
        /\ block'.interval = length * NsPerSecond /\ block'.rate = feedrate * block'.master
        /\ block'.rate <= MaxStepRate * length
        /\ \A a \in Axes : feedrate * Abs(position'[a] - from'[a]) <= axisConfig'[a].speed * length
    BY <1>1, <1>2, <1>3, <1>4, <1>5, <1>6
  <2> QED
    BY <2>1 DEF LimitsOK
<1>10. LengthOK'
  <2>1. block'.interval \div NsPerSecond = length
    <3>1. NsPerSecond \in Nat /\ 0 < NsPerSecond
      BY PlannerAssumption
    <3>2. length * NsPerSecond = length * NsPerSecond + 0 /\ length * NsPerSecond \in Nat
      BY <1>5, <3>1, SMT
    <3>3. (length * NsPerSecond) \div NsPerSecond = length
      BY <1>5, <3>1, <3>2, Quotient
    <3> QED
      BY <1>4, <1>6, <3>3
  <2>2. SquareSum(from', position') = SquareSum(position, target)
    BY <1>1, <1>2
  <2>3. SquareSum(from, position)' = SquareSum(from', position')
    BY DEF SquareSum, MapThenSumSet, MapThenFoldSet
  <2> QED
    BY <1>5, <2>1, <2>2, <2>3 DEF LengthOK
<1> QED
  BY <1>1, <1>2, <1>3, <1>4, <1>6, <1>7, <1>8, <1>9, <1>10

LEMMA QueueMoveKeeps == ASSUME PathIInv, QueueMove PROVE PathIInv'
<1>1. /\ BeginNext /\ block' # NoBlock
      /\ position' \in [Axes -> Int] /\ from' = position
      /\ UNCHANGED <<homedAxes, axisConfig, motor>>
      /\ LimitsOK' /\ LengthOK'
      /\ \A a \in Axes : block'.delta[a] = PositionToSteps(position'[a], axisConfig[a])
                                           - PositionToSteps(position[a], axisConfig[a])
  BY QueueMoveBegins DEF PathIInv
<1>2. IInv'
  BY <1>1, BeginIInv
<1>3. PathTypeOK'
  BY <1>1 DEF PathIInv, PathTypeOK
<1>4. RateOK'
  <2>1. events' = 0
    BY <1>1 DEF BeginNext, Begin
  <2> QED
    BY <2>1, SMT DEF RateOK
<1>5. MotorOK'
  <2> SUFFICES ASSUME NEW a \in homedAxes'
               PROVE  motor'[a] + ToGo(a)' = PositionToSteps(position'[a], axisConfig'[a])
    BY DEF MotorOK
  <2>1. a \in homedAxes /\ a \in Axes /\ motor'[a] = motor[a] /\ axisConfig' = axisConfig
    BY <1>1 DEF PathIInv, PathTypeOK
  <2>2. Done /\ moved' = [i \in Axes |-> 0]
    BY <1>1 DEF BeginNext, Begin
  <2>3. motor[a] + 0 = PositionToSteps(position[a], axisConfig[a])
    BY <2>1, <2>2, NothingToGo DEF PathIInv, MotorOK
  <2> DEFINE p == PositionToSteps(position[a], axisConfig[a])
             q == PositionToSteps(position'[a], axisConfig[a])
             d == block'.delta[a]
  <2>4. p \in Int /\ q \in Int /\ motor[a] \in Int
    <3>1. position[a] \in Int /\ position'[a] \in Int /\ motor[a] \in Int
      BY <1>1, <2>1 DEF PathIInv, PathTypeOK
    <3> QED
      BY <2>1, <3>1, ConfigTypes DEF PathIInv
  <2>5. d = q - p
    BY <1>1, <2>1
  <2>6. ToGo(a)' = IF d > 0 THEN Magnitude(d) - 0 ELSE 0 - Magnitude(d)
    BY <2>1, <2>2 DEF ToGo, Magnitude
  <2> HIDE DEF p, q, d
  <2>7. ToGo(a)' = d
    BY <2>4, <2>5, <2>6, SMT DEF Magnitude
  <2>8. motor[a] + ToGo(a)' = q
    BY <2>3, <2>4, <2>5, <2>7, SMT DEF p
  <2> QED
    BY <2>1, <2>8 DEF q
<1> QED
  BY <1>1, <1>2, <1>3, <1>4, <1>5 DEF PathIInv

\* An event of a block comes as late as the highest step rate asks.
LEMMA EventKeepsRate == ASSUME IInv, LimitsOK, NextEvent PROVE RateOK'
<1>1. /\ block # NoBlock /\ block.rate \in Nat \ {0} /\ block.interval \in Nat
  BY ValidBlock DEF IInv, NextEvent
<1>2. PICK length \in Nat \ {0}, feedrate \in Nat \ {0} :
         block.interval = length * NsPerSecond /\ block.rate <= MaxStepRate * length
  BY <1>1 DEF LimitsOK
<1>3. Base \in Nat /\ Remainder \in 0 .. block.rate - 1 /\ block.interval = Base * block.rate + Remainder
  <2>1. block.interval \in Nat /\ block.rate \in Nat /\ block.rate > 0
    BY <1>1
  <2> QED
    BY <2>1, Division DEF Base, Remainder
<1>4. interval' = Base + 1 \/ interval' = Base
  BY DEF NextEvent
<1>5. NsPerSecond < MaxStepRate * (Base + 1)
  <2> DEFINE n == Base + 1
             r == block.rate
             k == MaxStepRate * length
  <2>1. n \in Nat /\ r \in Nat /\ k \in Nat /\ r <= k /\ NsPerSecond \in Nat /\ MaxStepRate \in Nat
    BY <1>1, <1>2, <1>3, PlannerAssumption, SMT
  <2>2. length * NsPerSecond < n * r
    <3>1. n * r = Base * r + r /\ Base * r \in Nat
      BY <1>1, <1>3, SMT
    <3> HIDE DEF n
    <3> QED
      BY <1>1, <1>2, <1>3, <3>1, SMT
  <2>3. r * n <= k * n
    <3> HIDE DEF n, r, k
    <3> QED
      BY <2>1, TimesMore
  <2>4. k * n = (MaxStepRate * n) * length
    <3> HIDE DEF n
    <3> QED
      BY <1>2, <2>1, SMT
  <2>5. NsPerSecond * length < (MaxStepRate * n) * length /\ MaxStepRate * n \in Nat
    <3>1. n * r = r * n /\ length * NsPerSecond = NsPerSecond * length /\ n * r \in Nat
          /\ NsPerSecond * length \in Nat /\ MaxStepRate * n \in Nat
      <4> HIDE DEF n, r, k
      <4> QED
        BY <1>2, <2>1, SMT
    <3>2. k * n \in Nat
      <4> HIDE DEF n, r, k
      <4> QED
        BY <2>1, SMT
    <3> HIDE DEF n, r, k
    <3> QED
      BY <2>2, <2>3, <2>4, <3>1, <3>2, SMT
  <2> HIDE DEF n, r, k
  <2>6. NsPerSecond < MaxStepRate * n
    BY <1>2, <2>1, <2>5, Cancel
  <2> QED
    BY <2>6 DEF n
<1>6. MaxStepRate * (interval' + 1) > NsPerSecond
  <2>1. MaxStepRate * (Base + 1 + 1) = MaxStepRate * (Base + 1) + MaxStepRate
        /\ MaxStepRate * (Base + 1) \in Nat /\ MaxStepRate \in Nat /\ NsPerSecond \in Nat
    BY <1>3, PlannerAssumption, SMT
  <2>2. CASE interval' = Base
    BY <1>5, <2>1, <2>2, SMT
  <2>3. CASE interval' = Base + 1
    BY <1>5, <2>1, <2>3, SMT
  <2> QED
    BY <1>4, <2>2, <2>3
<1> QED
  BY <1>6 DEF RateOK

LEMMA PlayEventKeeps == ASSUME PathIInv, PlayEvent PROVE PathIInv'
<1>1. /\ NextEvent /\ UNCHANGED <<position, homedAxes, axisConfig, from>>
      /\ motor' = [a \in Axes |->
                     IF a \in stepMask' THEN (IF block.delta[a] > 0 THEN motor[a] + 1 ELSE motor[a] - 1) ELSE motor[a]]
  BY DEF PlayEvent
<1>2. IInv' /\ block' = block /\ block # NoBlock
  BY <1>1, EventIInv, ValidBlock DEF PathIInv, IInv, NextEvent
<1>3. PathTypeOK'
  <2>1. \A a \in Axes : motor[a] \in Int
    BY DEF PathIInv, PathTypeOK
  <2>2. motor' \in [Axes -> Int]
    BY <1>1, <2>1
  <2> QED
    BY <1>1, <2>2 DEF PathIInv, PathTypeOK
<1>4. MotorOK'
  <2> SUFFICES ASSUME NEW a \in homedAxes
               PROVE  motor'[a] + ToGo(a)' = PositionToSteps(position[a], axisConfig[a])
    BY <1>1 DEF MotorOK
  <2>1. a \in Axes /\ motor[a] \in Int /\ moved[a] \in Nat /\ block.delta[a] \in Int
        /\ Magnitude(block.delta[a]) \in Nat
    BY SegmentTypes DEF PathIInv, PathTypeOK
  <2>2. motor[a] + ToGo(a) = PositionToSteps(position[a], axisConfig[a])
    BY DEF PathIInv, MotorOK
  <2>3. moved'[a] = IF Steps(a) THEN moved[a] + 1 ELSE moved[a]
    BY <1>1, <2>1 DEF NextEvent
  <2>4. a \in stepMask' <=> Steps(a)
    BY <1>1, <2>1 DEF NextEvent
  <2>5. motor'[a] = IF Steps(a) THEN (IF block.delta[a] > 0 THEN motor[a] + 1 ELSE motor[a] - 1) ELSE motor[a]
    BY <1>1, <2>1, <2>4
  <2>6. ToGo(a)' = IF block.delta[a] > 0 THEN Magnitude(block.delta[a]) - moved'[a]
                   ELSE moved'[a] - Magnitude(block.delta[a])
    BY <1>2 DEF ToGo, Magnitude
  <2>7. motor'[a] + ToGo(a)' = motor[a] + ToGo(a)
    <3>1. CASE Steps(a)
      BY <2>1, <2>3, <2>5, <2>6, <3>1, SMT DEF ToGo
    <3>2. CASE ~Steps(a)
      BY <2>1, <2>3, <2>5, <2>6, <3>2, SMT DEF ToGo
    <3> QED
      BY <3>1, <3>2
  <2> QED
    BY <2>2, <2>7
<1>5. LimitsOK'
  BY <1>1, <1>2 DEF PathIInv, LimitsOK, NoBlock
<1>6. LengthOK'
  <2>1. ~Done
    BY <1>1 DEF NextEvent
  <2>2. SquareSum(from, position)' = SquareSum(from, position)
    BY <1>1 DEF SquareSum, MapThenSumSet, MapThenFoldSet
  <2> QED
    BY <1>2, <2>1, <2>2 DEF PathIInv, LengthOK
<1>7. RateOK'
  BY <1>1, EventKeepsRate DEF PathIInv
<1> QED
  BY <1>2, <1>3, <1>4, <1>5, <1>6, <1>7 DEF PathIInv

\* What a homing and a calibration leave alone.
LEMMA SegmentStays ==
  ASSUME PathIInv, UNCHANGED segmentVars, Done
  PROVE  /\ IInv' /\ RateOK' /\ LengthOK' /\ Done' /\ \A a \in Axes : ToGo(a)' = 0
<1>1. IInv'
  BY DEF PathIInv, segmentVars, IInv, TypeOK, Spread, Timed, Resting, EventsAreValid, NoBlock, IsValid
<1>2. RateOK' /\ Done'
  BY DEF PathIInv, segmentVars, RateOK, Done
<1>3. LengthOK'
  BY <1>2 DEF LengthOK
<1>4. \A a \in Axes : ToGo(a)' = ToGo(a)
  BY DEF segmentVars, ToGo, Magnitude
<1> QED
  BY <1>1, <1>2, <1>3, <1>4, NothingToGo DEF PathIInv

LEMMA HomeCompleteKeeps == ASSUME PathIInv, HomeComplete PROVE PathIInv'
<1>1. PICK h \in Axes :
         /\ homedAxes' = homedAxes \cup {h}
         /\ position' = [position EXCEPT ![h] = 0] /\ motor' = [motor EXCEPT ![h] = 0]
         /\ from' = [from EXCEPT ![h] = 0]
  BY DEF HomeComplete
<1>2. Done /\ UNCHANGED segmentVars /\ UNCHANGED axisConfig /\ block' = block
  BY DEF HomeComplete, segmentVars
<1>3. IInv' /\ RateOK' /\ LengthOK' /\ \A a \in Axes : ToGo(a)' = 0
  BY <1>2, SegmentStays
<1>4. PathTypeOK'
  BY <1>1, <1>2 DEF PathIInv, PathTypeOK
<1>5. MotorOK'
  <2> SUFFICES ASSUME NEW a \in homedAxes'
               PROVE  motor'[a] + ToGo(a)' = PositionToSteps(position'[a], axisConfig[a])
    BY <1>2 DEF MotorOK
  <2>1. a \in Axes /\ ToGo(a)' = 0 /\ ToGo(a) = 0
    BY <1>1, <1>2, <1>3, NothingToGo DEF PathIInv, PathTypeOK
  <2>2. CASE a = h
    <3>1. motor'[a] = 0 /\ position'[a] = 0
      BY <1>1, <2>2 DEF PathIInv, PathTypeOK
    <3>2. PositionToSteps(0, axisConfig[a]) = 0
      BY <2>1, ConfigTypes DEF PathIInv
    <3> QED
      BY <2>1, <3>1, <3>2
  <2>3. CASE a # h
    <3>1. motor'[a] = motor[a] /\ position'[a] = position[a] /\ a \in homedAxes
      BY <1>1, <2>1, <2>3 DEF PathIInv, PathTypeOK
    <3>2. motor[a] + 0 = PositionToSteps(position[a], axisConfig[a])
      BY <2>1, <3>1 DEF PathIInv, MotorOK
    <3> QED
      BY <2>1, <3>1, <3>2
  <2> QED
    BY <2>2, <2>3
<1>6. LimitsOK'
  <2> SUFFICES ASSUME block # NoBlock
               PROVE  \E length \in Nat \ {0}, feedrate \in Nat \ {0} :
                        /\ block.interval = length * NsPerSecond /\ block.rate = feedrate * block.master
                        /\ block.rate <= MaxStepRate * length
                        /\ \A a \in Axes : feedrate * Abs(position'[a] - from'[a]) <= axisConfig[a].speed * length
    BY <1>2 DEF LimitsOK, NoBlock
  <2>1. PICK length \in Nat \ {0}, feedrate \in Nat \ {0} :
           /\ block.interval = length * NsPerSecond /\ block.rate = feedrate * block.master
           /\ block.rate <= MaxStepRate * length
           /\ \A a \in Axes : feedrate * Abs(position[a] - from[a]) <= axisConfig[a].speed * length
    BY DEF PathIInv, LimitsOK
  <2>2. ASSUME NEW a \in Axes PROVE feedrate * Abs(position'[a] - from'[a]) <= axisConfig[a].speed * length
    <3>1. CASE a = h
      <4>1. position'[a] = 0 /\ from'[a] = 0
        BY <1>1, <3>1 DEF PathIInv, PathTypeOK
      <4>2. Abs(position'[a] - from'[a]) = 0
        BY <4>1, SMT DEF Abs
      <4>3. axisConfig[a].speed \in Nat
        BY ConfigTypes DEF PathIInv
      <4> QED
        BY <4>2, <4>3, SMT
    <3>2. CASE a # h
      <4>1. position'[a] = position[a] /\ from'[a] = from[a]
        BY <1>1, <3>2 DEF PathIInv, PathTypeOK
      <4> QED
        BY <2>1, <4>1
    <3> QED
      BY <3>1, <3>2
  <2> QED
    BY <2>1, <2>2
<1> QED
  BY <1>3, <1>4, <1>5, <1>6 DEF PathIInv

LEMMA ApplyCalibrationKeeps == ASSUME PathIInv, ApplyCalibration PROVE PathIInv'
<1>1. PICK h \in Axes, c \in Calibrations :
         axisConfig' = [axisConfig EXCEPT ![h] = AxisOf(c)] /\ homedAxes' = homedAxes \ {h}
  BY DEF ApplyCalibration, Unhomes
<1>2. Done /\ from' = position /\ UNCHANGED segmentVars /\ UNCHANGED <<position, motor>> /\ block' = block
  BY DEF ApplyCalibration, segmentVars
<1>3. IInv' /\ RateOK' /\ LengthOK' /\ \A a \in Axes : ToGo(a)' = 0
  BY <1>2, SegmentStays
<1>4. PathTypeOK'
  <2>1. AxisOf(c) \in Configs
    BY DEF Configs
  <2> QED
    BY <1>1, <1>2, <2>1 DEF PathIInv, PathTypeOK
<1>5. MotorOK'
  <2> SUFFICES ASSUME NEW a \in homedAxes'
               PROVE  motor[a] + ToGo(a)' = PositionToSteps(position[a], axisConfig'[a])
    BY <1>2 DEF MotorOK
  <2>1. a \in Axes /\ a \in homedAxes /\ a # h /\ axisConfig'[a] = axisConfig[a]
    BY <1>1 DEF PathIInv, PathTypeOK
  <2>2. ToGo(a)' = ToGo(a)
    BY <1>2, <1>3, <2>1, NothingToGo DEF PathIInv
  <2>3. motor[a] + ToGo(a) = PositionToSteps(position[a], axisConfig[a])
    BY <2>1 DEF PathIInv, MotorOK
  <2> QED
    BY <2>1, <2>2, <2>3
<1>6. LimitsOK'
  <2> SUFFICES ASSUME block # NoBlock
               PROVE  \E length \in Nat \ {0}, feedrate \in Nat \ {0} :
                        /\ block.interval = length * NsPerSecond /\ block.rate = feedrate * block.master
                        /\ block.rate <= MaxStepRate * length
                        /\ \A a \in Axes : feedrate * Abs(position'[a] - from'[a]) <= axisConfig'[a].speed * length
    BY <1>2 DEF LimitsOK, NoBlock
  <2>1. PICK length \in Nat \ {0}, feedrate \in Nat \ {0} :
           /\ block.interval = length * NsPerSecond /\ block.rate = feedrate * block.master
           /\ block.rate <= MaxStepRate * length
    BY DEF PathIInv, LimitsOK
  <2>2. ASSUME NEW a \in Axes PROVE feedrate * Abs(position'[a] - from'[a]) <= axisConfig'[a].speed * length
    <3>1. position'[a] - from'[a] = 0
      <4>1. position[a] \in Int /\ position'[a] = position[a] /\ from'[a] = position[a]
        BY <1>2 DEF PathIInv, PathTypeOK
      <4> QED
        BY <4>1, SMT
    <3>2. Abs(position'[a] - from'[a]) = 0
      BY <3>1, SMT DEF Abs
    <3>3. PICK d \in Calibrations : axisConfig'[a] = AxisOf(d)
      BY <1>4 DEF PathTypeOK, Configs
    <3>4. axisConfig'[a].speed \in Nat
      BY <3>3, AxisTypes
    <3> QED
      BY <3>2, <3>4, SMT
  <2> QED
    BY <2>1, <2>2
<1> QED
  BY <1>3, <1>4, <1>5, <1>6 DEF PathIInv

LEMMA PathStep == PathIInv /\ [PathNext]_pathVars => PathIInv'
<1> SUFFICES ASSUME PathIInv, [PathNext]_pathVars PROVE PathIInv'
  OBVIOUS
<1>1. CASE PathNext
  BY <1>1, QueueMoveKeeps, PlayEventKeeps, HomeCompleteKeeps, ApplyCalibrationKeeps DEF PathNext
<1>2. CASE UNCHANGED pathVars
  <2>1. UNCHANGED segmentVars /\ UNCHANGED <<position, homedAxes, axisConfig, motor, from>>
    BY <1>2 DEF pathVars
  <2>2. IInv' /\ RateOK'
    BY <2>1 DEF PathIInv, segmentVars, IInv, TypeOK, Spread, Timed, Resting, EventsAreValid, NoBlock, IsValid, RateOK
  <2>3. PathTypeOK' /\ MotorOK'
    BY <2>1 DEF PathIInv, PathTypeOK, MotorOK, ToGo, Magnitude, segmentVars
  <2>4. LimitsOK'
    BY <2>1 DEF PathIInv, LimitsOK, NoBlock, segmentVars
  <2>5. LengthOK'
    <3>1. SquareSum(from, position)' = SquareSum(from, position)
      BY <2>1 DEF SquareSum, MapThenSumSet, MapThenFoldSet
    <3> QED
      BY <2>1, <3>1 DEF PathIInv, LengthOK, Done, segmentVars
  <2> QED
    BY <2>2, <2>3, <2>4, <2>5 DEF PathIInv
<1> QED
  BY <1>1, <1>2

\* The invariant of the path holds after any sequence of its steps.
THEOREM PathInvariance == PathSpec => []PathIInv
BY InitPath, PathStep, PTL DEF PathSpec

\* Over the time of its events a move keeps the speed limit of every axis.
LEMMA TimeIsEnough ==
  ASSUME PathIInv, Done, block # NoBlock, NEW a \in Axes
  PROVE  Abs(position[a] - from[a]) * NsPerSecond < axisConfig[a].speed * (elapsed + 1)
<1>1. PICK length \in Nat \ {0}, feedrate \in Nat \ {0} :
         /\ block.interval = length * NsPerSecond /\ block.rate = feedrate * block.master
         /\ feedrate * Abs(position[a] - from[a]) <= axisConfig[a].speed * length
  BY DEF PathIInv, LimitsOK
<1> DEFINE m == block.master
           e == elapsed + 1
           v == axisConfig[a].speed
           d == Abs(position[a] - from[a])
           f == feedrate
           s == NsPerSecond
<1>2. m \in Nat \ {0} /\ e \in Nat /\ s \in Nat \ {0} /\ f \in Nat \ {0} /\ length \in Nat \ {0}
  <2>1. IsValid(block) /\ block.master \in Nat /\ elapsed \in Nat
    BY SegmentTypes DEF PathIInv, IInv, TypeOK
  <2> QED
    BY <2>1, PlannerAssumption, SMT DEF IsValid
<1>3. v \in Nat \ {0} /\ d \in Nat
  <2>1. position[a] - from[a] \in Int
    <3>1. position[a] \in Int /\ from[a] \in Int
      BY DEF PathIInv, PathTypeOK
    <3> QED
      BY <3>1, SMT
  <2> QED
    BY <2>1, ConfigTypes, AbsIs DEF PathIInv
<1>4. m * (length * s) < e * (f * m)
  BY <1>1, IInvTime DEF PathIInv, OnTime, Done
<1>5. f * d <= v * length
  BY <1>1
<1> HIDE DEF m, e, v, d, f, s
<1>6. length * s < e * f
  <2>1. m * (length * s) = (length * s) * m /\ e * (f * m) = (e * f) * m /\ length * s \in Nat /\ e * f \in Nat
    BY <1>2, SMT
  <2>2. (length * s) * m < (e * f) * m
    BY <1>4, <2>1
  <2> QED
    BY <1>2, <2>1, <2>2, Cancel
<1>7. (f * d) * s <= (v * length) * s
  BY <1>2, <1>3, <1>5, TimesMore, SMT
<1>8. (v * length) * s < (v * e) * f
  <2>1. PICK g \in Nat : e * f = length * s + 1 + g
    <3>1. length * s \in Nat /\ e * f \in Nat
      BY <1>2, SMT
    <3> DEFINE k == length * s
               l == e * f
    <3> HIDE DEF k, l
    <3>2. l - k - 1 \in Nat /\ l = k + 1 + (l - k - 1)
      BY <1>6, <3>1, SMT DEF k, l
    <3> QED
      BY <3>2 DEF k, l
  <2>2. (v * e) * f = v * (e * f) /\ (v * length) * s = v * (length * s) /\ length * s \in Nat
    BY <1>2, <1>3, SMT
  <2> DEFINE k == length * s
  <2>3. v * (k + 1 + g) = v * k + v + v * g /\ v * g \in Nat /\ v * k \in Nat
    <3>1. k \in Nat
      BY <2>2
    <3> HIDE DEF k
    <3> QED
      BY <1>3, <2>1, <3>1, SMT
  <2>4. (v * e) * f = v * k + v + v * g /\ (v * length) * s = v * k
    BY <2>1, <2>2, <2>3
  <2> HIDE DEF k
  <2> QED
    BY <1>3, <2>3, <2>4, SMT
<1>9. (d * s) * f < (v * e) * f /\ d * s \in Nat /\ v * e \in Nat
  <2>1. (f * d) * s = (d * s) * f /\ d * s \in Nat /\ v * e \in Nat /\ (f * d) * s \in Nat
        /\ (v * length) * s \in Nat /\ (v * e) * f \in Nat
    BY <1>2, <1>3, SMT
  <2> DEFINE x == (f * d) * s
             y == (v * length) * s
             z == (v * e) * f
  <2>2. x <= y /\ y < z /\ x \in Nat /\ y \in Nat /\ z \in Nat
    BY <1>7, <1>8, <2>1
  <2>3. x < z
    <3> HIDE DEF x, y, z
    <3> QED
      BY <2>2, SMT
  <2> QED
    BY <2>1, <2>3
<1>10. d * s < v * e
  BY <1>2, <1>9, Cancel
<1> QED
  BY <1>10 DEF d, s, v, e

-----------------------------------------------------------------------------

\* Whatever moves, homings and calibrations come in whatever order, and however the
\* positions round: between moves the motor of a homed axis is at the step of its position.
THEOREM MotorsNeverDrift == PathSpec => []NoDrift
<1>1. PathIInv => NoDrift
  <2> SUFFICES ASSUME PathIInv, Done, NEW a \in homedAxes
               PROVE  motor[a] = PositionToSteps(position[a], axisConfig[a])
    BY DEF NoDrift
  <2>1. a \in Axes /\ motor[a] \in Int
    BY DEF PathIInv, PathTypeOK
  <2>2. ToGo(a) = 0
    BY <2>1, NothingToGo DEF PathIInv
  <2>3. motor[a] + ToGo(a) = PositionToSteps(position[a], axisConfig[a])
    BY DEF PathIInv, MotorOK
  <2> QED
    BY <2>1, <2>2, <2>3, SMT
<1> QED
  BY <1>1, PathInvariance, PTL

\* The length of a path is the whole part of its exact one, a move takes the time that the
\* speed limits of its axes ask for, and no event comes sooner than the highest step rate.
THEOREM LimitsAreKept == PathSpec => []SpeedAsPlanned
<1>1. PathIInv => SpeedAsPlanned
  <2> SUFFICES ASSUME PathIInv PROVE SpeedAsPlanned
    OBVIOUS
  <2>1. SquareSum(from, position)
          = MapThenSumSet(LAMBDA a : (position[a] - from[a]) * (position[a] - from[a]), Axes)
    BY PathAssumption DEF SquareSum
  <2> QED
    BY <2>1, TimeIsEnough DEF SpeedAsPlanned, PathIInv, LengthOK, RateOK
<1> QED
  BY <1>1, PathInvariance, PTL

\* Every block of the planner is one that the generator accepts: the path is a behaviour of
\* the generator's specification, and its theorems hold of it.
THEOREM PathImplementsGenerator == PathSpec => GeneratorImplemented
<1>1. PathInit => Init
  BY DEF PathInit
<1>2. PathIInv /\ [PathNext]_pathVars => [Next]_segmentVars
  <2> SUFFICES ASSUME PathIInv, [PathNext]_pathVars PROVE [Next]_segmentVars
    OBVIOUS
  <2>1. CASE QueueMove
    BY <2>1, QueueMoveBegins DEF PathIInv, Next
  <2>2. CASE PlayEvent
    BY <2>2 DEF PlayEvent, Next
  <2>3. CASE HomeComplete \/ ApplyCalibration
    BY <2>3 DEF HomeComplete, ApplyCalibration
  <2>4. CASE UNCHANGED pathVars
    BY <2>4 DEF pathVars
  <2> QED
    BY <2>1, <2>2, <2>3, <2>4 DEF PathNext
<1> QED
  BY <1>1, <1>2, PathInvariance, PTL DEF PathSpec, Spec, GeneratorImplemented

\* What the assumption says of the sizes.
LEMMA Sizes ==
  /\ Burst \in Nat \ {0} /\ HalfRecords \in Nat \ {0} /\ Half \in Nat \ {0} /\ Total \in Nat
  /\ Records = 2 * HalfRecords /\ Half = HalfRecords * Burst /\ Total = 2 * Half
  /\ MaxWords \in Nat /\ Word \in Nat \ {0}
<1>1. HalfRecords \in Nat \ {0} /\ Records = 2 * HalfRecords /\ Burst \in Nat \ {0} /\ MaxWords \in Nat /\ Word \in Nat \ {0}
  BY StreamAssumption, SMT DEF HalfRecords
<1>2. Half = HalfRecords * Burst
  BY DEF Half
<1>3. Half \in Nat \ {0}
  BY <1>1, <1>2, SMT
<1>4. Total = Records * Burst
  BY DEF Total
<1>5. Total = 2 * Half
  BY <1>1, <1>2, <1>4, SMT
<1> QED
  BY <1>1, <1>2, <1>3, <1>5, SMT

\* Where the DMA is in the buffer: in a half, and so in a lap and in a record.
LEMMA PlaceInBuffer ==
  ASSUME NEW h \in Nat, NEW r \in Nat, r < Half
  PROVE  /\ (h * Half + r) \div Half = h /\ (h * Half + r) % Half = r
         /\ (h * Half + r) \div Total = h \div 2
         /\ (h * Half + r) % Total = (IF h % 2 = 0 THEN 0 ELSE Half) + r
         /\ (h * Half + r) \div Burst = h * HalfRecords + r \div Burst
         /\ r \div Burst \in Nat /\ r \div Burst < HalfRecords
<1> DEFINE w == h * Half + r
           b == IF h % 2 = 0 THEN 0 ELSE 1
           q == r \div Burst
           t == r % Burst
<1>1. w \in Nat
  BY Sizes, SMT
<1>2. w \div Half = h /\ w % Half = r
  BY <1>1, Sizes, Quotient
<1>3. h \div 2 \in Nat /\ b \in {0, 1} /\ h = 2 * (h \div 2) + b
  BY SMT
<1>4. w \div Total = h \div 2 /\ w % Total = b * Half + r
  <2>1. w = (h \div 2) * Total + (b * Half + r)
    <3> DEFINE k == h \div 2
    <3>1. k \in Nat /\ b \in {0, 1} /\ h = 2 * k + b
      BY <1>3
    <3> HIDE DEF k, b
    <3>2. h * Half = k * (2 * Half) + b * Half
      BY <3>1, Sizes, SMT
    <3>3. w = k * Total + b * Half + r
      BY <3>2, Sizes
    <3> QED
      BY <3>1, <3>3, Sizes, SMT DEF k
  <2>2. b * Half + r \in Nat /\ b * Half + r < Total
    BY <1>3, Sizes, SMT
  <2> DEFINE c == b * Half + r
  <2>3. c \in Nat /\ c < Total /\ w = (h \div 2) * Total + c
    BY <2>1, <2>2
  <2> HIDE DEF w, c
  <2>4. w \div Total = h \div 2 /\ w % Total = c
    BY <1>1, <1>3, <2>3, Sizes, Quotient
  <2> QED
    BY <2>4 DEF c
<1>5. q \in Nat /\ t \in 0 .. Burst - 1 /\ r = q * Burst + t
  BY Sizes, Division
<1>6. q < HalfRecords
  <2> HIDE DEF q, t
  <2>1. CASE q >= HalfRecords
    <3>1. PICK c \in Nat : q = HalfRecords + c
      <4>1. q - HalfRecords \in Nat /\ q = HalfRecords + (q - HalfRecords)
        BY <1>5, <2>1, Sizes, SMT
      <4> QED
        BY <4>1
    <3>2. q * Burst = Half + c * Burst /\ c * Burst >= 0
      BY <3>1, Sizes, SMT
    <3> QED
      BY <1>5, <3>1, <3>2, Sizes, SMT
  <2> QED
    BY <1>5, <2>1, Sizes, SMT
<1>7. w \div Burst = h * HalfRecords + q
  <2> HIDE DEF q, t
  <2>1. h * HalfRecords + q \in Nat
    BY <1>5, Sizes, SMT
  <2>2. h * Half = (h * HalfRecords) * Burst
    BY Sizes, SMT
  <2>3. (h * HalfRecords + q) * Burst = (h * HalfRecords) * Burst + q * Burst
    BY <1>5, Sizes, SMT
  <2>4. w = (h * HalfRecords + q) * Burst + t
    BY <1>5, <2>2, <2>3, Sizes, SMT
  <2> HIDE DEF w
  <2> QED
    BY <1>1, <1>5, <2>1, <2>4, Sizes, Quotient
<1>8. b * Half = IF h % 2 = 0 THEN 0 ELSE Half
  BY Sizes, SMT
<1> QED
  BY <1>2, <1>4, <1>5, <1>6, <1>7, <1>8

\* More records are no fewer steps, and a count of steps is one of its width.
LEMMA StepsGrow ==
  ASSUME NEW m \in Nat, NEW n \in Nat, m <= n
  PROVE  StepsOf(m) \in 0 .. Word - 1 /\ StepsOf(n) \in 0 .. Word - 1 /\ StepsOf(m) <= StepsOf(n)
BY Sizes, SMT DEF StepsOf, AtMost

\* What the reconstruction makes of the place of the DMA when the count of halves is right, ...
LEMMA CountIsRight ==
  ASSUME NEW h \in Nat, NEW r \in Nat, r < Half
  PROVE  StepsDone(h, Total - ((h * Half + r) % Total)) = StepsOf((h * Half + r) \div Burst)
<1> DEFINE w == h * Half + r
           ndtr == Total - (w % Total)
<1>1. w % Total = (IF h % 2 = 0 THEN 0 ELSE Half) + r /\ w \div Burst = h * HalfRecords + r \div Burst
  BY PlaceInBuffer
<1> HIDE DEF w
<1>2. CASE h % 2 = 0
  <2>1. ndtr = Total - r /\ ndtr >= Half
    BY <1>1, <1>2, Sizes, SMT
  <2>2. InHalf(h, ndtr) = r
    BY <1>2, <2>1, Sizes, SMT DEF InHalf
  <2> QED
    BY <1>1, <2>2 DEF StepsDone, w
<1>3. CASE h % 2 # 0
  <2>1. ndtr = Half - r /\ ndtr <= Half
    BY <1>1, <1>3, Sizes, SMT
  <2>2. InHalf(h, ndtr) = r
    BY <1>3, <2>1, Sizes, SMT DEF InHalf
  <2> QED
    BY <1>1, <2>2 DEF StepsDone, w
<1> QED
  BY <1>2, <1>3

\* ... when it is one short, ...
LEMMA CountIsShort ==
  ASSUME NEW h \in Nat, NEW r \in Nat, r < Half
  PROVE  StepsDone(h, Total - (((h + 1) * Half + r) % Total))
           = StepsOf(IF h % 2 = 0 /\ r # 0 THEN h * HalfRecords ELSE (h + 1) * HalfRecords)
<1> DEFINE ndtr == Total - (((h + 1) * Half + r) % Total)
<1>1. ((h + 1) * Half + r) % Total = (IF (h + 1) % 2 = 0 THEN 0 ELSE Half) + r
  BY PlaceInBuffer
<1>2. h * HalfRecords \in Nat /\ (h + 1) * HalfRecords = h * HalfRecords + HalfRecords
  BY Sizes, SMT
<1>3. 0 \div Burst = 0 /\ Half \div Burst = HalfRecords
  BY Sizes, Quotient, SMT
<1>4. CASE h % 2 = 0
  <2>1. ndtr = Half - r
    BY <1>1, <1>4, Sizes, SMT
  <2>2. InHalf(h, ndtr) = IF r = 0 THEN Half ELSE 0
    BY <1>4, <2>1, Sizes, SMT DEF InHalf
  <2> QED
    BY <1>2, <1>3, <1>4, <2>2, Sizes, SMT DEF StepsDone
<1>5. CASE h % 2 # 0
  <2>1. ndtr = Total - r
    BY <1>1, <1>5, Sizes, SMT
  <2>2. InHalf(h, ndtr) = Half
    BY <1>5, <2>1, Sizes, SMT DEF InHalf
  <2> QED
    BY <1>2, <1>3, <1>5, <2>2, Sizes, SMT DEF StepsDone
<1> QED
  BY <1>4, <1>5

\* ... and when it is one too many.
LEMMA CountIsLong ==
  ASSUME NEW h \in Nat, NEW r \in Nat, r < Half
  PROVE  StepsDone(h + 1, Total - ((h * Half + r) % Total))
           = StepsOf(IF h % 2 # 0 /\ r # 0 THEN (h + 1) * HalfRecords ELSE (h + 2) * HalfRecords)
<1> DEFINE ndtr == Total - ((h * Half + r) % Total)
<1>1. (h * Half + r) % Total = (IF h % 2 = 0 THEN 0 ELSE Half) + r
  BY PlaceInBuffer
<1>2. (h + 1) * HalfRecords \in Nat /\ (h + 2) * HalfRecords = (h + 1) * HalfRecords + HalfRecords
  BY Sizes, SMT
<1>3. 0 \div Burst = 0 /\ Half \div Burst = HalfRecords
  BY Sizes, Quotient, SMT
<1>4. CASE h % 2 = 0
  <2>1. ndtr = Total - r /\ (h + 1) % 2 # 0
    BY <1>1, <1>4, Sizes, SMT
  <2>2. InHalf(h + 1, ndtr) = Half
    BY <2>1, Sizes, SMT DEF InHalf
  <2> QED
    BY <1>2, <1>3, <1>4, <2>2, Sizes, SMT DEF StepsDone
<1>5. CASE h % 2 # 0
  <2>1. ndtr = Half - r /\ (h + 1) % 2 = 0
    BY <1>1, <1>5, Sizes, SMT
  <2>2. InHalf(h + 1, ndtr) = IF r = 0 THEN Half ELSE 0
    BY <2>1, Sizes, SMT DEF InHalf
  <2> QED
    BY <1>2, <1>3, <1>5, <2>2, Sizes, SMT DEF StepsDone
<1> QED
  BY <1>4, <1>5

\* Flags that are not set twice are counted once each.
LEMMA FlagsAddUp ==
  ASSUME NEW S \in SUBSET {"half", "full"}, NEW T \in SUBSET {"half", "full"}, S \cap T = {}
  PROVE  /\ Cardinality(S) \in Nat /\ Cardinality(T) \in Nat
         /\ Cardinality(S \union T) = Cardinality(S) + Cardinality(T)
<1>1. IsFiniteSet({"half", "full"})
  <2>1. IsFiniteSet({"half"}) /\ IsFiniteSet({"full"})
    BY FS_Singleton
  <2>2. IsFiniteSet({"half"} \union {"full"})
    BY <2>1, FS_Union
  <2>3. {"half", "full"} = {"half"} \union {"full"}
    OBVIOUS
  <2> QED
    BY <2>2, <2>3
<1>2. IsFiniteSet(S) /\ IsFiniteSet(T)
  BY <1>1, FS_Subset
<1>3. Cardinality(S) \in Nat /\ Cardinality(T) \in Nat
  BY <1>2, FS_CardinalityType
<1>4. Cardinality(S \intersect T) = 0
  BY FS_EmptySet
<1>5. Cardinality(S \union T) = Cardinality(S) + Cardinality(T) - Cardinality(S \intersect T)
  BY <1>2, FS_Union
<1> QED
  BY <1>3, <1>4, <1>5, SMT

\* A word sets a flag exactly when it ends a half.
LEMMA FlagAtTheHalf ==
  ASSUME NEW h \in Nat, NEW r \in Nat, r < Half
  PROVE  /\ Reached(h * Half + r) \subseteq {"half", "full"}
         /\ Cardinality(Reached(h * Half + r)) = IF r = 0 THEN 1 ELSE 0
<1> DEFINE w == h * Half + r
<1>1. w % Total = (IF h % 2 = 0 THEN 0 ELSE Half) + r
  BY PlaceInBuffer
<1> HIDE DEF w
<1>2. Reached(w) = {f \in {"half", "full"} : w % Total = (IF f = "half" THEN Half ELSE 0)}
  BY DEF Reached
<1>3. CASE r # 0
  <2>1. w % Total # 0 /\ w % Total # Half
    BY <1>1, <1>3, Sizes, SMT
  <2>2. Reached(w) = {}
    BY <1>2, <2>1
  <2> QED
    BY <1>3, <2>2, FS_EmptySet DEF w
<1>4. CASE r = 0
  <2>1. w % Total = (IF h % 2 = 0 THEN 0 ELSE Half) /\ Half # 0
    BY <1>1, <1>4, Sizes, SMT
  <2>2. Reached(w) = IF h % 2 = 0 THEN {"full"} ELSE {"half"}
    BY <1>2, <2>1
  <2> QED
    BY <1>4, <2>2, FS_Singleton DEF w
<1> QED
  BY <1>3, <1>4

-----------------------------------------------------------------------------
(* The invariant *)

\* Every half that was passed is counted once, by the interrupt or by a flag.
CountOK == streaming => completed + Cardinality(flags) = words \div Half

\* A flag is raised, read and cleared while the stream goes on; what is being cleared is set.
FlagsOK ==
  /\ ~streaming => flags = {} /\ busy = "nobody"
  /\ IF busy = "interrupt" THEN seen \subseteq flags ELSE seen = {}

\* A reader knows the half in which it read the flags, which is at most the one before.
ReaderOK == busy = "reader" => words = asked + since /\ since < Half /\ halves = asked \div Half

StreamIInv == StreamTypeOK /\ CountOK /\ FlagsOK /\ ReaderOK

\* A count below its width is not changed by it.
LEMMA Unwrapped == ASSUME NEW n \in Nat, n < Word PROVE n % Word = n
<1>1. n = 0 * Word + n /\ Word \in Nat
  BY Sizes, SMT
<1> QED
  BY <1>1, Quotient

\* The count of halves does not wrap, and one more does not either.
LEMMA HalvesFit ==
  ASSUME NEW w \in 0 .. MaxWords
  PROVE  /\ w \in Nat /\ w \div Half \in Nat /\ w % Half \in Nat /\ w % Half < Half
         /\ w = (w \div Half) * Half + (w % Half)
         /\ w \div Half < Word - 1
         /\ (w \div Half) % Word = w \div Half /\ (w \div Half + 1) % Word = w \div Half + 1
<1> DEFINE h == w \div Half
           r == w % Half
<1>1. w \in Nat /\ h \in Nat /\ r \in Nat /\ r < Half /\ w = h * Half + r
  BY Division, Sizes, SMT
<1>2. h < Word - 1
  <2> HIDE DEF h, r
  <2>1. CASE h >= Word - 1
    <3>1. PICK c \in Nat : h = (Word - 1) + c
      <4>1. h - (Word - 1) \in Nat /\ h = (Word - 1) + (h - (Word - 1))
        BY <1>1, <2>1, Sizes, SMT
      <4> QED
        BY <4>1
    <3>2. h * Half = (Word - 1) * Half + c * Half /\ c * Half >= 0 /\ (Word - 1) * Half \in Int
      BY <3>1, Sizes, SMT
    <3>3. w < (Word - 1) * Half
      BY LengthAssumption, Sizes, <1>1, <3>2, SMT
    <3> QED
      BY <1>1, <3>1, <3>2, <3>3, Sizes, SMT
  <2> QED
    BY <1>1, <2>1, Sizes, SMT
<1> HIDE DEF h
<1>3. h % Word = h /\ (h + 1) % Word = h + 1
  <2>1. h < Word /\ h + 1 \in Nat /\ h + 1 < Word
    BY <1>1, <1>2, Sizes, SMT
  <2> QED
    BY <1>1, <2>1, Unwrapped
<1> QED
  BY <1>1, <1>2, <1>3 DEF h

\* The numbers of a stream, in the form the arithmetic needs.
LEMMA StreamTypes ==
  ASSUME StreamTypeOK
  PROVE  /\ words \in 0 .. MaxWords /\ asked \in 0 .. MaxWords /\ words \in Nat /\ asked \in Nat
         /\ completed \in Nat /\ since \in Nat /\ halves \in Nat
         /\ flags \in SUBSET {"half", "full"} /\ seen \in SUBSET {"half", "full"}
BY Sizes, SMT DEF StreamTypeOK

\* What the flags and the interrupt have counted while the stream goes on.
LEMMA HalvesAre ==
  ASSUME StreamTypeOK, CountOK, streaming
  PROVE  Halves = words \div Half /\ Halves \in 0 .. Word - 1
<1>1. words \in 0 .. MaxWords
  BY StreamTypes
<1>2. words \div Half \in Nat /\ words \div Half < Word - 1 /\ (words \div Half) % Word = words \div Half
  BY <1>1, HalvesFit
<1>3. Halves = words \div Half
  BY <1>2 DEF CountOK, Halves
<1> QED
  BY <1>2, <1>3, Sizes, SMT

\* The steps done fit their width whatever is read.
LEMMA StepsAreTyped ==
  ASSUME NEW h \in Nat, NEW n \in Int, 0 <= n, n <= Total
  PROVE  StepsDone(h, n) \in 0 .. Word - 1
<1>1. InHalf(h, n) \in Nat
  BY Sizes, SMT DEF InHalf
<1>2. h * HalfRecords + InHalf(h, n) \div Burst \in Nat
  <2>1. InHalf(h, n) \div Burst \in Nat
    BY <1>1, Sizes, Division
  <2>2. h * HalfRecords \in Nat
    BY Sizes, SMT
  <2> QED
    BY <2>1, <2>2, SMT
<1> QED
  BY <1>2, StepsGrow DEF StepsDone

\* The counter is at most the words of the buffer.
LEMMA NdtrType == ASSUME StreamTypeOK PROVE Ndtr \in Int /\ 0 <= Ndtr /\ Ndtr <= Total
<1>1. words \in Nat
  BY StreamTypes
<1>2. words % Total \in 0 .. Total - 1
  BY <1>1, Sizes, Division
<1> QED
  BY <1>2, Sizes, SMT DEF Ndtr

LEMMA InitStream == StreamInit => StreamIInv
<1> SUFFICES ASSUME StreamInit PROVE StreamIInv
  OBVIOUS
<1>1. StreamTypeOK
  <2>1. 0 \in 0 .. MaxWords /\ 0 \in 0 .. Word - 1 /\ 0 \in 0 .. Half
    BY Sizes, SMT
  <2> QED
    BY <2>1 DEF StreamInit, StreamTypeOK
<1>2. CountOK /\ FlagsOK /\ ReaderOK
  BY DEF StreamInit, CountOK, FlagsOK, ReaderOK
<1> QED
  BY <1>1, <1>2 DEF StreamIInv

LEMMA TransferKeeps == ASSUME StreamIInv, Transfer PROVE StreamIInv'
<1> DEFINE h == words \div Half
           r == words % Half
<1>1. /\ words \in Nat /\ h \in Nat /\ r \in Nat /\ r < Half /\ words = h * Half + r
  <2>1. words \in 0 .. MaxWords
    BY StreamTypes DEF StreamIInv
  <2> QED
    BY <2>1, HalvesFit
<1>2. /\ streaming /\ words' = words + 1 /\ words' <= MaxWords /\ flags' = flags \cup Reached(words + 1)
      /\ Reached(words + 1) \cap flags = {}
      /\ UNCHANGED <<streaming, completed, lastDone, busy, seen, halves, reported, asked, spurious>>
      /\ since' = (IF busy = "reader" THEN since + 1 ELSE since)
      /\ busy = "reader" => since < Half - 1
  BY <1>1, Sizes, SMT DEF Transfer, InTime, StreamIInv, StreamTypeOK
<1>3. /\ flags \in SUBSET {"half", "full"} /\ completed \in Nat /\ since \in Nat /\ since <= Half /\ asked \in Nat
  BY StreamTypes, Sizes, SMT DEF StreamIInv, StreamTypeOK
<1>4. PICK i \in Nat, s \in Nat : /\ words + 1 = i * Half + s /\ s < Half
                                  /\ i = h + (IF s = 0 THEN 1 ELSE 0)
  <2> HIDE DEF h, r
  <2>1. CASE r < Half - 1
    <3>1. words + 1 = h * Half + (r + 1) /\ r + 1 \in Nat /\ r + 1 < Half /\ r + 1 # 0 /\ h = h + 0
      BY <1>1, <2>1, Sizes, SMT
    <3> QED
      BY <1>1, <3>1
  <2>2. CASE r = Half - 1
    <3>1. (h + 1) * Half = h * Half + Half
      BY <1>1, Sizes, SMT
    <3>2. words + 1 = (h + 1) * Half + 0 /\ h + 1 \in Nat /\ 0 < Half
      BY <1>1, <2>2, <3>1, Sizes, SMT
    <3> QED
      BY <3>2
  <2> QED
    BY <1>1, <2>1, <2>2, Sizes, SMT
<1>5. /\ Reached(words + 1) \in SUBSET {"half", "full"}
      /\ Cardinality(Reached(words + 1)) = IF s = 0 THEN 1 ELSE 0
      /\ (words + 1) \div Half = i
  BY <1>4, FlagAtTheHalf, PlaceInBuffer
<1>6. /\ Cardinality(flags) \in Nat
      /\ Cardinality(flags \cup Reached(words + 1)) = Cardinality(flags) + Cardinality(Reached(words + 1))
  BY <1>2, <1>3, <1>5, FlagsAddUp
<1>7. completed + Cardinality(flags) = h
  BY <1>2 DEF StreamIInv, CountOK
<1>8. CountOK'
  <2> HIDE DEF h
  <2>1. completed' + Cardinality(flags') = completed + (Cardinality(flags) + (IF s = 0 THEN 1 ELSE 0))
    BY <1>2, <1>5, <1>6
  <2>2. words' \div Half = h + (IF s = 0 THEN 1 ELSE 0)
    BY <1>2, <1>4, <1>5
  <2>3. completed' + Cardinality(flags') = words' \div Half
    BY <1>1, <1>3, <1>6, <1>7, <2>1, <2>2, SMT
  <2> QED
    BY <2>3, Sizes DEF CountOK
<1>9. FlagsOK'
  BY <1>2 DEF StreamIInv, FlagsOK
<1>10. ReaderOK'
  BY <1>1, <1>2, <1>3, Sizes, SMT DEF StreamIInv, ReaderOK
<1>11. StreamTypeOK'
  <2>1. flags' \subseteq {"half", "full"}
    BY <1>2, <1>3, <1>5
  <2>2. words' \in 0 .. MaxWords /\ since' \in 0 .. Half
    BY <1>1, <1>2, <1>3, Sizes, SMT
  <2> QED
    BY <1>2, <2>1, <2>2, Sizes DEF StreamIInv, StreamTypeOK
<1> QED
  BY <1>8, <1>9, <1>10, <1>11 DEF StreamIInv

LEMMA InterruptKeeps == ASSUME StreamIInv, InterruptReads \/ InterruptCounts PROVE StreamIInv'
<1>1. CASE InterruptReads
  <2>1. /\ UNCHANGED <<streaming, words, flags, completed, lastDone, halves, since, reported, asked, spurious>>
        /\ busy' = "interrupt" /\ seen' = flags /\ flags # {}
    BY <1>1 DEF InterruptReads
  <2>2. StreamTypeOK'
    BY <2>1 DEF StreamIInv, StreamTypeOK, Half
  <2>3. CountOK' /\ FlagsOK' /\ ReaderOK'
    BY <2>1 DEF StreamIInv, CountOK, FlagsOK, ReaderOK
  <2> QED
    BY <2>2, <2>3 DEF StreamIInv
<1>2. CASE InterruptCounts
  <2>1. /\ UNCHANGED <<streaming, words, lastDone, halves, since, reported, asked, spurious>>
        /\ busy = "interrupt" /\ busy' = "nobody" /\ seen' = {} /\ flags' = flags \ seen
        /\ completed' = (completed + Cardinality(seen)) % Word
    BY <1>2 DEF InterruptCounts, StillPending
  <2>2. streaming /\ seen \subseteq flags
    BY <2>1 DEF StreamIInv, FlagsOK
  <2>3. flags \in SUBSET {"half", "full"} /\ seen \in SUBSET {"half", "full"} /\ completed \in Nat
        /\ words \in 0 .. MaxWords
    BY StreamTypes DEF StreamIInv
  <2>4. /\ Cardinality(seen) \in Nat /\ Cardinality(flags \ seen) \in Nat
        /\ Cardinality(flags) = Cardinality(seen) + Cardinality(flags \ seen)
    <3>1. flags \ seen \in SUBSET {"half", "full"} /\ seen \cap (flags \ seen) = {} /\ seen \union (flags \ seen) = flags
      BY <2>2, <2>3
    <3>2. /\ Cardinality(seen) \in Nat /\ Cardinality(flags \ seen) \in Nat
          /\ Cardinality(seen \union (flags \ seen)) = Cardinality(seen) + Cardinality(flags \ seen)
      BY <2>3, <3>1, FlagsAddUp
    <3> QED
      BY <3>1, <3>2
  <2>5. completed + Cardinality(flags) = words \div Half /\ words \div Half < Word - 1
    BY <2>2, <2>3, HalvesFit DEF StreamIInv, CountOK
  <2>6. completed + Cardinality(seen) \in Nat /\ completed + Cardinality(seen) < Word
    BY <2>3, <2>4, <2>5, Sizes, SMT
  <2>7. completed' = completed + Cardinality(seen)
    <3> DEFINE c == completed + Cardinality(seen)
    <3>1. c \in Nat /\ c < Word /\ c = 0 * Word + c
      BY <2>6, Sizes, SMT
    <3> HIDE DEF c
    <3>2. c % Word = c
      BY <3>1, Sizes, Quotient
    <3> QED
      BY <2>1, <3>2 DEF c
  <2>8. CountOK'
    BY <2>1, <2>3, <2>4, <2>5, <2>7, SMT DEF CountOK
  <2>9. completed' \in 0 .. Word - 1 /\ flags' \subseteq {"half", "full"}
    BY <2>1, <2>3, <2>6, <2>7, Sizes, SMT
  <2>10. StreamTypeOK'
    BY <2>1, <2>9 DEF StreamIInv, StreamTypeOK
  <2>11. FlagsOK' /\ ReaderOK'
    BY <2>1, <2>2 DEF FlagsOK, ReaderOK
  <2> QED
    BY <2>8, <2>10, <2>11 DEF StreamIInv
<1> QED
  BY <1>1, <1>2

LEMMA StartKeeps == ASSUME StreamIInv, Start PROVE StreamIInv'
<1>1. /\ busy = "nobody" /\ streaming' = TRUE /\ words' = 0 /\ flags' = {} /\ completed' = 0 /\ lastDone' = 0
      /\ reported' = 0 /\ asked' = 0 /\ spurious' = FALSE /\ UNCHANGED <<busy, seen, halves, since>>
  BY DEF Start
<1>2. StreamTypeOK'
  <2>1. 0 \in 0 .. MaxWords /\ 0 \in 0 .. Word - 1
    BY Sizes, SMT
  <2> QED
    BY <1>1, <2>1 DEF StreamIInv, StreamTypeOK
<1>3. 0 \div Half = 0 /\ Cardinality({}) = 0
  BY Sizes, FS_EmptySet, SMT
<1>4. CountOK'
  BY <1>1, <1>3, SMT DEF CountOK
<1>5. FlagsOK' /\ ReaderOK'
  BY <1>1 DEF StreamIInv, FlagsOK, ReaderOK
<1> QED
  BY <1>2, <1>4, <1>5 DEF StreamIInv

LEMMA ReaderKeeps == ASSUME StreamIInv, ReadFlags \/ ReadCounter \/ ReadStopped PROVE StreamIInv'
<1>1. CASE ReadFlags
  <2>1. /\ busy = "nobody" /\ streaming /\ busy' = "reader" /\ halves' = Halves /\ since' = 0 /\ asked' = words
        /\ UNCHANGED <<streaming, words, flags, completed, lastDone, seen, reported, spurious>>
    BY <1>1 DEF ReadFlags
  <2>2. halves' = words \div Half /\ halves' \in 0 .. Word - 1
    BY <2>1, HalvesAre DEF StreamIInv
  <2>3. words \in 0 .. MaxWords /\ words \in Nat
    BY StreamTypes DEF StreamIInv
  <2>4. StreamTypeOK'
    <3>1. 0 \in 0 .. Half
      BY Sizes, SMT
    <3> QED
      BY <2>1, <2>2, <2>3, <3>1 DEF StreamIInv, StreamTypeOK
  <2>5. ReaderOK'
    BY <2>1, <2>2, <2>3, Sizes, SMT DEF ReaderOK
  <2>6. CountOK' /\ FlagsOK'
    BY <2>1 DEF StreamIInv, CountOK, FlagsOK
  <2> QED
    BY <2>4, <2>5, <2>6 DEF StreamIInv
<1>2. CASE ReadCounter
  <2>1. /\ busy = "reader" /\ busy' = "nobody" /\ reported' = StepsDone(halves, Ndtr) /\ halves' = 0 /\ since' = 0
        /\ UNCHANGED <<streaming, words, flags, completed, lastDone, seen, asked, spurious>>
    BY <1>2 DEF ReadCounter
  <2>2. reported' \in 0 .. Word - 1
    <3>1. halves \in Nat
      BY StreamTypes DEF StreamIInv
    <3>2. Ndtr \in Int /\ 0 <= Ndtr /\ Ndtr <= Total
      BY NdtrType DEF StreamIInv
    <3> QED
      BY <2>1, <3>1, <3>2, StepsAreTyped
  <2>3. StreamTypeOK'
    <3>1. 0 \in 0 .. Half /\ 0 \in 0 .. Word - 1
      BY Sizes, SMT
    <3> QED
      BY <2>1, <2>2, <3>1 DEF StreamIInv, StreamTypeOK
  <2>4. CountOK' /\ FlagsOK' /\ ReaderOK'
    BY <2>1 DEF StreamIInv, CountOK, FlagsOK, ReaderOK
  <2> QED
    BY <2>3, <2>4 DEF StreamIInv
<1>3. CASE ReadStopped
  <2>1. /\ busy = "nobody" /\ reported' = lastDone /\ asked' = words
        /\ UNCHANGED <<streaming, words, flags, completed, lastDone, busy, seen, halves, since, spurious>>
    BY <1>3 DEF ReadStopped
  <2>2. StreamTypeOK'
    BY <2>1 DEF StreamIInv, StreamTypeOK
  <2>3. CountOK' /\ FlagsOK' /\ ReaderOK'
    BY <2>1 DEF StreamIInv, CountOK, FlagsOK, ReaderOK
  <2> QED
    BY <2>2, <2>3 DEF StreamIInv
<1> QED
  BY <1>1, <1>2, <1>3

LEMMA StopKeeps == ASSUME StreamIInv, Stop PROVE StreamIInv'
<1>1. /\ busy = "nobody" /\ streaming' = FALSE /\ flags' = {} /\ spurious' \in BOOLEAN
      /\ lastDone' = StepsDone((Halves + (IF spurious' THEN 1 ELSE 0)) % Word, Ndtr)
      /\ UNCHANGED <<words, completed, busy, seen, halves, since, reported, asked>>
  BY DEF Stop
<1>2. streaming
  BY DEF Stop
<1>3. Halves \in 0 .. Word - 1
  BY <1>2, HalvesAre DEF StreamIInv
<1>4. (Halves + (IF spurious' THEN 1 ELSE 0)) % Word \in Nat
  <2>1. Halves + (IF spurious' THEN 1 ELSE 0) \in Nat
    BY <1>3, Sizes, SMT
  <2> QED
    BY <2>1, Sizes, Division, SMT
<1>5. lastDone' \in 0 .. Word - 1
  <2>1. Ndtr \in Int /\ 0 <= Ndtr /\ Ndtr <= Total
    BY NdtrType DEF StreamIInv
  <2> QED
    BY <1>1, <1>4, <2>1, StepsAreTyped
<1>6. StreamTypeOK'
  BY <1>1, <1>5 DEF StreamIInv, StreamTypeOK
<1>7. CountOK' /\ FlagsOK' /\ ReaderOK'
  BY <1>1 DEF StreamIInv, CountOK, FlagsOK, ReaderOK
<1> QED
  BY <1>6, <1>7 DEF StreamIInv

LEMMA StreamStep == StreamIInv /\ [StreamNext]_streamVars => StreamIInv'
<1> SUFFICES ASSUME StreamIInv, [StreamNext]_streamVars PROVE StreamIInv'
  OBVIOUS
<1>1. CASE StreamNext
  BY <1>1, TransferKeeps, InterruptKeeps, StartKeeps, ReaderKeeps, StopKeeps DEF StreamNext
<1>2. CASE UNCHANGED streamVars
  BY <1>2 DEF streamVars, StreamIInv, StreamTypeOK, CountOK, FlagsOK, ReaderOK
<1> QED
  BY <1>1, <1>2

LEMMA StreamInvariance == StreamSpec => []StreamIInv
BY InitStream, StreamStep, PTL DEF StreamSpec

\* What the invariant says.
LEMMA StreamConserves == StreamIInv => HalvesConserved
<1> SUFFICES ASSUME StreamIInv, streaming PROVE Halves = (words \div Half) % Word
  BY DEF StreamIInv, HalvesConserved
<1>1. words \in 0 .. MaxWords
  BY StreamTypes DEF StreamIInv
<1> QED
  BY <1>1, HalvesAre, HalvesFit DEF StreamIInv

\* Every half is counted once, whatever the size of the buffer and the moments at which it
\* is read and its interrupt served, and no count of steps leaves its width.
THEOREM HalvesAreConserved == StreamSpec => []HalvesConserved
BY StreamConserves, StreamInvariance, PTL

\* An answer lies between what was played when the flags were read and when the counter was.
LEMMA AnswerIsInBetween ==
  ASSUME StreamIInv, ReadCounter
  PROVE  /\ reported' <= StepsOf(Played)
         /\ reported' >= StepsOf(IF MiddlePassed THEN (asked \div Total) * Records ELSE asked \div Burst)
<1> DEFINE h == asked \div Half
           r == asked % Half
<1>1. /\ words = asked + since /\ since \in Nat /\ since < Half /\ reported' = StepsDone(h, Ndtr)
      /\ asked \in 0 .. MaxWords
  BY StreamTypes DEF StreamIInv, ReaderOK, ReadCounter
<1>2. h \in Nat /\ r \in Nat /\ r < Half /\ asked = h * Half + r
  BY <1>1, HalvesFit
<1> HIDE DEF h, r
<1>3. /\ asked \div Total = h \div 2 /\ asked % Total = (IF h % 2 = 0 THEN 0 ELSE Half) + r
      /\ asked \div Burst = h * HalfRecords + r \div Burst
      /\ r \div Burst \in Nat /\ r \div Burst < HalfRecords
  BY <1>2, PlaceInBuffer
<1>4. /\ h * HalfRecords \in Nat /\ (h + 1) * HalfRecords = h * HalfRecords + HalfRecords
      /\ asked \div Burst \in Nat /\ h * HalfRecords <= asked \div Burst
      /\ asked \div Burst <= (h + 1) * HalfRecords
  <2>1. h * HalfRecords \in Nat /\ (h + 1) * HalfRecords = h * HalfRecords + HalfRecords
    BY <1>2, Sizes, SMT
  <2> QED
    BY <1>3, <2>1, Sizes, SMT
\* The DMA is still in the half of the flags, ...
<1>5. CASE r + since < Half
  <2> DEFINE s == r + since
  <2>1. s \in Nat /\ s < Half /\ words = h * Half + s /\ r <= s
    BY <1>1, <1>2, <1>5, Sizes, SMT
  <2> HIDE DEF s
  <2>2. /\ words \div Burst = h * HalfRecords + s \div Burst /\ s \div Burst \in Nat
        /\ words \div Total = h \div 2 /\ words % Total = (IF h % 2 = 0 THEN 0 ELSE Half) + s
    BY <1>2, <2>1, PlaceInBuffer
  <2>3. reported' = StepsOf(words \div Burst)
    BY <1>1, <1>2, <2>1, CountIsRight DEF Ndtr
  <2>4. ~MiddlePassed
    BY <1>2, <1>3, <2>1, <2>2, Sizes, SMT DEF MiddlePassed
  <2>5. r \div Burst <= s \div Burst
    BY <1>2, <2>1, Sizes, SMT
  <2>6. asked \div Burst <= words \div Burst /\ words \div Burst \in Nat
    BY <1>3, <1>4, <2>2, <2>5, SMT
  <2> QED
    BY <1>4, <2>3, <2>4, <2>6, StepsGrow, SMT DEF Played
\* ... or has gone on to the next.
<1>6. CASE r + since >= Half
  <2> DEFINE s == r + since - Half
  <2>1. s \in Nat /\ s < Half /\ words = (h + 1) * Half + s
    <3>1. (h + 1) * Half = h * Half + Half
      BY <1>2, Sizes, SMT
    <3> QED
      BY <1>1, <1>2, <1>6, <3>1, Sizes, SMT
  <2> HIDE DEF s
  <2>2. /\ words \div Burst = (h + 1) * HalfRecords + s \div Burst /\ s \div Burst \in Nat
        /\ words \div Total = (h + 1) \div 2 /\ words % Total = (IF (h + 1) % 2 = 0 THEN 0 ELSE Half) + s
    BY <1>2, <2>1, PlaceInBuffer, SMT
  <2>3. reported' = StepsOf(IF h % 2 = 0 /\ s # 0 THEN h * HalfRecords ELSE (h + 1) * HalfRecords)
    BY <1>1, <1>2, <2>1, CountIsShort DEF Ndtr
  <2>4. (h + 1) * HalfRecords \in Nat /\ words \div Burst \in Nat /\ (h + 1) * HalfRecords <= words \div Burst
    BY <1>4, <2>2, Sizes, SMT
  <2>5. CASE h % 2 = 0
    <3>1. h \div 2 = (h + 1) \div 2 /\ (h + 1) % 2 = 1 /\ h = 2 * (h \div 2) /\ h \div 2 \in Nat
      BY <1>2, <2>5, SMT
    <3>2. MiddlePassed
      BY <1>2, <1>3, <2>1, <2>2, <2>5, <3>1, Sizes, SMT DEF MiddlePassed
    <3>3. (asked \div Total) * Records = h * HalfRecords
      <4> DEFINE k == h \div 2
      <4>1. k \in Nat /\ h = 2 * k /\ asked \div Total = k
        BY <1>3, <3>1
      <4> HIDE DEF k
      <4> QED
        BY <4>1, Sizes, SMT
    <3>4. h * HalfRecords <= (h + 1) * HalfRecords /\ h * HalfRecords <= words \div Burst
      BY <1>4, <2>4, Sizes, SMT
    <3>5. StepsOf(h * HalfRecords) <= StepsOf((h + 1) * HalfRecords)
          /\ StepsOf(h * HalfRecords) <= StepsOf(words \div Burst)
          /\ StepsOf((h + 1) * HalfRecords) <= StepsOf(words \div Burst)
          /\ StepsOf(h * HalfRecords) \in Int
      BY <1>4, <2>4, <3>4, StepsGrow, SMT
    <3> QED
      BY <2>3, <3>2, <3>3, <3>5, SMT DEF Played
  <2>6. CASE h % 2 # 0
    <3>1. ~MiddlePassed
      BY <1>2, <1>3, <2>6, Sizes, SMT DEF MiddlePassed
    <3>2. reported' = StepsOf((h + 1) * HalfRecords)
      BY <2>3, <2>6
    <3>3. StepsOf((h + 1) * HalfRecords) <= StepsOf(words \div Burst)
          /\ StepsOf(asked \div Burst) <= StepsOf((h + 1) * HalfRecords)
          /\ StepsOf(asked \div Burst) \in Int /\ StepsOf((h + 1) * HalfRecords) \in Int
      BY <1>4, <2>4, StepsGrow, SMT
    <3> QED
      BY <3>1, <3>2, <3>3, SMT DEF Played
  <2> QED
    BY <2>5, <2>6
<1> QED
  BY <1>1, <1>2, <1>5, <1>6, Sizes, SMT

\* What stop() leaves as the steps done.
LEMMA StopHasCounted ==
  ASSUME StreamIInv, Stop
  PROVE  /\ StepsOf(Played) <= lastDone' /\ lastDone' <= StepsOf(Played + Records)
         /\ ~spurious' => lastDone' = StepsOf(Played)
<1> DEFINE h == words \div Half
           r == words % Half
<1>1. /\ streaming /\ spurious' \in BOOLEAN /\ words \in 0 .. MaxWords
      /\ lastDone' = StepsDone((Halves + (IF spurious' THEN 1 ELSE 0)) % Word, Ndtr)
  BY StreamTypes DEF StreamIInv, Stop
<1>2. /\ h \in Nat /\ r \in Nat /\ r < Half /\ words = h * Half + r /\ Halves = h
      /\ h % Word = h /\ (h + 1) % Word = h + 1
  BY <1>1, HalvesFit, HalvesAre DEF StreamIInv
<1> HIDE DEF h, r
<1>3. words \div Burst = h * HalfRecords + r \div Burst /\ r \div Burst \in Nat /\ r \div Burst < HalfRecords
  BY <1>2, PlaceInBuffer
<1>4. /\ h * HalfRecords \in Nat /\ (h + 1) * HalfRecords = h * HalfRecords + HalfRecords
      /\ (h + 2) * HalfRecords = h * HalfRecords + Records
  BY <1>2, Sizes, SMT
<1>5. /\ words \div Burst \in Nat /\ words \div Burst + Records \in Nat
      /\ words \div Burst <= words \div Burst + Records
      /\ (h + 1) * HalfRecords \in Nat /\ (h + 2) * HalfRecords \in Nat
      /\ words \div Burst <= (h + 1) * HalfRecords /\ words \div Burst <= (h + 2) * HalfRecords
      /\ (h + 1) * HalfRecords <= words \div Burst + Records
      /\ (h + 2) * HalfRecords <= words \div Burst + Records
  BY <1>3, <1>4, Sizes, SMT
<1>6. CASE ~spurious'
  <2>1. (Halves + (IF spurious' THEN 1 ELSE 0)) % Word = h
    <3>1. h + 0 = h
      BY <1>2
    <3> QED
      BY <1>2, <1>6, <3>1
  <2>2. lastDone' = StepsOf(words \div Burst)
    BY <1>1, <1>2, <2>1, CountIsRight DEF Ndtr
  <2> QED
    BY <1>5, <2>2, StepsGrow, SMT DEF Played
<1>7. CASE spurious'
  <2>1. lastDone' = StepsDone(h + 1, Ndtr)
    BY <1>1, <1>2, <1>7
  <2>2. lastDone' = StepsOf(IF h % 2 # 0 /\ r # 0 THEN (h + 1) * HalfRecords ELSE (h + 2) * HalfRecords)
    BY <1>2, <2>1, CountIsLong DEF Ndtr
  <2> DEFINE n == IF h % 2 # 0 /\ r # 0 THEN (h + 1) * HalfRecords ELSE (h + 2) * HalfRecords
  <2>3. n \in Nat /\ words \div Burst <= n /\ n <= words \div Burst + Records
    BY <1>5
  <2> HIDE DEF n
  <2>4. StepsOf(words \div Burst) <= StepsOf(n) /\ StepsOf(n) <= StepsOf(words \div Burst + Records)
    BY <1>5, <2>3, StepsGrow
  <2> QED
    BY <1>7, <2>2, <2>4 DEF n, Played
<1> QED
  BY <1>6, <1>7

\* The answer to a reader is what was played at some moment of its call, or what was played
\* at the start of the buffer if the middle was passed meanwhile, for every buffer.
THEOREM AnswersAreInBetween == StreamSpec => AnswersInBetween
<1>1. StreamIInv /\ [StreamNext]_streamVars =>
        [ReadCounter =>
           /\ reported' <= StepsOf(Played)
           /\ reported' >= StepsOf(IF MiddlePassed THEN (asked \div Total) * Records ELSE asked \div Burst)]_streamVars
  BY AnswerIsInBetween
<1> QED
  BY <1>1, StreamInvariance, PTL DEF StreamSpec, AnswersInBetween

\* A stopped stream has counted every record once, or up to a lap more if disabling the DMA
\* ended a transfer that had not ended, for every buffer.
THEOREM StopsCountAll == StreamSpec => StopCountsAll
<1>1. StreamIInv /\ [StreamNext]_streamVars =>
        [Stop => /\ StepsOf(Played) <= lastDone' /\ lastDone' <= StepsOf(Played + Records)
                 /\ ~spurious' => lastDone' = StepsOf(Played)]_streamVars
  BY StopHasCounted
<1> QED
  BY <1>1, StreamInvariance, PTL DEF StreamSpec, StopCountsAll

-----------------------------------------------------------------------------
(* The generator of step streams *)

\* The ticks of the current interval that are not given yet.
TicksLeft(g) == (g.records - g.index) * g.base + (IF g.index < g.extra THEN g.extra - g.index ELSE 0)

Generators ==
  [steps : Nat, duration : Nat \ {0}, grid : Nat, carry : 0 .. NsPerSecond - 1, done : Nat,
   records : Nat, index : Nat, base : Nat, extra : Nat]
IsGenerator(g) == g \in Generators /\ g.done <= Intervals(g) /\ g.index <= g.records /\ g.extra <= g.records

GeneratorTypeOK ==
  /\ IsGenerator(generator)
  /\ record \in [ticks : Nat, pulse : BOOLEAN]
  /\ given \in Nat /\ firstCarry \in 0 .. NsPerSecond - 1 /\ past \in Nat /\ pulses \in Nat /\ pulseAt \in Nat

\* The grid's remainder is that of the intervals so far.
GridOK(g) == g.grid = IF g.steps = 0 THEN 0 ELSE ((g.done * g.duration) % g.steps)

\* When the interval is given, the ticks of the chain and the carry are its exact time.
PlaceOf(g, n) == past + RoundedUp(n * g.duration, Intervals(g))
ClockOK(g) == (given + TicksLeft(g)) * NsPerSecond + g.carry = PlaceOf(g, g.done) * TimerClock + firstCarry

\* Records yet to be written are long enough and not too long.
SplitOK(g) == g.index < g.records => g.base \in MinRecord .. MaxRecord /\ (g.extra > 0 => g.base < MaxRecord)

\* A step gives its pulse with the first record of its interval.
PulsesOK ==
  /\ generator.index < generator.records => generator.index > 0
  /\ pulses = IF generator.steps = 0 THEN 0 ELSE generator.done
  /\ pulses > 0 => pulseAt = TickOf(pulses - 1)

FillIInv ==
  GeneratorTypeOK /\ GridOK(generator) /\ ClockOK(generator) /\ SplitOK(generator) /\ PulsesOK /\ RecordsFit

\* The quotient rounded up, of a number in parts.
LEMMA RoundsUp ==
  ASSUME NEW n \in Nat, NEW d \in Nat, NEW q \in Nat, NEW r \in Nat, r < d, n = q * d + r
  PROVE  RoundedUp(n, d) = q + (IF r # 0 THEN 1 ELSE 0)
BY Quotient DEF RoundedUp

\* One more interval on the grid: the remainder stays that of the intervals, and the
\* interval is what its two ends are apart.
LEMMA GridStep ==
  ASSUME NEW g \in Generators, GridOK(g), g.steps # 0
  PROVE  LET k == g.done + 1 IN
         /\ NextGrid(g) = ((k * g.duration) % g.steps) /\ NextGrid(g) \in Nat
         /\ IntervalOf(g) \in Nat
         /\ RoundedUp(k * g.duration, g.steps) = RoundedUp(g.done * g.duration, g.steps) + IntervalOf(g)
<1> DEFINE s == g.steps
           d == g.duration
           k == g.done
           e == (k * d) \div s
           x == g.grid
           q == d \div s
           r == (d % s)
<1>1. s \in Nat /\ 0 < s /\ d \in Nat /\ k \in Nat /\ k * d \in Nat
  <2>1. s \in Nat /\ 0 < s /\ d \in Nat /\ k \in Nat
    BY DEF Generators
  <2> HIDE DEF s, d, k
  <2> QED
    BY <2>1, SMT
<1>2. x = ((k * d) % s)
  BY DEF GridOK
<1>3. IntervalOf(g) = q + (IF Wraps(g) THEN 1 ELSE 0)
                        + (IF NextGrid(g) # 0 /\ x = 0 THEN 1 ELSE IF NextGrid(g) = 0 /\ x # 0 THEN -1 ELSE 0)
  BY DEF IntervalOf
<1>4. NextGrid(g) = IF Wraps(g) THEN x - (s - r) ELSE x + r
  BY DEF NextGrid, GridRemainder
<1>5. Wraps(g) <=> r # 0 /\ x >= s - r
  BY DEF Wraps, GridRemainder
<1> HIDE DEF s, d, k, x
<1>6. e \in Nat /\ x \in Nat /\ x < s /\ k * d = e * s + x
  BY <1>1, <1>2, Division, SMT
<1>7. q \in Nat /\ r \in Nat /\ r < s /\ d = q * s + r
  BY <1>1, Division, SMT
<1> HIDE DEF e, q, r
<1>8. /\ (k + 1) * d = (e + q) * s + (x + r)
      /\ (k + 1) * d = (e + (q + 1)) * s + (x - (s - r))
  BY <1>1, <1>6, <1>7, Elapses
<1>9. RoundedUp(k * d, s) = e + (IF x # 0 THEN 1 ELSE 0)
  <2> DEFINE n == k * d
  <2>1. n \in Nat /\ s \in Nat /\ e \in Nat /\ x \in Nat /\ x < s /\ n = e * s + x
    BY <1>1, <1>6
  <2> HIDE DEF n
  <2>2. RoundedUp(n, s) = e + (IF x # 0 THEN 1 ELSE 0)
    BY <2>1, RoundsUp
  <2> QED
    BY <2>2 DEF n
<1> DEFINE y == NextGrid(g)
           m == (k + 1) * d
<1>10. m \in Nat
  BY <1>1, SMT
<1>11. CASE Wraps(g)
  <2>1. y = x - (s - r) /\ y \in Nat /\ y < s /\ x # 0
    BY <1>1, <1>4, <1>5, <1>6, <1>7, <1>11, SMT
  <2>2. m = (e + (q + 1)) * s + y /\ e + (q + 1) \in Nat
    BY <1>6, <1>7, <1>8, <2>1, SMT
  <2>3. IntervalOf(g) = q + 1 + (IF y = 0 THEN -1 ELSE 0)
    BY <1>3, <1>11, <2>1
  <2> HIDE DEF y, m
  <2>4. m % s = y /\ RoundedUp(m, s) = (e + (q + 1)) + (IF y # 0 THEN 1 ELSE 0)
    BY <1>1, <1>10, <2>1, <2>2, Quotient, RoundsUp
  <2>5. IntervalOf(g) \in Nat /\ RoundedUp(m, s) = RoundedUp(k * d, s) + IntervalOf(g)
    BY <1>6, <1>7, <1>9, <2>1, <2>3, <2>4, SMT
  <2> QED
    BY <2>1, <2>4, <2>5 DEF y, m, s, d, k
<1>12. CASE ~Wraps(g)
  <2>1. y = x + r /\ y \in Nat /\ y < s /\ (y = 0 => x = 0)
    BY <1>1, <1>4, <1>5, <1>6, <1>7, <1>12, SMT
  <2>2. m = (e + q) * s + y /\ e + q \in Nat
    BY <1>6, <1>7, <1>8, <2>1, SMT
  <2>3. IntervalOf(g) = q + (IF y # 0 /\ x = 0 THEN 1 ELSE 0)
    BY <1>3, <1>7, <1>12, <2>1, SMT
  <2> HIDE DEF y, m
  <2>4. m % s = y /\ RoundedUp(m, s) = (e + q) + (IF y # 0 THEN 1 ELSE 0)
    BY <1>1, <1>10, <2>1, <2>2, Quotient, RoundsUp
  <2>5. IntervalOf(g) \in Nat /\ RoundedUp(m, s) = RoundedUp(k * d, s) + IntervalOf(g)
    BY <1>6, <1>7, <1>9, <2>1, <2>3, <2>4, SMT
  <2> QED
    BY <2>1, <2>4, <2>5 DEF y, m, s, d, k
<1> QED
  BY <1>11, <1>12

\* The same for an axis that does not move, whose only interval is the whole duration.
LEMMA NextPlace ==
  ASSUME NEW g \in Generators, GridOK(g), past \in Nat, g.done < Intervals(g)
  PROVE  /\ PlaceOf(g, g.done) \in Nat /\ IntervalOf(g) \in Nat /\ NextGrid(g) \in Nat
         /\ PlaceOf(g, g.done + 1) = PlaceOf(g, g.done) + IntervalOf(g)
         /\ NextGrid(g) = IF g.steps = 0 THEN 0 ELSE (((g.done + 1) * g.duration) % g.steps)
<1>1. g.steps \in Nat /\ g.duration \in Nat /\ g.done \in Nat
  BY DEF Generators
<1>2. CASE g.steps = 0
  <2>1. Intervals(g) = 1 /\ g.done = 0
    BY <1>1, <1>2, SMT DEF Intervals
  <2>2. RoundedUp(0 * g.duration, 1) = 0 + (IF 0 # 0 THEN 1 ELSE 0)
    <3>1. 0 * g.duration = 0 * 1 + 0 /\ 0 * g.duration \in Nat
      BY <1>1, SMT
    <3> QED
      BY <3>1, RoundsUp
  <2>3. RoundedUp(1 * g.duration, 1) = g.duration + (IF 0 # 0 THEN 1 ELSE 0)
    <3>1. 1 * g.duration = g.duration * 1 + 0 /\ 1 * g.duration \in Nat
      BY <1>1, SMT
    <3> QED
      BY <1>1, <3>1, RoundsUp
  <2>4. IntervalOf(g) = g.duration /\ NextGrid(g) = 0
    BY <1>2 DEF IntervalOf, NextGrid
  <2> QED
    BY <1>1, <1>2, <2>1, <2>2, <2>3, <2>4 DEF PlaceOf
<1>3. CASE g.steps # 0
  <2>1. Intervals(g) = g.steps
    BY <1>3 DEF Intervals
  <2>2. RoundedUp(g.done * g.duration, g.steps) \in Nat
    <3>1. g.done * g.duration \in Nat
      BY <1>1, SMT
    <3> DEFINE n == g.done * g.duration
    <3>2. n \div g.steps \in Nat
      <4> HIDE DEF n
      <4> QED BY <1>1, <1>3, <3>1, Division DEF n
    <3> QED
      BY <3>2 DEF RoundedUp
  <2> QED
    BY <1>1, <1>3, <2>1, <2>2, GridStep DEF PlaceOf
<1> QED
  BY <1>2, <1>3

\* How ticks are cut into records: as many of the longest length as cover them, no record
\* longer, and where there are several, none shorter than half of it.
LEMMA Cuts ==
  ASSUME NEW ticks \in Nat \ {0}
  PROVE  LET k == RecordCount(ticks)
             b == ticks \div k
             x == (ticks % k)
         IN /\ k \in Nat \ {0} /\ b \in Nat /\ x \in Nat /\ x < k /\ ticks = b * k + x
            /\ b <= MaxRecord /\ (x > 0 => b < MaxRecord)
            /\ ticks <= MaxRecord => b = ticks /\ x = 0
            /\ ticks > MaxRecord => 2 * b >= MaxRecord /\ 2 * (b + (IF x # 0 THEN 1 ELSE 0)) > MaxRecord
<1> DEFINE M == MaxRecord
           q == ticks \div M
           r == (ticks % M)
           k == RecordCount(ticks)
           b == ticks \div k
           x == (ticks % k)
<1>1. M \in Nat /\ 2 <= M
  BY StreamConfigAssumption, SMT
<1>2. k = q + (IF r # 0 THEN 1 ELSE 0)
  BY DEF RecordCount, RoundedUp
<1> HIDE DEF M, k
<1>3. q \in Nat /\ r \in Nat /\ r < M /\ ticks = q * M + r
  BY <1>1, Division, SMT
<1> HIDE DEF q, r
<1>4. k \in Nat \ {0} /\ ticks <= k * M /\ (k - 1) * M < ticks
  <2>1. q * M \in Nat /\ (q + 1) * M = q * M + M /\ (q = 0 => q * M = 0)
    BY <1>1, <1>3, SMT
  <2>2. CASE r = 0
    <3>1. k = q /\ q # 0
      BY <1>2, <1>3, <2>1, <2>2
    <3>2. (q - 1) * M = q * M - M
      BY <1>1, <1>3, SMT
    <3> QED
      BY <1>1, <1>3, <2>1, <2>2, <3>1, <3>2, SMT
  <2>3. CASE r # 0
    <3>1. k = q + 1 /\ k - 1 = q
      BY <1>2, <1>3, <2>3
    <3> QED
      BY <1>1, <1>3, <2>1, <2>3, <3>1, SMT
  <2> QED
    BY <2>2, <2>3
<1>5. b \in Nat /\ x \in Nat /\ x < k /\ ticks = b * k + x
  BY <1>4, Division, SMT
<1> HIDE DEF b, x
<1>6. k * M = M * k /\ M * k \in Nat /\ b * k \in Nat
  BY <1>1, <1>4, <1>5, SMT
<1>7. b <= M /\ (x > 0 => b < M)
  <2>1. ASSUME b > M PROVE FALSE
    <3>1. (M + 1) * k <= b * k /\ (M + 1) * k = M * k + k
      BY <1>1, <1>4, <1>5, <2>1, TimesMore, SMT
    <3> QED
      BY <1>4, <1>5, <1>6, <3>1, SMT
  <2>2. ASSUME x > 0, b = M PROVE FALSE
    BY <1>4, <1>5, <1>6, <2>2, SMT
  <2> QED
    BY <1>1, <1>5, <2>1, <2>2, SMT
<1>8. ASSUME ticks <= M PROVE b = ticks /\ x = 0
  <2>1. k = 1
    <3>1. ASSUME k >= 2 PROVE FALSE
      <4>1. 1 * M <= (k - 1) * M
        BY <1>1, <1>4, <3>1, TimesMore, SMT
      <4> QED
        BY <1>1, <1>4, <1>8, <4>1, SMT
    <3> QED
      BY <1>4, <3>1, SMT
  <2> QED
    BY <1>5, <2>1, SMT
<1>9. ASSUME ticks > M PROVE 2 * b >= M /\ 2 * (b + (IF x # 0 THEN 1 ELSE 0)) > M
  <2>1. k >= 2
    BY <1>1, <1>4, <1>9, SMT
  <2>2. PICK j \in Nat : k = j + 2
    <3>1. k - 2 \in Nat /\ k = (k - 2) + 2
      BY <1>4, <2>1, SMT
    <3> QED
      BY <3>1
  <2>3. (k - 1) * M = j * M + M /\ j * M \in Nat /\ j * M >= 2 * j
    <3>1. 2 * j <= M * j /\ M * j = j * M
      BY <1>1, <2>2, TimesMore, SMT
    <3> QED
      BY <1>1, <2>2, <3>1, SMT
  <2>4. k * M = j * M + 2 * M
    BY <1>1, <2>2, SMT
  <2>5. ASSUME 2 * b < M PROVE FALSE
    <3>1. (2 * (b + 1)) * k <= (M + 1) * k
      BY <1>1, <1>4, <1>5, <2>5, TimesMore, SMT
    <3>2. (2 * (b + 1)) * k = 2 * (b * k) + 2 * k /\ (M + 1) * k = M * k + k
      BY <1>1, <1>4, <1>5, SMT
    <3> QED
      BY <1>1, <1>4, <1>5, <1>6, <2>2, <2>3, <2>4, <3>1, <3>2, SMT
  <2>6. ASSUME NEW c \in Nat, c = b + (IF x # 0 THEN 1 ELSE 0), 2 * c <= M PROVE FALSE
    <3>1. ticks <= c * k
      <4>1. (b + 1) * k = b * k + k
        BY <1>4, <1>5, SMT
      <4>2. CASE x = 0
        <5>1. c = b
          BY <1>5, <2>6, <4>2, SMT
        <5> QED
          BY <1>5, <1>6, <4>2, <5>1, SMT
      <4>3. CASE x # 0
        <5>1. c = b + 1
          BY <2>6, <4>3
        <5> QED
          BY <1>4, <1>5, <1>6, <4>1, <5>1, SMT
      <4> QED
        BY <4>2, <4>3
    <3>2. (2 * c) * k <= M * k
      BY <1>1, <1>4, <2>6, TimesMore, SMT
    <3>3. (2 * c) * k = 2 * (c * k) /\ c * k \in Nat
      BY <1>4, <2>6, SMT
    <3> QED
      BY <1>1, <1>4, <1>6, <2>2, <2>3, <2>4, <3>1, <3>2, <3>3, SMT
  <2> QED
    BY <1>1, <1>5, <2>5, <2>6, SMT
<1> QED
  BY <1>4, <1>5, <1>7, <1>8, <1>9 DEF M, k, b, x

LEMMA StreamConstants ==
  /\ NsPerSecond \in Nat \ {0} /\ TimerClock \in Nat \ {0} /\ LowTicks \in Nat /\ MaxRecord \in Nat
  /\ PulseTicks \in Nat /\ MinRecord \in Nat \ {0}
  /\ ShortestStep >= MinRecord /\ ShortestStep >= PulseTicks + LowTicks
  /\ ShortestStep = MinRecord \/ ShortestStep = PulseTicks + LowTicks
<1>1. /\ NsPerSecond \in Nat \ {0} /\ TimerClock \in Nat \ {0} /\ LowTicks \in Nat /\ MaxRecord \in Nat
      /\ PulseTicks \in Nat /\ MinRecord \in Nat \ {0}
  BY PlannerAssumption, StreamConfigAssumption
<1> DEFINE S == {MinRecord, PulseTicks + LowTicks}
           IsMax(x) == x \in S /\ \A y \in S : x >= y
<1>2. \E x : IsMax(x)
  <2>1. CASE MinRecord >= PulseTicks + LowTicks
    <3>1. IsMax(MinRecord)
      BY <1>1, <2>1, SMT
    <3> QED
      BY <3>1
  <2>2. CASE ~(MinRecord >= PulseTicks + LowTicks)
    <3>1. IsMax(PulseTicks + LowTicks)
      BY <1>1, <2>2, SMT
    <3> QED
      BY <3>1
  <2> QED
    BY <2>1, <2>2
<1>3. ShortestStep = CHOOSE x : IsMax(x)
  BY DEF ShortestStep, Max
<1>4. IsMax(ShortestStep)
  <2> HIDE DEF IsMax
  <2> QED
    BY <1>2, <1>3
<1> QED
  BY <1>1, <1>4

LEMMA Fields ==
  ASSUME NEW g, IsGenerator(g)
  PROVE  /\ g.steps \in Nat /\ g.duration \in Nat \ {0} /\ g.grid \in Nat /\ g.done \in Nat
         /\ g.carry \in Nat /\ g.carry < NsPerSecond
         /\ g.records \in Nat /\ g.index \in Nat /\ g.base \in Nat /\ g.extra \in Nat
         /\ g.index <= g.records /\ g.extra <= g.records /\ g.done <= Intervals(g)
         /\ Intervals(g) \in Nat \ {0}
         /\ TicksLeft(g) \in Nat
<1>1. /\ g.steps \in Nat /\ g.duration \in Nat \ {0} /\ g.grid \in Nat /\ g.done \in Nat
      /\ g.carry \in Nat /\ g.carry < NsPerSecond
      /\ g.records \in Nat /\ g.index \in Nat /\ g.base \in Nat /\ g.extra \in Nat
      /\ g.index <= g.records /\ g.extra <= g.records /\ g.done <= Intervals(g)
  BY StreamConstants DEF IsGenerator, Generators
<1>2. Intervals(g) \in Nat \ {0}
  BY <1>1 DEF Intervals
<1>3. TicksLeft(g) \in Nat
  <2>1. (g.records - g.index) * g.base \in Nat
    <3>1. g.records - g.index \in Nat
      BY <1>1
    <3> QED
      BY <1>1, <3>1, SMT
  <2>2. (IF g.index < g.extra THEN g.extra - g.index ELSE 0) \in Nat
    BY <1>1, SMT
  <2> QED
    BY <2>1, <2>2 DEF TicksLeft
<1> QED
  BY <1>1, <1>2, <1>3

\* A stream begins where the one before it ends.
LEMMA EndsOfPlace ==
  ASSUME NEW g, IsGenerator(g), past \in Nat
  PROVE  /\ PlaceOf(g, 0) = past
         /\ PlaceOf(g, Intervals(g)) = past + g.duration
         /\ PlaceOf(g, g.done) \in Nat
<1> DEFINE s == Intervals(g)
           d == g.duration
<1>1. s \in Nat \ {0} /\ d \in Nat /\ g.done \in Nat
  BY Fields
<1> HIDE DEF s, d
<1>2. RoundedUp(0 * d, s) = 0
  <2>1. 0 * d = 0 * s + 0 /\ 0 * d \in Nat
    BY <1>1, SMT
  <2> QED
    BY <1>1, <2>1, RoundsUp
<1>3. RoundedUp(s * d, s) = d
  <2> DEFINE n == s * d
  <2>1. n = d * s + 0 /\ n \in Nat
    BY <1>1, SMT
  <2> HIDE DEF n
  <2>2. RoundedUp(n, s) = d + (IF 0 # 0 THEN 1 ELSE 0)
    BY <1>1, <2>1, RoundsUp
  <2> QED
    BY <1>1, <2>2 DEF n
<1>4. RoundedUp(g.done * d, s) \in Nat
  <2> DEFINE n == g.done * d
  <2>1. n \in Nat
    BY <1>1, SMT
  <2> HIDE DEF n
  <2>2. n \div s \in Nat
    BY <1>1, <2>1, Division
  <2>3. RoundedUp(n, s) \in Nat
    BY <2>2 DEF RoundedUp
  <2> QED
    BY <2>3 DEF n
<1> QED
  BY <1>1, <1>2, <1>3, <1>4 DEF PlaceOf, s, d

LEMMA TickOfPlace == \A n : TickOf(n) = (PlaceOf(generator, n) * TimerClock + firstCarry) \div NsPerSecond
BY DEF TickOf, PlaceOf

\* A time in nanoseconds is a number of ticks and a carry in one way only.
LEMMA TicksAre ==
  ASSUME NEW t \in Nat, NEW c \in Nat, c < NsPerSecond, NEW p \in Nat, firstCarry \in Nat,
         t * NsPerSecond + c = p * TimerClock + firstCarry
  PROVE  (p * TimerClock + firstCarry) \div NsPerSecond = t
<1> DEFINE n == p * TimerClock + firstCarry
<1>1. n \in Nat /\ NsPerSecond \in Nat /\ n = t * NsPerSecond + c
  BY StreamConstants, SMT
<1> HIDE DEF n
<1>2. n \div NsPerSecond = t
  BY <1>1, Quotient
<1> QED
  BY <1>2 DEF n

\* Between two intervals the ticks that were given are those of the place on the grid.
LEMMA AtATick ==
  ASSUME FillIInv, AtInterval(generator)
  PROVE  /\ TicksLeft(generator) = 0
         /\ given * NsPerSecond + generator.carry = PlaceOf(generator, generator.done) * TimerClock + firstCarry
         /\ given = TickOf(generator.done)
<1> DEFINE g == generator
<1>1. IsGenerator(g) /\ given \in Nat /\ firstCarry \in Nat /\ past \in Nat
  BY DEF FillIInv, GeneratorTypeOK
<1>2. TicksLeft(g) = 0
  <2>1. g.index = g.records /\ ~(g.index < g.extra) /\ (g.records - g.index) * g.base = 0
    <3>1. g.index = g.records /\ ~(g.index < g.extra) /\ g.base \in Nat /\ g.records - g.index = 0
      BY <1>1, Fields DEF AtInterval
    <3> QED
      BY <3>1, SMT
  <2> QED
    BY <2>1 DEF TicksLeft
<1>3. given * NsPerSecond + g.carry = PlaceOf(g, g.done) * TimerClock + firstCarry
  <2>1. ClockOK(g)
    BY DEF FillIInv
  <2> QED
    BY <1>1, <1>2, <2>1 DEF ClockOK
<1>4. g.carry \in Nat /\ g.carry < NsPerSecond /\ PlaceOf(g, g.done) \in Nat
  BY <1>1, Fields, EndsOfPlace
<1>5. given = TickOf(g.done)
  BY <1>1, <1>3, <1>4, TicksAre, TickOfPlace
<1> QED
  BY <1>2, <1>3, <1>5

\* The next interval leads from its tick to the one after.
LEMMA NextTick ==
  ASSUME FillIInv, AtInterval(generator), ~StreamIsDone(generator)
  PROVE  LET g == generator
             c == (Converted(g) % NsPerSecond)
         IN /\ g.done < Intervals(g)
            /\ TicksOf(g) \in Nat /\ c \in Nat /\ c < NsPerSecond
            /\ (given + TicksOf(g)) * NsPerSecond + c = PlaceOf(g, g.done + 1) * TimerClock + firstCarry
            /\ TickOf(g.done + 1) = given + TicksOf(g)
            /\ LengthOf(g.done + 1) = TicksOf(g)
<1> DEFINE g == generator
           c == (Converted(g) % NsPerSecond)
           P == PlaceOf(g, g.done)
           I == IntervalOf(g)
           N == NsPerSecond
           C == TimerClock
           v == Converted(g)
           t == TicksOf(g)
<1>1. IsGenerator(g) /\ given \in Nat /\ firstCarry \in Nat /\ past \in Nat /\ GridOK(g)
  BY DEF FillIInv, GeneratorTypeOK
<1>2. g.done < Intervals(g) /\ g.done \in Nat
  BY <1>1, Fields DEF StreamIsDone
<1>3. P \in Nat /\ I \in Nat /\ PlaceOf(g, g.done + 1) = P + I
  BY <1>1, <1>2, NextPlace DEF IsGenerator
<1>4. N \in Nat \ {0} /\ C \in Nat /\ g.carry \in Nat
  BY <1>1, StreamConstants, Fields
<1>5. v = I * C + g.carry
  BY DEF Converted
<1>6. t = v \div N
  BY DEF TicksOf
<1>7. given * N + g.carry = P * C + firstCarry
  BY AtATick
<1> HIDE DEF P, I, N, C, v, t
<1>8. v \in Nat
  BY <1>3, <1>4, <1>5, SMT
<1>9. t \in Nat /\ c \in Nat /\ c < N /\ v = t * N + c
  <2>1. v % N \in 0 .. N - 1 /\ v \div N \in Nat /\ v = (v \div N) * N + (v % N)
    BY <1>4, <1>8, Division
  <2> QED
    BY <1>4, <1>6, <2>1 DEF v, N
<1> HIDE DEF c
<1>10. (given + t) * N + c = (P + I) * C + firstCarry
  <2>1. (given + t) * N = given * N + t * N /\ given * N \in Nat /\ t * N \in Nat
    BY <1>1, <1>4, <1>9, SMT
  <2>2. (P + I) * C = P * C + I * C /\ P * C \in Nat /\ I * C \in Nat
    BY <1>3, <1>4, SMT
  <2> QED
    BY <1>1, <1>4, <1>5, <1>7, <1>9, <2>1, <2>2, SMT
<1>11. TickOf(g.done + 1) = given + t
  <2>1. given + t \in Nat /\ P + I \in Nat
    BY <1>1, <1>3, <1>9
  <2> DEFINE p == P + I
             s == given + t
  <2>2. s \in Nat /\ p \in Nat /\ s * NsPerSecond + c = p * TimerClock + firstCarry /\ c \in Nat /\ c < NsPerSecond
    BY <1>9, <1>10, <2>1 DEF N, C
  <2>3. TickOf(g.done + 1) = (p * TimerClock + firstCarry) \div NsPerSecond
    BY <1>3, TickOfPlace
  <2> HIDE DEF p, s
  <2>4. TickOf(g.done + 1) = s
    BY <1>1, <2>2, <2>3, TicksAre
  <2> QED
    BY <2>4 DEF s
<1>12. LengthOf(g.done + 1) = t
  <2>1. (g.done + 1) - 1 = g.done /\ given = TickOf(g.done)
    BY <1>2, AtATick
  <2>2. LengthOf(g.done + 1) = TickOf(g.done + 1) - TickOf(g.done)
    <3> DEFINE m == g.done + 1
    <3>1. m - 1 = g.done
      BY <2>1
    <3> HIDE DEF m
    <3>2. LengthOf(m) = TickOf(m) - TickOf(m - 1)
      BY DEF LengthOf
    <3> QED
      BY <3>1, <3>2, Zenon DEF m
  <2> QED
    BY <1>1, <1>9, <1>11, <2>1, <2>2
<1> QED
  BY <1>2, <1>3, <1>9, <1>10, <1>11, <1>12 DEF N, C, t, c

\* A refused interval lacks the room it needs.
LEMMA RefusalIsJust == FillIInv => RefusedForLackOfRoom
<1> SUFFICES ASSUME FillIInv, Refuses(generator) PROVE RefusedForLackOfRoom
  BY DEF RefusedForLackOfRoom
<1> DEFINE g == generator
           t == TicksOf(g)
           k == RecordCount(t)
           b == t \div k
           x == (t % k)
           length == LengthOf(g.done + 1)
<1>1. t \in Nat /\ length = t
  BY NextTick DEF Refuses
<1>2. t = 0 \/ b < MinRecord \/ (g.steps # 0 /\ (t < ShortestStep \/ RoundedUp(t, k) <= PulseTicks))
  BY DEF Refuses, TooShort
<1>3. RoundedUp(t, k) = b + (IF x # 0 THEN 1 ELSE 0)
  BY DEF RoundedUp
<1>4. t # 0 => /\ b \in Nat /\ x \in Nat
               /\ t <= MaxRecord => b = t /\ x = 0
               /\ t > MaxRecord => 2 * b >= MaxRecord /\ 2 * (b + (IF x # 0 THEN 1 ELSE 0)) > MaxRecord
  BY <1>1, Cuts
<1> HIDE DEF t, k, b, x
<1>5. \/ t < MinRecord
      \/ g.steps # 0 /\ (t < PulseTicks + LowTicks \/ t <= PulseTicks)
      \/ t > MaxRecord /\ (2 * MinRecord > MaxRecord + 1 \/ (g.steps # 0 /\ 2 * PulseTicks > MaxRecord))
  <2>1. CASE t = 0
    BY <2>1, StreamConstants, SMT
  <2>2. CASE t # 0 /\ b < MinRecord
    BY <1>1, <1>4, <2>2, StreamConstants, SMT
  <2>3. CASE g.steps # 0 /\ t < ShortestStep
    BY <1>1, <2>3, StreamConstants, SMT
  <2>4. CASE t # 0 /\ g.steps # 0 /\ RoundedUp(t, k) <= PulseTicks
    BY <1>1, <1>3, <1>4, <2>4, StreamConstants, SMT
  <2> QED
    BY <1>2, <2>1, <2>2, <2>3, <2>4
<1> QED
  BY <1>1, <1>5 DEF RefusedForLackOfRoom

\* An interval that is not refused, ready to be written.
LEMMA Prepares ==
  ASSUME FillIInv, AtInterval(generator), ~StreamIsDone(generator), ~Refuses(generator)
  PROVE  LET g == generator
             p == Prepared(g)
         IN /\ IsGenerator(p) /\ p.index = 0 /\ p.index < p.records
            /\ p.steps = g.steps /\ p.duration = g.duration /\ p.done = g.done + 1
            /\ GridOK(p) /\ ClockOK(p) /\ SplitOK(p)
            /\ g.steps # 0 => /\ RecordOf(p).ticks > PulseTicks
                             /\ LengthOf(p.done) >= PulseTicks + LowTicks
<1> DEFINE g == generator
           t == TicksOf(g)
           c == (Converted(g) % NsPerSecond)
           k == RecordCount(t)
           b == t \div k
           x == (t % k)
           y == NextGrid(g)
           p == Prepared(g)
<1>1. IsGenerator(g) /\ given \in Nat /\ firstCarry \in Nat /\ past \in Nat /\ GridOK(g)
  BY DEF FillIInv, GeneratorTypeOK
<1>2. /\ g.done < Intervals(g) /\ t \in Nat /\ c \in Nat /\ c < NsPerSecond
      /\ (given + t) * NsPerSecond + c = PlaceOf(g, g.done + 1) * TimerClock + firstCarry
      /\ LengthOf(g.done + 1) = t
  BY NextTick
<1>3. /\ t # 0 /\ ~(b < MinRecord)
      /\ g.steps # 0 => ~(t < ShortestStep) /\ ~(RoundedUp(t, k) <= PulseTicks)
  BY Zenon DEF Refuses, TooShort
<1>4. /\ k \in Nat \ {0} /\ b \in Nat /\ x \in Nat /\ x < k /\ t = b * k + x
      /\ b <= MaxRecord /\ (x > 0 => b < MaxRecord)
  BY <1>2, <1>3, Cuts
<1>5. y \in Nat /\ y = IF g.steps = 0 THEN 0 ELSE (((g.done + 1) * g.duration) % g.steps)
  BY <1>1, <1>2, NextPlace DEF IsGenerator
<1>6. RoundedUp(t, k) = b + (IF x # 0 THEN 1 ELSE 0)
  BY DEF RoundedUp
<1>7. p = [steps |-> g.steps, duration |-> g.duration, grid |-> y, carry |-> c, done |-> g.done + 1,
           records |-> k, index |-> 0, base |-> b, extra |-> x]
  <2>1. g \in Generators
    BY <1>1 DEF IsGenerator
  <2> HIDE DEF y, c, k, b, x
  <2>2. Prepared(g) = [g EXCEPT !.grid = y, !.carry = c, !.done = g.done + 1,
                                !.records = k, !.index = 0, !.base = b, !.extra = x]
    BY DEF Prepared, y, c, k, b, x
  <2> QED
    BY <2>1, <2>2 DEF Generators
<1> HIDE DEF t, c, k, b, x, y, p
<1>8. /\ p.steps = g.steps /\ p.duration = g.duration /\ p.grid = y /\ p.carry = c /\ p.done = g.done + 1
      /\ p.records = k /\ p.index = 0 /\ p.base = b /\ p.extra = x
  BY <1>7
<1>9. Intervals(p) = Intervals(g)
  BY <1>8 DEF Intervals
<1>10. IsGenerator(p)
  <2>1. p \in Generators
    <3>1. /\ g.steps \in Nat /\ g.duration \in Nat \ {0} /\ y \in Nat /\ c \in 0 .. NsPerSecond - 1
          /\ g.done + 1 \in Nat /\ k \in Nat /\ b \in Nat /\ x \in Nat
      BY <1>1, <1>2, <1>4, <1>5, Fields, StreamConstants
    <3> QED
      BY <1>7, <3>1 DEF Generators
  <2>2. p.done <= Intervals(p) /\ p.index <= p.records /\ p.extra <= p.records
    BY <1>1, <1>2, <1>4, <1>8, <1>9, Fields
  <2> QED
    BY <2>1, <2>2 DEF IsGenerator
<1>11. GridOK(p)
  BY <1>5, <1>8 DEF GridOK
<1>12. TicksLeft(p) = t
  <2>1. TicksLeft(p) = (k - 0) * b + (IF 0 < x THEN x - 0 ELSE 0)
    BY <1>8 DEF TicksLeft
  <2>2. (k - 0) * b = b * k /\ b * k \in Nat
    BY <1>4, SMT
  <2> QED
    BY <1>4, <2>1, <2>2, SMT
<1>13. ClockOK(p)
  <2>1. PlaceOf(p, p.done) = PlaceOf(g, g.done + 1)
    BY <1>8, <1>9 DEF PlaceOf
  <2> QED
    BY <1>2, <1>8, <1>12, <2>1 DEF ClockOK
<1>14. SplitOK(p)
  BY <1>3, <1>4, <1>8, StreamConstants DEF SplitOK
<1>15. ASSUME g.steps # 0 PROVE RecordOf(p).ticks > PulseTicks /\ LengthOf(p.done) >= PulseTicks + LowTicks
  <2>1. RecordOf(p).ticks = b + (IF 0 < x THEN 1 ELSE 0)
    BY <1>8 DEF RecordOf
  <2> QED
    BY <1>2, <1>3, <1>4, <1>6, <1>8, <1>15, <2>1, StreamConstants, SMT
<1> QED
  BY <1>4, <1>8, <1>10, <1>11, <1>13, <1>14, <1>15 DEF p

\* Writing a record takes its ticks off the interval.
LEMMA Writes ==
  ASSUME NEW p, IsGenerator(p), p.index < p.records, SplitOK(p)
  PROVE  LET q == [p EXCEPT !.index = p.index + 1] IN
         /\ q \in Generators
         /\ q.steps = p.steps /\ q.duration = p.duration /\ q.grid = p.grid /\ q.carry = p.carry /\ q.done = p.done
         /\ q.records = p.records /\ q.index = p.index + 1 /\ q.base = p.base /\ q.extra = p.extra
         /\ RecordOf(p) \in [ticks : Nat, pulse : BOOLEAN]
         /\ RecordOf(p).ticks \in MinRecord .. MaxRecord
         /\ RecordOf(p).pulse = (p.steps # 0 /\ p.index = 0)
         /\ RecordOf(p).ticks + TicksLeft(q) = TicksLeft(p)
<1> DEFINE q == [p EXCEPT !.index = p.index + 1]
<1>1. /\ p.index \in Nat /\ p.records \in Nat /\ p.base \in Nat /\ p.extra \in Nat /\ p \in Generators
      /\ p.extra <= p.records
  BY Fields DEF IsGenerator
<1>2. /\ q \in Generators
      /\ q.steps = p.steps /\ q.duration = p.duration /\ q.grid = p.grid /\ q.carry = p.carry /\ q.done = p.done
      /\ q.records = p.records /\ q.index = p.index + 1 /\ q.base = p.base /\ q.extra = p.extra
  BY <1>1 DEF Generators
<1> HIDE DEF q
<1>3. /\ RecordOf(p).ticks = p.base + (IF p.index < p.extra THEN 1 ELSE 0)
      /\ RecordOf(p).pulse = (p.steps # 0 /\ p.index = 0)
  BY DEF RecordOf
<1>4. RecordOf(p).ticks \in MinRecord .. MaxRecord
  <2>1. p.base \in MinRecord .. MaxRecord /\ (p.extra > 0 => p.base < MaxRecord)
    BY DEF SplitOK
  <2> QED
    BY <1>1, <1>3, <2>1, StreamConstants, SMT
<1>5. RecordOf(p) \in [ticks : Nat, pulse : BOOLEAN]
  <2>1. p.base + (IF p.index < p.extra THEN 1 ELSE 0) \in Nat
    BY <1>1
  <2>2. (p.steps # 0 /\ p.index = 0) \in BOOLEAN
    OBVIOUS
  <2> QED
    BY <2>1, <2>2, Zenon DEF RecordOf
<1>6. RecordOf(p).ticks + TicksLeft(q) = TicksLeft(p)
  <2>1. PICK m \in Nat : p.records - p.index = m + 1
    <3>1. p.records - p.index - 1 \in Nat /\ p.records - p.index = (p.records - p.index - 1) + 1
      BY <1>1
    <3> QED
      BY <3>1
  <2>2. q.records - q.index = m
    BY <1>1, <1>2, <2>1
  <2>3. TicksLeft(p) = (m + 1) * p.base + (IF p.index < p.extra THEN p.extra - p.index ELSE 0)
    BY <2>1 DEF TicksLeft
  <2>4. TicksLeft(q) = m * p.base + (IF p.index + 1 < p.extra THEN p.extra - (p.index + 1) ELSE 0)
    BY <1>2, <2>2 DEF TicksLeft
  <2> DEFINE b == p.base
             x == p.extra
             i == p.index
  <2>5. b \in Nat /\ x \in Nat /\ i \in Nat /\ m \in Nat
    BY <1>1, <2>1
  <2> HIDE DEF b, x, i
  <2>6. (m + 1) * b = m * b + b /\ m * b \in Nat
    BY <2>5, SMT
  <2> DEFINE n == m * b
             l == (m + 1) * b
             t == TicksLeft(p)
             u == TicksLeft(q)
             v == RecordOf(p).ticks
  <2>7. /\ l = n + b /\ n \in Nat
        /\ t = l + (IF i < x THEN x - i ELSE 0)
        /\ u = n + (IF i + 1 < x THEN x - (i + 1) ELSE 0)
        /\ v = b + (IF i < x THEN 1 ELSE 0)
    BY <1>3, <2>3, <2>4, <2>6 DEF b, x, i
  <2> HIDE DEF n, l, t, u, v
  <2>8. v + u = t
    BY <2>5, <2>7, SMT
  <2> QED
    BY <2>8 DEF t, u, v
<1> QED
  BY <1>2, <1>3, <1>4, <1>5, <1>6 DEF q

\* The first place of a stream.
LEMMA NothingUp ==
  ASSUME NEW d \in Nat, NEW s \in Nat \ {0}
  PROVE  RoundedUp(0 * d, s) = 0
<1>1. 0 * d = 0 * s + 0 /\ 0 * d \in Nat
  BY SMT
<1> QED
  BY <1>1, RoundsUp

\* A stream of a block has a duration, and none of its time is given yet.
LEMMA Beginning ==
  ASSUME NEW b \in StreamBlocks, NEW a \in PlannerAxes, Accepts(b, a), NEW c \in 0 .. NsPerSecond - 1
  PROVE  LET g == StreamBegin(Abs(b.delta[a]), DurationOf(b), c)
         IN IsGenerator(g) /\ GridOK(g) /\ SplitOK(g) /\ TicksLeft(g) = 0
            /\ g.carry = c /\ g.done = 0 /\ g.records = 0 /\ g.index = 0
<1> DEFINE n == b.master * b.interval
           r == b.rate
           d == DurationOf(b)
           s == Abs(b.delta[a])
           g == StreamBegin(s, d, c)
<1>1. n \in Nat \ {0} /\ r \in Nat \ {0}
  <2>1. b.master \in Nat \ {0} /\ b.interval \in Nat \ {0} /\ b.rate \in Nat \ {0}
    BY StreamBlocksAssumption DEF Accepts
  <2> QED
    BY <2>1, SMT
<1>2. d = RoundedUp(n, r)
  BY DEF DurationOf
<1>3. s \in Nat
  BY StreamBlocksAssumption DEF Abs
<1> HIDE DEF n, r, d, s
<1>4. d \in Nat \ {0}
  <2> DEFINE q == n \div r
             m == (n % r)
  <2>1. q \in Nat /\ m \in Nat /\ n = q * r + m
    BY <1>1, Division, SMT
  <2>2. d = q + (IF m # 0 THEN 1 ELSE 0)
    BY <1>2 DEF RoundedUp
  <2> HIDE DEF q, m
  <2>3. q = 0 => q * r = 0
    BY <1>1, SMT
  <2> QED
    BY <1>1, <2>1, <2>2, <2>3
<1>5. g = [steps |-> s, duration |-> d, grid |-> 0, carry |-> c, done |-> 0,
           records |-> 0, index |-> 0, base |-> 0, extra |-> 0]
  BY DEF StreamBegin
<1> HIDE DEF g
<1>6. /\ g.steps = s /\ g.duration = d /\ g.grid = 0 /\ g.carry = c /\ g.done = 0
      /\ g.records = 0 /\ g.index = 0 /\ g.base = 0 /\ g.extra = 0
  BY <1>5
<1>7. IsGenerator(g)
  <2>1. g \in Generators
    BY <1>3, <1>4, <1>5 DEF Generators
  <2> QED
    BY <1>3, <1>6, <2>1 DEF IsGenerator, Intervals
<1>8. GridOK(g)
  <2>1. CASE s = 0
    BY <1>6, <2>1 DEF GridOK
  <2>2. CASE s # 0
    <3>1. 0 * d = 0 /\ (0 % s) = 0
      BY <1>3, <1>4, <2>2, SMT
    <3> QED
      BY <1>6, <3>1 DEF GridOK
  <2> QED
    BY <2>1, <2>2
<1>9. TicksLeft(g) = 0
  BY <1>6 DEF TicksLeft
<1>10. SplitOK(g)
  BY <1>6 DEF SplitOK
<1> QED
  BY <1>6, <1>7, <1>8, <1>9, <1>10 DEF g, d, s

LEMMA InitFill == GeneratorInit => FillIInv
<1> SUFFICES ASSUME GeneratorInit PROVE FillIInv
  OBVIOUS
<1> DEFINE g == generator
<1>1. PICK b \in StreamBlocks, a \in PlannerAxes : Accepts(b, a) /\ g = StreamBegin(Abs(b.delta[a]), DurationOf(b), 0)
  BY DEF GeneratorInit
<1>2. 0 \in 0 .. NsPerSecond - 1
  BY StreamConstants
<1>3. IsGenerator(g) /\ GridOK(g) /\ SplitOK(g) /\ TicksLeft(g) = 0
      /\ g.carry = 0 /\ g.done = 0 /\ g.records = 0 /\ g.index = 0
  BY <1>1, <1>2, Beginning
<1>4. /\ record = [ticks |-> 0, pulse |-> FALSE] /\ given = 0 /\ firstCarry = 0 /\ past = 0
      /\ pulses = 0 /\ pulseAt = 0
  BY DEF GeneratorInit
<1>5. GeneratorTypeOK
  BY <1>2, <1>3, <1>4 DEF GeneratorTypeOK
<1>6. ClockOK(g)
  <2>1. PlaceOf(g, g.done) = 0
    <3>1. PlaceOf(g, 0) = past
      BY <1>3, <1>4, EndsOfPlace
    <3> QED
      BY <1>3, <1>4, <3>1
  <2>2. 0 * NsPerSecond = 0 /\ 0 * TimerClock = 0
    BY StreamConstants, SMT
  <2> QED
    BY <1>3, <1>4, <2>1, <2>2 DEF ClockOK
<1>7. PulsesOK /\ RecordsFit
  BY <1>3, <1>4 DEF PulsesOK, RecordsFit
<1> QED
  BY <1>3, <1>5, <1>6, <1>7 DEF FillIInv

\* A stream begins at the time, and with the carry, where its chain has come to.
LEMMA Starts ==
  ASSUME NEW c \in 0 .. NsPerSecond - 1, Begins(c),
         given' \in Nat, past' \in Nat, firstCarry' \in 0 .. NsPerSecond - 1,
         given' * NsPerSecond + c = past' * TimerClock + firstCarry'
  PROVE  FillIInv'
<1>1. PICK b \in StreamBlocks, a \in PlannerAxes :
        Accepts(b, a) /\ generator' = StreamBegin(Abs(b.delta[a]), DurationOf(b), c)
  BY DEF Begins
<1> DEFINE g == StreamBegin(Abs(b.delta[a]), DurationOf(b), c)
<1>2. IsGenerator(g) /\ GridOK(g) /\ SplitOK(g) /\ TicksLeft(g) = 0
      /\ g.carry = c /\ g.done = 0 /\ g.records = 0 /\ g.index = 0
  BY <1>1, Beginning
<1>3. generator' = g
  BY <1>1
<1> HIDE DEF g
<1>4. pulses' = 0 /\ pulseAt' = 0 /\ record' = [ticks |-> 0, pulse |-> FALSE]
  BY DEF Begins
<1>5. GeneratorTypeOK'
  BY <1>2, <1>3, <1>4 DEF GeneratorTypeOK, IsGenerator
<1>6. ClockOK(generator)'
  <2>1. PlaceOf(generator, generator.done)' = past' + RoundedUp(0 * g.duration, Intervals(g))
    BY <1>2, <1>3 DEF PlaceOf
  <2>2. RoundedUp(0 * g.duration, Intervals(g)) = 0
    BY <1>2, Fields, NothingUp
  <2>3. PlaceOf(generator, generator.done)' = past'
    BY <2>1, <2>2
  <2>4. TicksLeft(generator)' = 0
    BY <1>2, <1>3 DEF TicksLeft
  <2> QED
    BY <1>2, <1>3, <2>3, <2>4 DEF ClockOK
<1>7. PulsesOK' /\ RecordsFit'
  BY <1>2, <1>3, <1>4 DEF PulsesOK, RecordsFit
<1> QED
  BY <1>2, <1>3, <1>5, <1>6, <1>7 DEF FillIInv, GridOK, SplitOK

LEMMA BeginAloneKeeps == FillIInv /\ BeginAlone => FillIInv'
<1> SUFFICES ASSUME BeginAlone PROVE FillIInv'
  OBVIOUS
<1>1. Begins(0) /\ firstCarry' = 0 /\ past' = 0 /\ given' = 0
  BY DEF BeginAlone
<1>2. 0 \in 0 .. NsPerSecond - 1 /\ 0 * NsPerSecond = 0 /\ 0 * TimerClock = 0
  BY StreamConstants, SMT
<1> QED
  BY <1>1, <1>2, Starts

LEMMA BeginAfterAnotherKeeps == FillIInv /\ BeginAfterAnother => FillIInv'
<1> SUFFICES ASSUME FillIInv, BeginAfterAnother PROVE FillIInv'
  OBVIOUS
<1> DEFINE g == generator
           c == g.carry
<1>1. IsGenerator(g) /\ given \in Nat /\ firstCarry \in 0 .. NsPerSecond - 1 /\ past \in Nat
  BY DEF FillIInv, GeneratorTypeOK
<1>2. c \in 0 .. NsPerSecond - 1 /\ Begins(c)
  BY <1>1 DEF IsGenerator, Generators, BeginAfterAnother
<1>3. CASE StreamIsDone(g)
  <2>1. past' = past + g.duration /\ given' = given /\ firstCarry' = firstCarry
    BY <1>3 DEF BeginAfterAnother
  <2>2. given * NsPerSecond + c = (past + g.duration) * TimerClock + firstCarry
    <3>1. AtInterval(g) /\ g.done = Intervals(g)
      BY <1>3 DEF StreamIsDone
    <3>2. given * NsPerSecond + c = PlaceOf(g, g.done) * TimerClock + firstCarry
      BY <3>1, AtATick
    <3>3. PlaceOf(g, g.done) = past + g.duration
      BY <1>1, <3>1, EndsOfPlace
    <3> QED
      BY <3>2, <3>3
  <2>3. past + g.duration \in Nat
    BY <1>1, Fields
  <2> HIDE DEF c
  <2> QED
    BY <1>1, <1>2, <2>1, <2>2, <2>3, Starts
<1>4. CASE ~StreamIsDone(g)
  <2>1. firstCarry' = c /\ past' = 0 /\ given' = 0
    BY <1>4 DEF BeginAfterAnother
  <2>2. 0 * NsPerSecond = 0 /\ 0 * TimerClock = 0
    BY StreamConstants, SMT
  <2> HIDE DEF c
  <2> QED
    BY <1>2, <2>1, <2>2, Starts
<1> QED
  BY <1>3, <1>4

LEMMA FillKeeps == FillIInv /\ Fill => FillIInv'
<1> SUFFICES ASSUME FillIInv, Fill PROVE FillIInv'
  OBVIOUS
<1> DEFINE g == generator
           p == IF AtInterval(g) THEN Prepared(g) ELSE g
           q == [p EXCEPT !.index = p.index + 1]
<1>1. /\ IsGenerator(g) /\ given \in Nat /\ firstCarry \in 0 .. NsPerSecond - 1 /\ past \in Nat
      /\ pulses \in Nat /\ pulseAt \in Nat
      /\ GridOK(g) /\ ClockOK(g) /\ SplitOK(g) /\ PulsesOK /\ RecordsFit
  BY DEF FillIInv, GeneratorTypeOK
<1>2. /\ ~StreamIsDone(g) /\ ~Refuses(g)
      /\ generator' = q /\ record' = RecordOf(p) /\ given' = given + RecordOf(p).ticks
      /\ IF RecordOf(p).pulse THEN pulses' = pulses + 1 /\ pulseAt' = given
                              ELSE pulses' = pulses /\ pulseAt' = pulseAt
      /\ firstCarry' = firstCarry /\ past' = past
  BY DEF Fill
<1>3. /\ IsGenerator(p) /\ p.index < p.records /\ p.steps = g.steps /\ p.duration = g.duration
      /\ GridOK(p) /\ ClockOK(p) /\ SplitOK(p)
      /\ \/ /\ AtInterval(g) /\ p.index = 0 /\ p.done = g.done + 1
            /\ g.steps # 0 => RecordOf(p).ticks > PulseTicks /\ LengthOf(p.done) >= PulseTicks + LowTicks
         \/ p.index > 0 /\ p.done = g.done
  <2>1. CASE AtInterval(g)
    <3>1. p = Prepared(g)
      BY <2>1
    <3> HIDE DEF p
    <3> QED
      BY <1>2, <2>1, <3>1, Prepares
  <2>2. CASE ~AtInterval(g)
    <3>1. p = g
      BY <2>2
    <3>2. g.index < g.records
      BY <1>1, <2>2, Fields DEF AtInterval
    <3> HIDE DEF p
    <3> QED
      BY <1>1, <3>1, <3>2 DEF PulsesOK
  <2> QED
    BY <2>1, <2>2
<1> HIDE DEF p
<1>4. /\ q \in Generators
      /\ q.steps = p.steps /\ q.duration = p.duration /\ q.grid = p.grid /\ q.carry = p.carry /\ q.done = p.done
      /\ q.records = p.records /\ q.index = p.index + 1 /\ q.base = p.base /\ q.extra = p.extra
      /\ RecordOf(p) \in [ticks : Nat, pulse : BOOLEAN]
      /\ RecordOf(p).ticks \in MinRecord .. MaxRecord
      /\ RecordOf(p).pulse = (p.steps # 0 /\ p.index = 0)
      /\ RecordOf(p).ticks + TicksLeft(q) = TicksLeft(p)
  BY <1>3, Writes
<1> HIDE DEF q
<1>5. Intervals(q) = Intervals(g) /\ Intervals(p) = Intervals(g)
  BY <1>3, <1>4 DEF Intervals
<1>6. /\ p.index \in Nat /\ p.records \in Nat /\ p.done \in Nat /\ p.done <= Intervals(p)
      /\ p.extra <= p.records /\ p.carry \in Nat /\ g.done \in Nat
  BY <1>1, <1>3, Fields
<1>7. RecordOf(p).ticks \in Nat
  BY <1>4
<1>8. GeneratorTypeOK'
  <2>1. IsGenerator(q)
    BY <1>3, <1>4, <1>5, <1>6 DEF IsGenerator
  <2>2. IsGenerator(generator)'
    BY <1>2, <2>1 DEF IsGenerator
  <2>3. pulses' \in Nat /\ pulseAt' \in Nat
    BY <1>1, <1>2
  <2> QED
    BY <1>1, <1>2, <1>4, <1>7, <2>2, <2>3 DEF GeneratorTypeOK
<1>9. GridOK(generator)'
  BY <1>2, <1>3, <1>4 DEF GridOK
<1>10. ClockOK(generator)'
  <2>1. PlaceOf(generator, generator.done)' = PlaceOf(p, p.done)
    BY <1>2, <1>4, <1>5 DEF PlaceOf
  <2>2. TicksLeft(generator)' = TicksLeft(q) /\ generator'.carry = p.carry
    BY <1>2, <1>4 DEF TicksLeft
  <2>3. TicksLeft(q) \in Nat
    <3>1. IsGenerator(q)
      BY <1>3, <1>4, <1>5, <1>6 DEF IsGenerator
    <3> QED
      BY <3>1, Fields
  <2>4. given' + TicksLeft(q) = given + TicksLeft(p)
    BY <1>1, <1>2, <1>4, <1>7, <2>3
  <2> QED
    BY <1>2, <1>3, <2>1, <2>2, <2>4 DEF ClockOK
<1>11. SplitOK(generator)'
  BY <1>2, <1>3, <1>4 DEF SplitOK
<1>12. \A n : TickOf(n)' = TickOf(n)
  BY <1>2, <1>3, <1>4, <1>5 DEF TickOf
<1>13. \A n : LengthOf(n)' = LengthOf(n)
  BY <1>12 DEF LengthOf
<1>14. CASE RecordOf(p).pulse
  <2>1. p.steps # 0 /\ p.index = 0
    BY <1>4, <1>14
  <2>2. AtInterval(g) /\ p.done = g.done + 1 /\ g.steps # 0
        /\ RecordOf(p).ticks > PulseTicks /\ LengthOf(p.done) >= PulseTicks + LowTicks
    BY <1>3, <2>1
  <2>3. pulses = g.done /\ pulses' = g.done + 1 /\ pulseAt' = given
    BY <1>1, <1>2, <1>14, <2>2 DEF PulsesOK
  <2>4. pulseAt' = TickOf(pulses' - 1)
    <3>1. pulses' - 1 = g.done
      BY <1>6, <2>3
    <3>2. given = TickOf(g.done)
      BY <2>2, AtATick
    <3> QED
      BY <2>3, <3>1, <3>2
  <2>5. PulsesOK'
    BY <1>2, <1>4, <1>6, <1>12, <2>1, <2>2, <2>3, <2>4 DEF PulsesOK
  <2>6. RecordsFit'
    <3>1. \A n \in 1 .. pulses' : LengthOf(n)' >= PulseTicks + LowTicks
      <4> SUFFICES ASSUME NEW n \in 1 .. g.done + 1 PROVE LengthOf(n) >= PulseTicks + LowTicks
        BY <1>13, <2>3
      <4>1. CASE n = g.done + 1
        BY <2>2, <4>1
      <4>2. CASE n \in 1 .. pulses
        BY <1>1, <4>2 DEF RecordsFit
      <4> QED
        BY <1>6, <2>3, <4>1, <4>2
    <3> QED
      BY <1>2, <1>4, <2>2, <3>1 DEF RecordsFit
  <2> QED
    BY <1>8, <1>9, <1>10, <1>11, <2>5, <2>6 DEF FillIInv
<1>15. CASE ~RecordOf(p).pulse
  <2>1. pulses' = pulses /\ pulseAt' = pulseAt
    BY <1>2, <1>15
  <2>2. g.steps = 0 \/ p.done = g.done
    BY <1>3, <1>4, <1>15
  <2>3. PulsesOK'
    <3>1. generator'.index > 0
      BY <1>2, <1>4, <1>6
    <3>2. pulses' = IF generator'.steps = 0 THEN 0 ELSE generator'.done
      BY <1>1, <1>2, <1>3, <1>4, <2>1, <2>2 DEF PulsesOK
    <3>3. pulses' > 0 => pulseAt' = TickOf(pulses' - 1)
      BY <1>1, <2>1 DEF PulsesOK
    <3> QED
      BY <1>12, <3>1, <3>2, <3>3 DEF PulsesOK
  <2>4. RecordsFit'
    <3>1. \A n \in 1 .. pulses' : LengthOf(n)' >= PulseTicks + LowTicks
      BY <1>1, <1>13, <2>1 DEF RecordsFit
    <3> QED
      BY <1>2, <1>4, <1>15, <3>1 DEF RecordsFit
  <2> QED
    BY <1>8, <1>9, <1>10, <1>11, <2>3, <2>4 DEF FillIInv
<1> QED
  BY <1>14, <1>15

\* Whatever streams are begun and filled, alone or after each other, the invariant of the
\* generator holds: the grid of nanoseconds, the clock of the chain, the records of the
\* current interval and the pulses agree.
THEOREM FillInvariance == GeneratorSpec => []FillIInv
<1>1. FillIInv /\ [GeneratorNext]_generatorVars => FillIInv'
  <2> SUFFICES ASSUME FillIInv, [GeneratorNext]_generatorVars PROVE FillIInv'
    OBVIOUS
  <2>1. CASE BeginAlone
    BY <2>1, BeginAloneKeeps
  <2>2. CASE BeginAfterAnother
    BY <2>2, BeginAfterAnotherKeeps
  <2>3. CASE Fill
    BY <2>3, FillKeeps
  <2>4. CASE UNCHANGED generatorVars
    BY <2>4 DEF generatorVars, FillIInv, GeneratorTypeOK, GridOK, ClockOK, PlaceOf, TicksLeft, SplitOK,
                PulsesOK, RecordsFit, TickOf, LengthOf
  <2> QED
    BY <2>1, <2>2, <2>3, <2>4 DEF GeneratorNext
<1> QED
  BY <1>1, InitFill, PTL DEF GeneratorSpec

\* Every step begins at its tick, and a chain of streams takes exactly its duration, for
\* every timer clock, block and chain.
THEOREM StreamsKeepTime == GeneratorSpec => []StreamKeepsTime
<1>1. FillIInv => StreamKeepsTime
  <2> SUFFICES ASSUME FillIInv PROVE StreamKeepsTime
    OBVIOUS
  <2>1. IsGenerator(generator) /\ past \in Nat /\ PulsesOK
    BY DEF FillIInv, GeneratorTypeOK
  <2>2. ASSUME StreamIsDone(generator)
        PROVE  /\ pulses = generator.steps
               /\ given * NsPerSecond + generator.carry = (past + generator.duration) * TimerClock + firstCarry
    <3>1. AtInterval(generator) /\ generator.done = Intervals(generator)
      BY <2>2 DEF StreamIsDone
    <3>2. pulses = generator.steps
      BY <2>1, <3>1 DEF PulsesOK, Intervals
    <3>3. given * NsPerSecond + generator.carry = PlaceOf(generator, generator.done) * TimerClock + firstCarry
      BY <3>1, AtATick
    <3>4. PlaceOf(generator, generator.done) = past + generator.duration
      BY <2>1, <3>1, EndsOfPlace
    <3> QED
      BY <3>2, <3>3, <3>4
  <2> QED
    BY <2>1, <2>2 DEF StreamKeepsTime, PulsesOK
<1> QED
  BY <1>1, FillInvariance, PTL

\* Every record fits the timer, the record of a pulse outlasts the pulse and each step
\* leaves the pin low for long enough, for every configuration the code accepts.
THEOREM RecordsAlwaysFit == GeneratorSpec => []RecordsFit
<1>1. FillIInv => RecordsFit
  BY DEF FillIInv
<1> QED
  BY <1>1, FillInvariance, PTL

\* A stream is refused only for lack of room, for every configuration the code accepts.
THEOREM RefusalsAreJust == GeneratorSpec => []RefusedForLackOfRoom
BY RefusalIsJust, FillInvariance, PTL

\* The test for room draws its line right on both sides, for every configuration that
\* step_stream_generator's init accepts: what it passes fits and what it refuses could not.
THEOREM RoomIsJudgedRight == GeneratorSpec => []FitsOrIsRefused
<1>1. RecordsFit /\ RefusedForLackOfRoom => FitsOrIsRefused
  BY DEF FitsOrIsRefused
<1> QED
  BY <1>1, RecordsAlwaysFit, RefusalsAreJust, PTL
=============================================================================
