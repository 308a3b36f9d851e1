------------------------------ MODULE SafeMath ------------------------------
(***************************************************************************)
(* safe_math.go: additions, subtractions and conversions of integers that  *)
(* say when they overflow, and what they do for the rounds of the state    *)
(* machine.  Go's own arithmetic wraps around, and so do the tests before  *)
(* each operation.                                                         *)
(***************************************************************************)
EXTENDS Integers, TLAPS

CONSTANTS
    Half32,     \* 2^31
    Half8       \* 2^7

(* Any widths will do; 1 is a number of each.                               *)
Widths == Half32 \in Nat /\ Half32 > 1 /\ Half8 \in Nat /\ Half8 > 1

MaxInt32 == Half32 - 1
MinInt32 == -Half32
MaxInt8 == Half8 - 1
MinInt8 == -Half8
MaxUint8 == 2 * Half8 - 1

Int32 == MinInt32..MaxInt32
Int8 == MinInt8..MaxInt8
Uint8 == 0..MaxUint8

(* The value that the width leaves of x.                                    *)
WrapInt32(x) == ((x - MinInt32) % (2 * Half32)) + MinInt32
WrapInt8(x) == ((x - MinInt8) % (2 * Half8)) + MinInt8
WrapUint8(x) == x % (2 * Half8)

(* A panic or an error gives no value.                                      *)
Overflow == [ok |-> FALSE, value |-> 0]
Value(x) == [ok |-> TRUE, value |-> x]

SafeAddInt32(a, b) ==
    IF \/ b > 0 /\ a > WrapInt32(MaxInt32 - b)
       \/ b < 0 /\ a < WrapInt32(MinInt32 - b)
    THEN Overflow
    ELSE Value(WrapInt32(a + b))

SafeSubInt32(a, b) ==
    IF \/ b > 0 /\ a < WrapInt32(MinInt32 + b)
       \/ b < 0 /\ a > WrapInt32(MaxInt32 + b)
    THEN Overflow
    ELSE Value(WrapInt32(a - b))

SafeConvertInt32(a) ==
    IF a > MaxInt32 \/ a < MinInt32 THEN Overflow ELSE Value(WrapInt32(a))

SafeConvertUint8(a) ==
    IF a > MaxUint8 \/ a < 0 THEN Overflow ELSE Value(WrapUint8(a))

SafeConvertInt8(a) ==
    IF a > MaxInt8 \/ a < MinInt8 THEN Overflow ELSE Value(WrapInt8(a))

-----------------------------------------------------------------------------

(* What an operation must be: its exact result, or an overflow when that    *)
(* is none of the type.                                                     *)
Exact(result, x, Type) ==
    result = IF x \in Type THEN Value(x) ELSE Overflow

LEMMA SmallModulo ==
  ASSUME NEW n \in Nat \ {0}, NEW y \in 0..(n - 1)
  PROVE  y % n = y
  BY SMT

LEMMA WrapIsIdentity ==
  ASSUME Widths, NEW x \in Int32
  PROVE  WrapInt32(x) = x
<1>1. 2 * Half32 \in Nat \ {0} /\ x - MinInt32 \in 0..(2 * Half32 - 1)
    BY DEF Widths, Int32, MinInt32, MaxInt32
<1>2. (x - MinInt32) % (2 * Half32) = x - MinInt32
    BY <1>1, SmallModulo
<1>3. QED
    BY <1>2 DEF Widths, WrapInt32, Int32, MinInt32, MaxInt32

(* SafeAddInt32 panics when the sum overflows, at any of the boundaries,    *)
(* and only then; the test itself never wraps around.                       *)
THEOREM SafeAddIsExact ==
  ASSUME Widths, NEW a \in Int32, NEW b \in Int32
  PROVE  Exact(SafeAddInt32(a, b), a + b, Int32)
<1>1. b > 0 => WrapInt32(MaxInt32 - b) = MaxInt32 - b
    BY WrapIsIdentity DEF Widths, Int32, MinInt32, MaxInt32
<1>2. b < 0 => WrapInt32(MinInt32 - b) = MinInt32 - b
    BY WrapIsIdentity DEF Widths, Int32, MinInt32, MaxInt32
<1>3. a + b \in Int32 => WrapInt32(a + b) = a + b
    BY WrapIsIdentity
<1>4. a + b \in Int32 <=> ~((b > 0 /\ a > MaxInt32 - b) \/ (b < 0 /\ a < MinInt32 - b))
    BY DEF Widths, Int32, MinInt32, MaxInt32
<1>5. QED
    BY <1>1, <1>2, <1>3, <1>4 DEF Exact, SafeAddInt32

(* SafeSubInt32 panics when the difference overflows, and only then: also   *)
(* for the least integer, which has no negative.                            *)
THEOREM SafeSubIsExact ==
  ASSUME Widths, NEW a \in Int32, NEW b \in Int32
  PROVE  Exact(SafeSubInt32(a, b), a - b, Int32)
<1>1. b > 0 => WrapInt32(MinInt32 + b) = MinInt32 + b
    BY WrapIsIdentity DEF Widths, Int32, MinInt32, MaxInt32
<1>2. b < 0 => WrapInt32(MaxInt32 + b) = MaxInt32 + b
    BY WrapIsIdentity DEF Widths, Int32, MinInt32, MaxInt32
<1>3. a - b \in Int32 => WrapInt32(a - b) = a - b
    BY WrapIsIdentity
<1>4. a - b \in Int32 <=> ~((b > 0 /\ a < MinInt32 + b) \/ (b < 0 /\ a > MaxInt32 + b))
    BY DEF Widths, Int32, MinInt32, MaxInt32
<1>5. QED
    BY <1>1, <1>2, <1>3, <1>4 DEF Exact, SafeSubInt32

(* The conversions lose no value that fits, and let none pass that does not. *)
THEOREM SafeConvertIsExact ==
  ASSUME Widths, NEW a \in Int
  PROVE  /\ Exact(SafeConvertInt32(a), a, Int32)
         /\ Exact(SafeConvertUint8(a), a, Uint8)
         /\ Exact(SafeConvertInt8(a), a, Int8)
<1>1. Exact(SafeConvertInt32(a), a, Int32)
  <2>1. a \in Int32 <=> ~(a > MaxInt32 \/ a < MinInt32)
      BY DEF Widths, Int32, MinInt32, MaxInt32
  <2>2. QED
      BY <2>1, WrapIsIdentity DEF Exact, SafeConvertInt32, Value
<1>2. Exact(SafeConvertUint8(a), a, Uint8)
  <2>1. a \in Uint8 <=> ~(a > MaxUint8 \/ a < 0)
      BY DEF Widths, Uint8, MaxUint8
  <2>2. a \in Uint8 => WrapUint8(a) = a
      BY SmallModulo DEF Widths, Uint8, MaxUint8, WrapUint8
  <2>3. QED
      BY <2>1, <2>2 DEF Exact, SafeConvertUint8, Value
<1>3. Exact(SafeConvertInt8(a), a, Int8)
  <2>1. a \in Int8 <=> ~(a > MaxInt8 \/ a < MinInt8)
      BY DEF Widths, Int8, MinInt8, MaxInt8
  <2>2. a \in Int8 => WrapInt8(a) = a
    <3>1. SUFFICES ASSUME a \in Int8 PROVE WrapInt8(a) = a
        OBVIOUS
    <3>2. 2 * Half8 \in Nat \ {0} /\ a - MinInt8 \in 0..(2 * Half8 - 1)
        BY <3>1 DEF Widths, Int8, MinInt8, MaxInt8
    <3>3. (a - MinInt8) % (2 * Half8) = a - MinInt8
        BY <3>2, SmallModulo
    <3>4. QED
        BY <3>1, <3>3 DEF Widths, WrapInt8, Int8, MinInt8, MaxInt8
  <2>3. QED
      BY <2>1, <2>2 DEF Exact, SafeConvertInt8, Value
<1>4. QED
    BY <1>1, <1>2, <1>3

-----------------------------------------------------------------------------

(* The rounds a node can be in: enterNewRound(round) panics in the addition *)
(* of the round it tracks ahead when there is none.                         *)
EnteredRounds == {round \in Int32 : round >= 0 /\ SafeAddInt32(round, 1).ok}

(* The round that handleTimeout enters after that of the timeout, by an     *)
(* addition that is not checked.                                            *)
TimeoutRound(round) == WrapInt32(round + 1)

(* The unchecked ti.Round + 1 of handleTimeout never wraps around: a node   *)
(* panics on its way into the last round, so no timeout of that is ever     *)
(* scheduled.  And the difference from the present round to a later one,    *)
(* by which the proposer moves on, never overflows.                         *)
THEOREM RoundsNeverWrap ==
  ASSUME Widths, NEW round \in EnteredRounds
  PROVE  /\ TimeoutRound(round) = round + 1
         /\ \A next \in Int32 :
                next >= round => SafeSubInt32(next, round) = Value(next - round)
<1>1. round \in Int32 /\ round >= 0 /\ 1 \in Int32
    BY DEF Widths, EnteredRounds, Int32, MinInt32, MaxInt32
<1>2. round + 1 \in Int32
  <2>1. SafeAddInt32(round, 1).ok
      BY DEF EnteredRounds
  <2>2. Exact(SafeAddInt32(round, 1), round + 1, Int32)
      BY <1>1, SafeAddIsExact
  <2>3. QED
      BY <2>1, <2>2 DEF Exact, Overflow
<1>3. TimeoutRound(round) = round + 1
    BY <1>2, WrapIsIdentity DEF TimeoutRound
<1>4. ASSUME NEW next \in Int32, next >= round
      PROVE  SafeSubInt32(next, round) = Value(next - round)
  <2>1. next - round \in Int32
      BY <1>1, <1>4 DEF Widths, Int32, MinInt32, MaxInt32
  <2>2. QED
      BY <1>1, <2>1, SafeSubIsExact DEF Exact
<1>5. QED
    BY <1>3, <1>4
=============================================================================
