--------------------- MODULE SteeringCalibrationProofs ---------------------
(***************************************************************************)
(* Theorems about SteeringCalibration, for every set of calibrations,      *)
(* readings, motor positions and demands.                                  *)
(***************************************************************************)
EXTENDS SteeringCalibration, TLAPS

-----------------------------------------------------------------------------
(* Integer arithmetic. *)

(* The quotient and the remainder of a division by a positive number. *)
LEMMA Division ==
  ASSUME NEW x \in Int, NEW d \in Nat \ {0}
  PROVE  /\ x \div d \in Int
         /\ x % d \in Int
         /\ x = d * (x \div d) + (x % d)
         /\ 0 <= x % d /\ x % d < d
  OBVIOUS

(* Rounding to a whole number is off by one half at most. *)
LEMMA RoundedError ==
  ASSUME NEW n \in Int, NEW r \in Nat \ {0}
  PROVE  /\ Rounded(n, 2 * r) \in Int
         /\ 2 * (r * Rounded(n, 2 * r)) - n <= r
         /\ n - 2 * (r * Rounded(n, 2 * r)) <= r
<1> DEFINE d == 2 * (2 * r)
           m == IF n < 0 THEN 2 * (-n) + 2 * r ELSE 2 * n + 2 * r
           q == m \div d
<1>1. d \in Nat \ {0} /\ m \in Int
  OBVIOUS
<1>2. q \in Int /\ m % d \in Int /\ m = d * q + (m % d) /\ 0 <= m % d /\ m % d < d
  <2> HIDE DEF d, m
  <2> QED BY <1>1, Division DEF q
<1>3. Rounded(n, 2 * r) = IF n < 0 THEN -q ELSE q
  BY DEF Rounded
<1>4. d * q = 4 * (r * q) /\ r * q \in Int
  <2> HIDE DEF q
  <2> QED BY <1>2
<1> DEFINE p == r * q
<1>5. p \in Int /\ m - 4 * p >= 0 /\ m - 4 * p < 4 * r
  <2>1. m = 4 * p + (m % d) /\ d = 4 * r
    BY <1>2, <1>4
  <2> HIDE DEF d, m, p
  <2> QED BY <1>1, <1>2, <1>4, <2>1 DEF p
<1>6. CASE n < 0
  <2>1. Rounded(n, 2 * r) = -q /\ r * (-q) = -p
    <3>1. r * (-q) = -(r * q)
      <4> HIDE DEF q
      <4> QED BY <1>2
    <3> QED BY <1>3, <1>6, <3>1
  <2>2. m = 2 * r - 2 * n
    BY <1>6
  <2> HIDE DEF m, p, q
  <2> QED BY <1>2, <1>5, <2>1, <2>2
<1>7. CASE ~(n < 0)
  <2>1. Rounded(n, 2 * r) = q /\ r * q = p
    BY <1>3, <1>7
  <2>2. m = 2 * r + 2 * n
    BY <1>7
  <2> HIDE DEF m, p, q
  <2> QED BY <1>2, <1>5, <2>1, <2>2
<1> QED BY <1>6, <1>7

(* A number between 2 r a and 2 r b is rounded to one between a and b. *)
LEMMA RoundedBetween ==
  ASSUME NEW n \in Int, NEW r \in Nat \ {0}, NEW a \in Int, NEW b \in Int,
         2 * (r * a) <= n, n <= 2 * (r * b)
  PROVE  Rounded(n, 2 * r) \in a..b
<1> DEFINE k == Rounded(n, 2 * r)
<1>1. k \in Int /\ 2 * (r * k) - n <= r /\ n - 2 * (r * k) <= r
  BY RoundedError
<1> HIDE DEF k
<1>2. ASSUME k < a PROVE FALSE
  <2>1. k + 1 <= a
    BY <1>1, <1>2
  <2>2. r * (k + 1) <= r * a
    BY <1>1, <2>1
  <2>3. r * (k + 1) = r * k + r
    BY <1>1
  <2>4. r * k \in Int /\ r * a \in Int
    BY <1>1
  <2> QED BY <1>1, <2>2, <2>3, <2>4
<1>3. ASSUME k > b PROVE FALSE
  <2>1. b + 1 <= k
    BY <1>1, <1>3
  <2>2. r * (b + 1) <= r * k
    BY <1>1, <2>1
  <2>3. r * (b + 1) = r * b + r
    OBVIOUS
  <2>4. r * k \in Int /\ r * b \in Int
    BY <1>1
  <2> QED BY <1>1, <2>2, <2>3, <2>4
<1>4. a <= k /\ k <= b
  BY <1>1, <1>2, <1>3
<1> QED BY <1>1, <1>4 DEF k

(* The int16_t of a number is a number, and the number if it fits. *)
LEMMA Int16Integer ==
  ASSUME NEW n \in Int
  PROVE  Int16(n) \in Int
BY Division, n + 32768 \in Int, 65536 \in Nat \ {0} DEF Int16

LEMMA Int16Keeps ==
  ASSUME NEW n \in Int, -32768 <= n, n <= 32767
  PROVE  Int16(n) = n
<1> DEFINE k == n + 32768
<1>1. k \in Int /\ 0 <= k /\ k < 65536
  OBVIOUS
<1>2. k % 65536 = k
  <2> HIDE DEF k
  <2>1. k % 65536 \in Int /\ k \div 65536 \in Int
        /\ k = 65536 * (k \div 65536) + (k % 65536)
        /\ 0 <= k % 65536 /\ k % 65536 < 65536
    BY <1>1, Division, 65536 \in Nat \ {0}
  <2> QED BY <1>1, <2>1
<1> QED BY <1>2 DEF Int16

(* The quotient towards 0 is monotone and no larger than its dividend. *)
LEMMA QuotientOf ==
  ASSUME NEW n \in Int
  PROVE  /\ Quotient(n, 16384) \in Int
         /\ n >= 0 => /\ 16384 * Quotient(n, 16384) <= n
                      /\ n < 16384 * Quotient(n, 16384) + 16384
                      /\ Quotient(n, 16384) >= 0
         /\ n < 0 => /\ 16384 * Quotient(n, 16384) >= n
                     /\ n > 16384 * Quotient(n, 16384) - 16384
                     /\ Quotient(n, 16384) <= 0
<1>1. CASE n >= 0
  <2> DEFINE q == n \div 16384
  <2>1. q \in Int /\ n % 16384 \in Int /\ n = 16384 * q + (n % 16384)
        /\ 0 <= n % 16384 /\ n % 16384 < 16384
    BY Division, 16384 \in Nat \ {0}
  <2>2. Quotient(n, 16384) = q
    BY <1>1 DEF Quotient
  <2> HIDE DEF q
  <2> QED BY <1>1, <2>1, <2>2
<1>2. CASE n < 0
  <2> DEFINE k == -n
             q == k \div 16384
  <2>1. k \in Int /\ k = -n
    OBVIOUS
  <2>2. q \in Int /\ k % 16384 \in Int /\ k = 16384 * q + (k % 16384)
        /\ 0 <= k % 16384 /\ k % 16384 < 16384
    <3> HIDE DEF k
    <3> QED BY <2>1, Division, 16384 \in Nat \ {0} DEF q
  <2>3. Quotient(n, 16384) = -q
    BY <1>2 DEF Quotient
  <2> HIDE DEF q, k
  <2> QED BY <1>2, <2>1, <2>2, <2>3
<1> QED BY <1>1, <1>2

LEMMA MillivoltsInteger ==
  ASSUME NEW raw \in Int
  PROVE  AnalogMillivolts(raw) \in Int
BY QuotientOf, Int16Integer, raw * 20000 \in Int DEF AnalogMillivolts

(* Within +-20 V nothing wraps, and the order of the voltages is kept. *)
LEMMA MillivoltsRise ==
  ASSUME NEW a \in Int, NEW b \in Int, -16384 <= a, a <= b, b <= 16384
  PROVE  AnalogMillivolts(a) <= AnalogMillivolts(b)
<1> DEFINE x == a * 20000
           y == b * 20000
           p == Quotient(x, 16384)
           q == Quotient(y, 16384)
<1>1. x \in Int /\ y \in Int /\ x <= y /\ -327680000 <= x /\ y <= 327680000
  OBVIOUS
<1> HIDE DEF x, y
<1>2. /\ p \in Int
      /\ x >= 0 => 16384 * p <= x /\ x < 16384 * p + 16384 /\ p >= 0
      /\ x < 0 => 16384 * p >= x /\ x > 16384 * p - 16384 /\ p <= 0
  BY <1>1, QuotientOf
<1>3. /\ q \in Int
      /\ y >= 0 => 16384 * q <= y /\ y < 16384 * q + 16384 /\ q >= 0
      /\ y < 0 => 16384 * q >= y /\ y > 16384 * q - 16384 /\ q <= 0
  BY <1>1, QuotientOf
<1> HIDE DEF p, q
<1>4. p <= q /\ -20000 <= p /\ p <= 20000 /\ -20000 <= q /\ q <= 20000
  BY <1>1, <1>2, <1>3
<1>5. Int16(p) = p /\ Int16(q) = q
  BY <1>2, <1>3, <1>4, Int16Keeps
<1> QED BY <1>4, <1>5 DEF AnalogMillivolts, p, q, x, y

-----------------------------------------------------------------------------
(* The conversions. *)

(* What on_init() lets pass: the ends of the feedback differ. *)
Spans == Feedback.left # Feedback.right

(* The parameters are whole numbers. *)
LEMMA ParametersTyped ==
  ASSUME TypeOK
  PROVE  /\ Feedback.left \in Int /\ Feedback.right \in Int /\ Feedback.zero \in Int
         /\ urdf.actuator.left \in Int /\ urdf.actuator.right \in Int
         /\ Range \in Int
         /\ Spans => Range \in Nat \ {0}
<1>1. /\ urdf.actuator \in Ends /\ urdf.potentiometer \in Ends /\ urdf.encoder \in Ends
  BY CalibrationAssumption DEF TypeOK
<1>2. Feedback \in Ends
  BY <1>1 DEF Feedback, EndsOf
<1>3. /\ Feedback.left \in Int /\ Feedback.right \in Int /\ Feedback.zero \in Int
      /\ urdf.actuator.left \in Int /\ urdf.actuator.right \in Int
  BY <1>1, <1>2 DEF Ends
<1>4. Range \in Int /\ (Spans => Range \in Nat \ {0})
  BY <1>3 DEF Range, Magnitude, Spans
<1> QED BY <1>3, <1>4

LEMMA PositionTyped ==
  ASSUME NEW raw \in Int
  PROVE  Position(raw) \in Int
BY MillivoltsInteger DEF Position

LEMMA AngleTyped ==
  ASSUME TypeOK, NEW p \in Int
  PROVE  FeedbackToRad(p) \in Int
<1>1. Feedback.zero \in Int
  BY ParametersTyped
<1> QED BY <1>1 DEF FeedbackToRad

(* Twice the range times the target, before it is rounded. *)
Numerator(rad) ==
  (urdf.actuator.left + urdf.actuator.right) * Range
    + rad * (urdf.actuator.left - urdf.actuator.right)

LEMMA CountsRounded ==
  ASSUME TypeOK, Spans, NEW rad \in Int
  PROVE  /\ Numerator(rad) \in Int
         /\ RadToMotorCounts(rad) \in Int
         /\ 2 * (Range * RadToMotorCounts(rad)) - Numerator(rad) <= Range
         /\ Numerator(rad) - 2 * (Range * RadToMotorCounts(rad)) <= Range
<1>1. /\ urdf.actuator.left \in Int /\ urdf.actuator.right \in Int
      /\ Range \in Nat \ {0}
  BY ParametersTyped
<1>2. Numerator(rad) \in Int
  BY <1>1 DEF Numerator
<1>3. RadToMotorCounts(rad) = Rounded(Numerator(rad), 2 * Range)
  BY DEF RadToMotorCounts, Numerator
<1> QED BY <1>1, <1>2, <1>3, RoundedError

LEMMA ClampTyped ==
  ASSUME TypeOK, Spans, NEW rad \in Int
  PROVE  Clamp(rad) \in Int /\ -Range <= Clamp(rad) /\ Clamp(rad) <= Range
<1>1. Range \in Nat \ {0}
  BY ParametersTyped
<1> QED BY <1>1 DEF Clamp

(* A clamped angle is between the ends of the actuator. *)
LEMMA CountsBetween ==
  ASSUME TypeOK, Spans, NEW rad \in Int, -Range <= rad, rad <= Range
  PROVE  Between(RadToMotorCounts(rad), urdf.actuator.left, urdf.actuator.right)
<1> DEFINE L == urdf.actuator.left
           R == urdf.actuator.right
           r == Range
           n == (L + R) * r + rad * (L - R)
<1>1. L \in Int /\ R \in Int /\ r \in Nat \ {0}
  BY ParametersTyped
<1>2. RadToMotorCounts(rad) = Rounded(n, 2 * r)
  BY DEF RadToMotorCounts
<1> HIDE DEF L, R, r
<1>3. n \in Int
  BY <1>1
<1>4. -r <= rad /\ rad <= r
  BY DEF r
<1>5. n - 2 * (r * R) = (rad + r) * (L - R) /\ n - 2 * (r * L) = (rad - r) * (L - R)
  BY <1>1
<1>6. CASE R <= L
  <2>1. (rad + r) * (L - R) >= 0 /\ (rad - r) * (L - R) <= 0
    <3>1. rad + r \in Nat /\ L - R \in Nat /\ r - rad \in Nat
      BY <1>1, <1>4, <1>6
    <3>2. (rad + r) * (L - R) \in Nat /\ (r - rad) * (L - R) \in Nat
      BY <3>1
    <3>3. (rad - r) * (L - R) = -((r - rad) * (L - R))
      BY <1>1
    <3> QED BY <3>2, <3>3
  <2>2. 2 * (r * R) <= n /\ n <= 2 * (r * L)
    <3>1. r * R \in Int /\ r * L \in Int /\ (rad + r) * (L - R) \in Int
          /\ (rad - r) * (L - R) \in Int
      BY <1>1
    <3> HIDE DEF n
    <3> QED BY <1>3, <1>5, <2>1, <3>1
  <2>3. Rounded(n, 2 * r) \in R..L
    <3> HIDE DEF n
    <3> QED BY <1>1, <1>3, <2>2, RoundedBetween
  <2> QED BY <1>2, <2>3 DEF Between, L, R
<1>7. CASE L < R
  <2>1. (rad + r) * (L - R) <= 0 /\ (rad - r) * (L - R) >= 0
    <3>1. rad + r \in Nat /\ R - L \in Nat /\ r - rad \in Nat
      BY <1>1, <1>4, <1>7
    <3>2. (rad + r) * (R - L) \in Nat /\ (r - rad) * (R - L) \in Nat
      BY <3>1
    <3>3. (rad - r) * (L - R) = (r - rad) * (R - L)
          /\ (rad + r) * (L - R) = -((rad + r) * (R - L))
      BY <1>1
    <3> QED BY <3>2, <3>3
  <2>2. 2 * (r * L) <= n /\ n <= 2 * (r * R)
    <3>1. r * R \in Int /\ r * L \in Int /\ (rad + r) * (L - R) \in Int
          /\ (rad - r) * (L - R) \in Int
      BY <1>1
    <3> HIDE DEF n
    <3> QED BY <1>3, <1>5, <2>1, <3>1
  <2>3. Rounded(n, 2 * r) \in L..R
    <3> HIDE DEF n
    <3> QED BY <1>1, <1>3, <2>2, RoundedBetween
  <2> QED BY <1>2, <2>3 DEF Between, L, R
<1> QED BY <1>1, <1>6, <1>7

-----------------------------------------------------------------------------
(* The inductive invariant: a component that was not refused has two ends, *)
(* and one that is active has an angle, a command, the angle of its last   *)
(* reading, and the offset of its anchor.                                  *)
Anchored ==
  /\ hw_command \in Int
  /\ hw_state = FeedbackToRad(Position(reading))
  /\ motor_count_offset = anchor.counts - RadToMotorCounts(FeedbackToRad(anchor.reading))

Inv ==
  /\ TypeOK
  /\ lifecycle \in {"inactive", "active"} => Spans
  /\ lifecycle = "active" => Anchored
  /\ TargetsWithinActuator

LEMMA InitInv == Init => Inv
<1> SUFFICES ASSUME Init PROVE Inv
  OBVIOUS
<1>1. TypeOK
  BY DEF Init, TypeOK
<1>2. lifecycle = "loaded" /\ target = NaN
  BY DEF Init
<1> QED BY <1>1, <1>2 DEF Inv, TargetsWithinActuator

(* What depends on the parameters alone stays as it is while they do. *)
LEMMA ParametersKept ==
  ASSUME urdf' = urdf
  PROVE  /\ Spans' = Spans /\ Feedback' = Feedback /\ Range' = Range
         /\ \A raw : Position(raw)' = Position(raw)
BY DEF Spans, Feedback, Range, EndsOf, Position, FeedbackSource, EncoderNode

(* Every step preserves the invariant. *)
LEMMA NextInv == Inv /\ [Next]_vars => Inv'
<1> SUFFICES ASSUME Inv, [Next]_vars PROVE Inv'
  OBVIOUS
<1>T. TypeOK
  BY DEF Inv
<1>1. CASE OnInit
  <2>1. urdf' = urdf
    BY <1>1 DEF OnInit
  <2>2. lifecycle' \in {"rejected", "inactive"}
    BY <1>1 DEF OnInit
  <2>3. TypeOK'
    BY <1>T, <1>1 DEF TypeOK, OnInit
  <2>4. lifecycle' \in {"inactive", "active"} => Spans'
    <3>1. lifecycle' = "inactive" => Spans
      BY <1>1 DEF OnInit, Rejects, Spans, Feedback
    <3> QED BY <2>1, <2>2, <3>1, ParametersKept
  <2> QED BY <2>2, <2>3, <2>4 DEF Inv, TargetsWithinActuator
<1>2. CASE OnActivate
  <2>1. urdf' = urdf /\ lifecycle' = "active" /\ target' = NaN /\ lifecycle = "inactive"
    BY <1>2 DEF OnActivate
  <2>2. Spans /\ Spans'
    BY <2>1, ParametersKept DEF Inv
  <2>3. PICK raw \in Readings, counts \in Positions :
          /\ reading' = raw
          /\ motor_count_offset' = counts - RadToMotorCounts(FeedbackToRad(Position(raw)))
          /\ hw_state' = FeedbackToRad(Position(raw))
          /\ hw_command' = IF hw_command = NaN THEN FeedbackToRad(Position(raw))
                                               ELSE hw_command
          /\ anchor' = [reading |-> Position(raw), counts |-> counts]
    BY <1>2 DEF OnActivate
  <2>4. raw \in Int /\ counts \in Int
    BY CalibrationAssumption
  <2>5. Position(raw) \in Int /\ FeedbackToRad(Position(raw)) \in Int
    BY <1>T, <2>4, PositionTyped, AngleTyped
  <2>6. RadToMotorCounts(FeedbackToRad(Position(raw))) \in Int
    BY <1>T, <2>2, <2>5, CountsRounded
  <2>7. hw_command' \in Int
    BY <1>T, <2>3, <2>5 DEF TypeOK
  <2>8. TypeOK'
    BY <1>T, <2>1, <2>3, <2>4, <2>5, <2>6, <2>7 DEF TypeOK
  <2>9. /\ hw_state' = FeedbackToRad(Position(reading))'
        /\ motor_count_offset'
             = (anchor.counts - RadToMotorCounts(FeedbackToRad(anchor.reading)))'
    <3>1. anchor'.counts = counts /\ anchor'.reading = Position(raw)
      BY <2>3
    <3> QED BY <2>1, <2>3, <3>1, ParametersKept
            DEF FeedbackToRad, RadToMotorCounts
  <2> QED BY <2>1, <2>2, <2>7, <2>8, <2>9 DEF Inv, Anchored, TargetsWithinActuator
<1>3. CASE OnDeactivate
  <2>1. UNCHANGED <<urdf, hw_state, hw_command, motor_count_offset, target, reading, anchor>>
    BY <1>3 DEF OnDeactivate
  <2>2. lifecycle' = "inactive" /\ lifecycle = "active"
    BY <1>3 DEF OnDeactivate
  <2>3. TypeOK'
    BY <1>T, <2>1, <2>2 DEF TypeOK
  <2>4. Spans'
    BY <2>1, <2>2, ParametersKept DEF Inv
  <2> QED BY <2>2, <2>3, <2>4 DEF Inv, TargetsWithinActuator
<1>4. CASE Read
  <2>1. UNCHANGED <<urdf, lifecycle, hw_command, motor_count_offset, target, anchor>>
    BY <1>4 DEF Read
  <2>2. lifecycle = "active" /\ Spans /\ Anchored
    BY <1>4 DEF Read, Inv
  <2>3. PICK raw \in Readings : reading' = raw /\ hw_state' = FeedbackToRad(Position(raw))
    BY <1>4 DEF Read
  <2>4. raw \in Int /\ FeedbackToRad(Position(raw)) \in Int
    BY <1>T, CalibrationAssumption, PositionTyped, AngleTyped
  <2>5. TypeOK'
    BY <1>T, <2>1, <2>3, <2>4 DEF TypeOK
  <2>6. Anchored'
    BY <2>1, <2>2, <2>3, ParametersKept DEF Anchored, FeedbackToRad, RadToMotorCounts
  <2>7. TargetsWithinActuator'
    BY <2>1 DEF Inv, TargetsWithinActuator
  <2>8. Spans'
    BY <2>1, <2>2, ParametersKept
  <2> QED BY <2>5, <2>6, <2>7, <2>8 DEF Inv
<1>5. CASE Command
  <2>1. UNCHANGED <<urdf, lifecycle, hw_state, motor_count_offset, target, reading, anchor>>
    BY <1>5 DEF Command
  <2>2. lifecycle = "active" /\ Spans /\ Anchored
    BY <1>5 DEF Command, Inv
  <2>3. hw_command' \in Int
    <3>1. reading \in Int
      BY <1>T DEF TypeOK
    <3>2. hw_state \in Int
      BY <1>T, <2>2, <3>1, PositionTyped, AngleTyped DEF Anchored
    <3> QED BY <1>5, <3>2, CalibrationAssumption DEF Command
  <2>4. TypeOK'
    BY <1>T, <2>1, <2>3 DEF TypeOK
  <2>5. Anchored'
    BY <2>1, <2>2, <2>3, ParametersKept DEF Anchored, FeedbackToRad, RadToMotorCounts
  <2>6. TargetsWithinActuator'
    BY <2>1 DEF Inv, TargetsWithinActuator
  <2>7. Spans'
    BY <2>1, <2>2, ParametersKept
  <2> QED BY <2>4, <2>5, <2>6, <2>7 DEF Inv
<1>6. CASE Write
  <2> DEFINE aim == RadToMotorCounts(Clamp(hw_command))
  <2>1. UNCHANGED <<urdf, lifecycle, hw_state, hw_command, motor_count_offset, reading, anchor>>
    BY <1>6 DEF Write
  <2>2. lifecycle = "active" /\ Spans /\ Anchored /\ target' = aim + motor_count_offset
    BY <1>6 DEF Write, Inv
  <2>3. /\ aim \in Int /\ motor_count_offset \in Int
        /\ Between(aim, urdf.actuator.left, urdf.actuator.right)
    <3>1. Clamp(hw_command) \in Int /\ -Range <= Clamp(hw_command)
          /\ Clamp(hw_command) <= Range
      BY <1>T, <2>2, ClampTyped DEF Anchored
    <3> QED BY <1>T, <2>2, <3>1, CountsBetween, CountsRounded DEF TypeOK
  <2> HIDE DEF aim
  <2>4. TypeOK'
    BY <1>T, <2>1, <2>2, <2>3 DEF TypeOK
  <2>5. Anchored'
    BY <2>1, <2>2, ParametersKept DEF Anchored, FeedbackToRad, RadToMotorCounts
  <2>6. TargetsWithinActuator'
    <3>1. target' - motor_count_offset' = aim
      BY <2>1, <2>2, <2>3
    <3> QED BY <2>1, <2>3, <3>1 DEF TargetsWithinActuator
  <2>7. Spans'
    BY <2>1, <2>2, ParametersKept
  <2> QED BY <2>4, <2>5, <2>6, <2>7 DEF Inv
<1>7. CASE Refused \/ UNCHANGED vars
  <2>1. UNCHANGED <<urdf, lifecycle, hw_state, hw_command, motor_count_offset, target,
                    reading, anchor>>
    BY <1>7 DEF Refused, vars
  <2>2. TypeOK'
    BY <1>T, <2>1 DEF TypeOK
  <2>3. Spans' = Spans
    BY <2>1, ParametersKept
  <2>4. lifecycle = "active" => Anchored'
    BY <2>1, ParametersKept DEF Inv, Anchored, FeedbackToRad, RadToMotorCounts
  <2>5. TargetsWithinActuator'
    BY <2>1 DEF Inv, TargetsWithinActuator
  <2> QED BY <2>1, <2>2, <2>3, <2>4, <2>5 DEF Inv
<1> QED BY <1>1, <1>2, <1>3, <1>4, <1>5, <1>6, <1>7 DEF Next

LEMMA Invariance == Spec => []Inv
BY InitInv, NextInv, PTL DEF Spec

-----------------------------------------------------------------------------
(* The state of the calibration keeps its types: no count is computed with *)
(* a range of 0, because on_init() refuses it                              *)
(* (system_steering_hardware.cpp:63-73).                                   *)
THEOREM TypeCorrect == Spec => []TypeOK
<1>1. Inv => TypeOK
  BY DEF Inv
<1> QED BY <1>1, Invariance, PTL

(* Every target, for every calibration and every demand, lies between the  *)
(* calibrated ends of the actuator, as the offset moves them               *)
(* (system_steering_hardware.cpp:355-356).                                 *)
THEOREM TargetsStayWithinActuator == Spec => []TargetsWithinActuator
<1>1. Inv => TargetsWithinActuator
  BY DEF Inv
<1> QED BY <1>1, Invariance, PTL

(* The only step of an active component that gives the drive a target. *)
LEMMA OnlyWrite ==
  ASSUME Next, lifecycle = "active", target' # target
  PROVE  Write
BY DEF Next, OnInit, Refused, vars, OnActivate, OnDeactivate, Read, Command

(* Told to hold the angle of its activation, the drive is given the counts *)
(* it reported then: the rounding of the offset and of the target cancel   *)
(* (system_steering_hardware.cpp:268-270, :354-356).                       *)
THEOREM ActivationHoldsPosition == Spec => HoldsPosition
<1> DEFINE Held ==
      (lifecycle = "active" /\ target' # target
         /\ hw_command = FeedbackToRad(anchor.reading) /\ Clamp(hw_command) = hw_command
         => target' = anchor.counts)
<1>1. ASSUME Inv, [Next]_vars PROVE Held \/ UNCHANGED vars
  <2> SUFFICES ASSUME Next, lifecycle = "active", target' # target,
                      hw_command = FeedbackToRad(anchor.reading),
                      Clamp(hw_command) = hw_command
               PROVE  target' = anchor.counts
    BY <1>1
  <2> DEFINE aim == RadToMotorCounts(hw_command)
  <2>1. target' = aim + motor_count_offset
    BY OnlyWrite DEF Write
  <2>2. TypeOK /\ Spans /\ Anchored
    BY <1>1 DEF Inv
  <2>3. motor_count_offset = anchor.counts - aim
    BY <2>2 DEF Anchored
  <2>4. aim \in Int /\ anchor.counts \in Int
    BY <2>2, CountsRounded DEF Anchored, TypeOK
  <2> HIDE DEF aim
  <2> QED BY <2>1, <2>3, <2>4
<1>2. Inv /\ [Next]_vars => [Held]_vars
  BY <1>1
<1> QED BY <1>2, Invariance, PTL DEF Spec, HoldsPosition

(* Between two angles the motor is moved as far as the two calibrations    *)
(* say, to one count, whichever way round sensor and actuator are mounted. *)
LEMMA CountsFollowFeedback ==
  ASSUME TypeOK, Spans, NEW p \in Int, NEW q \in Int
  PROVE  LET span  == Feedback.right - Feedback.left
             moved == (urdf.actuator.right - urdf.actuator.left) * (p - q)
             step  == RadToMotorCounts(FeedbackToRad(p)) - RadToMotorCounts(FeedbackToRad(q))
         IN  Magnitude(span * step - moved) <= Range
<1> DEFINE L == urdf.actuator.left
           R == urdf.actuator.right
           r == Range
           span == Feedback.right - Feedback.left
           moved == (R - L) * (p - q)
           a == FeedbackToRad(p)
           b == FeedbackToRad(q)
           x == RadToMotorCounts(a)
           y == RadToMotorCounts(b)
           m == Numerator(a)
           n == Numerator(b)
<1>1. /\ L \in Int /\ R \in Int /\ r \in Nat \ {0} /\ span \in Int
      /\ Feedback.zero \in Int /\ Feedback.left \in Int /\ Feedback.right \in Int
  BY ParametersTyped
<1>2. a \in Int /\ b \in Int
  BY AngleTyped
<1>3. /\ m \in Int /\ x \in Int /\ 2 * (r * x) - m <= r /\ m - 2 * (r * x) <= r
      /\ n \in Int /\ y \in Int /\ 2 * (r * y) - n <= r /\ n - 2 * (r * y) <= r
  BY <1>2, CountsRounded
<1>4. m - n = (a - b) * (L - R)
  <2>1. m = (L + R) * r + a * (L - R) /\ n = (L + R) * r + b * (L - R)
    BY DEF Numerator
  <2> HIDE DEF a, b, m, n, L, R, r
  <2>2. (a - b) * (L - R) = a * (L - R) - b * (L - R)
    BY <1>1, <1>2
  <2>3. (L + R) * r \in Int /\ a * (L - R) \in Int /\ b * (L - R) \in Int
    BY <1>1, <1>2
  <2> QED BY <2>1, <2>2, <2>3
<1>5. r * (x - y) = r * x - r * y /\ r * x \in Int /\ r * y \in Int /\ r * (x - y) \in Int
  <2> HIDE DEF x, y, r
  <2> QED BY <1>1, <1>3
<1>6. moved \in Int
  <2> HIDE DEF L, R
  <2> QED BY <1>1
<1>7. CASE Feedback.right > Feedback.left
  <2>1. span = r
    BY <1>1, <1>7 DEF Range, Magnitude
  <2>2. a - b = -2 * (p - q)
    BY <1>1, <1>7 DEF FeedbackToRad
  <2>3. m - n = 2 * moved
    <3> HIDE DEF a, b, m, n, L, R
    <3> QED BY <1>1, <1>2, <1>4, <2>2
  <2>4. span * (x - y) = r * (x - y)
    BY <2>1
  <2>5. span * (x - y) - moved \in -r..r
    <3> HIDE DEF m, n, x, y, r, moved, span
    <3> QED BY <1>1, <1>3, <1>5, <1>6, <2>3, <2>4
  <2> HIDE DEF m, n, x, y, r, moved, span
  <2>6. Magnitude(span * (x - y) - moved) <= r
    BY <1>1, <2>5 DEF Magnitude
  <2> QED BY <2>6 DEF x, y, a, b, r, moved, span, L, R
<1>8. CASE ~(Feedback.right > Feedback.left)
  <2>1. span = -r
    BY <1>1, <1>8 DEF Range, Magnitude
  <2>2. a - b = 2 * (p - q)
    BY <1>1, <1>8 DEF FeedbackToRad
  <2>3. m - n = -(2 * moved)
    <3> HIDE DEF a, b, m, n, L, R
    <3> QED BY <1>1, <1>2, <1>4, <2>2
  <2>4. span * (x - y) = -(r * (x - y))
    <3> HIDE DEF x, y, r, span
    <3> QED BY <1>1, <1>3, <2>1
  <2>5. span * (x - y) - moved \in -r..r
    <3> HIDE DEF m, n, x, y, r, moved, span
    <3> QED BY <1>1, <1>3, <1>5, <1>6, <2>3, <2>4
  <2> HIDE DEF m, n, x, y, r, moved, span
  <2>6. Magnitude(span * (x - y) - moved) <= r
    BY <1>1, <2>5 DEF Magnitude
  <2> QED BY <2>6 DEF x, y, a, b, r, moved, span, L, R
<1> QED BY <1>7, <1>8

(* Told to go to an angle that the sensor has read, the drive is moved as  *)
(* far from the counts of the activation as the two calibrations say, to   *)
(* one count (system_steering_hardware.hpp:66-75).                         *)
THEOREM TargetFollowsSensor == Spec => TargetTracksSensor
<1> DEFINE Tracks ==
      (lifecycle = "active" /\ target' # target /\ hw_command = hw_state
         /\ Clamp(hw_command) = hw_command
         => LET span  == Feedback.right - Feedback.left
                moved == (urdf.actuator.right - urdf.actuator.left)
                           * (Position(reading) - anchor.reading)
            IN  Magnitude(span * (target' - anchor.counts) - moved) <= Range)
<1>1. ASSUME Inv, [Next]_vars PROVE Tracks \/ UNCHANGED vars
  <2> SUFFICES ASSUME Next, lifecycle = "active", target' # target, hw_command = hw_state,
                      Clamp(hw_command) = hw_command
               PROVE  Tracks
    BY <1>1
  <2> DEFINE p == Position(reading)
             q == anchor.reading
             x == RadToMotorCounts(FeedbackToRad(p))
             y == RadToMotorCounts(FeedbackToRad(q))
  <2>1. TypeOK /\ Spans /\ Anchored
    BY <1>1 DEF Inv
  <2>2. p \in Int /\ q \in Int /\ anchor.counts \in Int
    BY <2>1, PositionTyped DEF TypeOK
  <2>3. x \in Int /\ y \in Int
    BY <2>1, <2>2, AngleTyped, CountsRounded
  <2>4. target' = x + motor_count_offset /\ motor_count_offset = anchor.counts - y
    BY <2>1, OnlyWrite DEF Write, Anchored
  <2>5. target' - anchor.counts = x - y
    <3> HIDE DEF x, y
    <3> QED BY <2>2, <2>3, <2>4
  <2>6. LET span  == Feedback.right - Feedback.left
            moved == (urdf.actuator.right - urdf.actuator.left) * (p - q)
        IN  Magnitude(span * (x - y) - moved) <= Range
    BY <2>1, <2>2, CountsFollowFeedback
  <2> QED BY <2>5, <2>6
<1>2. Inv /\ [Next]_vars => [Tracks]_vars
  BY <1>1
<1> QED BY <1>2, Invariance, PTL DEF Spec, TargetTracksSensor

(* Within the +-20 V of the analog input a higher voltage is never read as *)
(* a lower one (motor_driver.cpp:331-336).                                 *)
THEOREM ReadingRisesWithVoltage == Spec => ReadingFollowsVoltage
<1> DEFINE Rises ==
      (FeedbackSource = "potentiometer" /\ Magnitude(reading) <= 16384
         /\ Magnitude(reading') <= 16384 /\ reading <= reading'
         => Position(reading) <= Position(reading'))
<1>1. ASSUME Inv, Inv' PROVE Rises
  <2> SUFFICES ASSUME FeedbackSource = "potentiometer", Magnitude(reading) <= 16384,
                      Magnitude(reading') <= 16384, reading <= reading'
               PROVE  Position(reading) <= Position(reading')
    OBVIOUS
  <2>1. reading \in Int /\ reading' \in Int
    BY <1>1 DEF Inv, TypeOK
  <2>2. -16384 <= reading /\ reading' <= 16384
    <3>1. \A n \in Int : Magnitude(n) <= 16384 => -16384 <= n /\ n <= 16384
      BY DEF Magnitude
    <3> QED BY <2>1, <3>1
  <2>3. AnalogMillivolts(reading) <= AnalogMillivolts(reading')
    BY <2>1, <2>2, MillivoltsRise
  <2> QED BY <2>3 DEF Position
<1>2. Inv /\ Inv' => Rises
  BY <1>1
<1>3. Inv /\ Inv' => [Rises]_vars
  BY <1>2
<1> QED BY <1>3, Invariance, PTL DEF ReadingFollowsVoltage

=============================================================================
