------------------------- MODULE TickPacing_proofs -------------------------
(***************************************************************************)
(* Pacing, for every period and every tolerance of the interval.  That     *)
(* late orders do not come in a burst needs a period longer than the       *)
(* tolerance: with a shorter one a tick that is late by no more than the   *)
(* tolerance sets its next deadline in the past.  What a burst may amount  *)
(* to then, and that the rate holds over time, is shown for any.           *)
(***************************************************************************)
EXTENDS TickPacing, TLAPS

-----------------------------------------------------------------------------
(* Arithmetic.                                                             *)

\* A quotient and a remainder, by their range.
LEMMA DivMod ==
  ASSUME NEW n \in Nat
  PROVE  n % Period \in 0 .. Period - 1 /\ n \div Period \in Nat
  BY PacingAssumption

\* And by what they add up to.
LEMMA Quotient ==
  ASSUME NEW n \in Nat
  PROVE  n = (n \div Period) * Period + (n % Period)
  BY PacingAssumption, SMTT(60)

\* A multiple of the period beyond n is a later period than that of n.
LEMMA LaterPeriod ==
  ASSUME NEW n \in Nat, NEW k \in Nat, k * Period > n
  PROVE  k >= n \div Period + 1
  BY PacingAssumption

\* A multiple of the period that is not beyond n is not in a later one.
LEMMA SamePeriod ==
  ASSUME NEW n \in Nat, NEW k \in Nat, k * Period <= n
  PROVE  n \div Period >= k
  BY PacingAssumption

\* Skip keeps to the schedule and leaves no deadline that has passed.
LEMMA SkipsToSchedule ==
  ASSUME NEW k \in Nat, NEW at \in Nat, k * Period <= at
  PROVE  \E j \in Nat : /\ MissedTick(k * Period, at) = j * Period
                        /\ j > k
                        /\ j * Period > at
                        /\ at < k * Period + Period => j = k + 1
<1> USE PacingAssumption
<1> DEFINE late == at - k * Period
           q == late \div Period
<1>1. late \in Nat /\ q \in Nat
  BY DivMod
<1>2. late = q * Period + (late % Period) /\ late % Period \in 0 .. Period - 1
  BY <1>1, Quotient, DivMod
<1>3. MissedTick(k * Period, at) = at + Period - (late % Period)
  BY DEF MissedTick
<1>4. (k + q + 1) * Period = k * Period + q * Period + Period
  BY <1>1
<1>5. MissedTick(k * Period, at) = (k + q + 1) * Period
  <2> HIDE DEF q
  <2>1. at = late + k * Period
    OBVIOUS
  <2> HIDE DEF late
  <2> QED
    BY <1>1, <1>2, <1>3, <1>4, <2>1
<1>6. (k + q + 1) * Period > at
  <2>1. at = late + k * Period
    OBVIOUS
  <2> HIDE DEF late, q
  <2> QED
    BY <1>1, <1>2, <1>4, <2>1
<1>7. ASSUME at < k * Period + Period PROVE q = 0
  BY <1>7, <1>1
<1> HIDE DEF q
<1>8. k + q + 1 \in Nat /\ k + q + 1 > k /\ (q = 0 => k + q + 1 = k + 1)
  BY <1>1
<1> QED
  BY <1>5, <1>6, <1>7, <1>8

-----------------------------------------------------------------------------
(* The deadline is one of the schedule and lies in no period already used. *)

OnSchedule == \E k \in Nat : /\ deadline = k * Period
                             /\ k >= free
                             /\ prompt => k = admitted

PacingInv == TypeOK /\ OnSchedule

\* The first deadline is the start of the interval.
LEMMA PacingInit == Init => PacingInv
<1> SUFFICES ASSUME Init PROVE PacingInv
  OBVIOUS
<1>1. TypeOK
  BY DEF Init, TypeOK
<1>2. 0 \in Nat /\ deadline = 0 * Period /\ 0 >= free /\ (prompt => 0 = admitted)
  BY PacingAssumption DEF Init
<1> QED
  BY <1>1, <1>2 DEF PacingInv, OnSchedule

\* A late tick is taken for missed before a period has passed.
LEMMA PacingNext ==
  ASSUME Tolerance < Period
  PROVE  PacingInv /\ [Next]_vars => PacingInv'
<1> SUFFICES ASSUME PacingInv, [Next]_vars PROVE PacingInv'
  OBVIOUS
<1> USE PacingAssumption
<1>1. CASE Admit
  <2>1. PICK k \in Nat : deadline = k * Period /\ k >= free /\ (prompt => k = admitted)
    BY DEF PacingInv, OnSchedule
  <2>2. /\ now \in Nat /\ deadline \in Nat /\ admitted \in Nat
        /\ k * Period <= now
    BY <1>1, <2>1 DEF Admit, PacingInv, TypeOK
  <2>3. PICK j \in Nat : /\ deadline' = j * Period
                         /\ j * Period > now
                         /\ now < k * Period + Period => j = k + 1
    <3>1. CASE now > deadline + Tolerance
      <4>1. deadline' = MissedTick(k * Period, now)
        BY <1>1, <2>1, <3>1 DEF Admit, NextDeadline
      <4> QED
        BY <2>2, <4>1, SkipsToSchedule
    <3>2. CASE ~(now > deadline + Tolerance)
      <4>1. deadline' = k * Period + Period
        BY <1>1, <2>1, <3>2 DEF Admit, NextDeadline
      <4>2. (k + 1) * Period = k * Period + Period
        OBVIOUS
      <4>3. k * Period + Period > now
        BY <2>1, <2>2, <3>2
      <4>4. k + 1 \in Nat /\ deadline' = (k + 1) * Period /\ (k + 1) * Period > now
        BY <4>1, <4>2, <4>3
      <4> QED
        BY <4>4
    <3> QED
      BY <3>1, <3>2
  <2>4. j >= now \div Period + 1
    BY <2>2, <2>3, LaterPeriod
  <2>5. TypeOK'
    <3>1. now \div Period + 1 \in Nat /\ j * Period \in Nat
      BY <2>2, DivMod
    <3>2. prompt' \in BOOLEAN /\ open' \in BOOLEAN
      BY <1>1 DEF Admit
    <3> QED
      BY <1>1, <2>2, <2>3, <3>1, <3>2 DEF Admit, TypeOK
  <2>6. prompt' => prompt /\ now < k * Period + Period
    BY <1>1, <2>1 DEF Admit
  <2>7. free' = now \div Period + 1 /\ admitted' = admitted + 1
    BY <1>1 DEF Admit
  <2>8. prompt' => j = admitted'
    BY <2>1, <2>3, <2>6, <2>7
  <2> QED
    BY <2>3, <2>4, <2>5, <2>7, <2>8 DEF PacingInv, OnSchedule
<1>2. CASE Elapse
  BY <1>2 DEF Elapse, PacingInv, TypeOK, OnSchedule
<1>3. CASE Release
  BY <1>3 DEF Release, PacingInv, TypeOK, OnSchedule
<1>4. CASE UNCHANGED vars
  BY <1>4 DEF vars, PacingInv, TypeOK, OnSchedule
<1> QED
  BY <1>1, <1>2, <1>3, <1>4 DEF Next, End

\* Orders that were late do not come in a burst, however long the loop was kept
\* from admitting, at every rate of fewer orders than one per tolerance
\* (producer.rs:52-53).
THEOREM NoCatchUpBurst == Tolerance < Period => (Spec => OneOrderPerPeriod)
<1> SUFFICES ASSUME Tolerance < Period PROVE Spec => OneOrderPerPeriod
  OBVIOUS
<1>1. PacingInv /\ [Next]_vars => PacingInv'
  BY PacingNext
<1>2. PacingInv /\ [Next]_vars => [admitted' # admitted => now \div Period >= free]_vars
  <2> SUFFICES ASSUME PacingInv, Next, admitted' # admitted PROVE now \div Period >= free
    OBVIOUS
  <2>1. Admit
    BY DEF Next, Elapse, Release, End, vars
  <2>2. PICK k \in Nat : deadline = k * Period /\ k >= free
    BY DEF PacingInv, OnSchedule
  <2>3. now \div Period >= k
    BY <2>1, <2>2, SamePeriod DEF Admit, PacingInv, TypeOK
  <2> QED
    BY <2>2, <2>3, DivMod DEF PacingInv, TypeOK
<1> QED
  BY <1>1, <1>2, PacingInit, PTL DEF Spec, OneOrderPerPeriod

-----------------------------------------------------------------------------
(* Any rate.                                                               *)

\* A tick that fires moves its deadline by a period at least, and by just one
\* if it was less than that late; afterwards the interval is behind by less
\* than the tolerance.
LEMMA DeadlineAdvances ==
  ASSUME NEW due \in Nat, NEW at \in Nat, due <= at
  PROVE  /\ NextDeadline(due, at) \in Nat
         /\ NextDeadline(due, at) >= due + Period
         /\ at < due + Period => NextDeadline(due, at) = due + Period
         /\ NextDeadline(due, at) + Tolerance > at
<1> USE PacingAssumption
<1> DEFINE late == at - due
<1>1. late \in Nat
  OBVIOUS
<1>2. late % Period \in 0 .. Period - 1
  BY <1>1, DivMod
<1>3. late % Period <= late
  <2>1. (late \div Period) * Period \in Nat
    BY <1>1, DivMod
  <2>2. late = (late \div Period) * Period + (late % Period)
    BY <1>1, Quotient
  <2> HIDE DEF late
  <2> QED
    BY <1>1, <1>2, <2>1, <2>2
<1>4. late < Period => late % Period = late
  BY <1>1
<1>5. MissedTick(due, at) = at + Period - (late % Period)
  BY DEF MissedTick
<1> DEFINE m == late % Period
<1>6. /\ m \in 0 .. Period - 1 /\ m <= late /\ (late < Period => m = late)
      /\ MissedTick(due, at) = at + Period - m
  BY <1>2, <1>3, <1>4, <1>5
<1> HIDE DEF m
<1>7. CASE at > due + Tolerance
  BY <1>1, <1>6, <1>7 DEF NextDeadline
<1>8. CASE ~(at > due + Tolerance)
  BY <1>1, <1>8 DEF NextDeadline
<1> QED
  BY <1>7, <1>8

\* Each order admitted has cost a period of the schedule, exactly one as long as
\* none was a period late.
RateInv == /\ TypeOK
           /\ admitted * Period <= deadline
           /\ RateIsKept
           /\ RateIsNotExceeded

\* Nothing is admitted and nothing is due yet.
LEMMA RateInit == Init => RateInv
<1> SUFFICES ASSUME Init PROVE RateInv
  OBVIOUS
<1>1. TypeOK /\ admitted * Period = 0 /\ deadline = 0
  BY PacingAssumption DEF Init, TypeOK
<1>2. 0 \div Period \in Nat
  BY DivMod
<1> QED
  BY <1>1, <1>2 DEF Init, RateInv, RateIsKept, RateIsNotExceeded

\* Every step keeps it: an order moves the deadline with the count.
LEMMA RateNext == RateInv /\ [Next]_vars => RateInv'
<1> SUFFICES ASSUME RateInv, [Next]_vars PROVE RateInv'
  OBVIOUS
<1> USE PacingAssumption
<1>0. now \in Nat /\ deadline \in Nat /\ admitted \in Nat /\ now \div Period \in Nat
  BY DivMod DEF RateInv, TypeOK
<1>1. CASE Admit
  <2>1. deadline <= now /\ deadline' = NextDeadline(deadline, now) /\ now' = now
        /\ admitted' = admitted + 1 /\ (prompt' => prompt /\ now < deadline + Period)
    BY <1>1 DEF Admit
  <2>2. /\ deadline' \in Nat /\ deadline' >= deadline + Period
        /\ now < deadline + Period => deadline' = deadline + Period
    BY <1>0, <2>1, DeadlineAdvances
  <2>3. admitted * Period \in Nat /\ (admitted + 1) * Period = admitted * Period + Period
    BY <1>0
  <2>4. admitted' * Period <= deadline' /\ RateIsKept'
    BY <1>0, <2>1, <2>2, <2>3 DEF RateInv, RateIsKept
  <2>5. RateIsNotExceeded'
    <3>1. admitted * Period <= now
      BY <1>0, <2>1, <2>3 DEF RateInv
    <3>2. now \div Period >= admitted
      BY <1>0, <3>1, SamePeriod
    <3> QED
      BY <1>0, <2>1, <3>2 DEF RateIsNotExceeded
  <2>6. TypeOK'
    BY <1>0, <1>1, <2>1, <2>2 DEF Admit, TypeOK, RateInv
  <2> QED
    BY <2>4, <2>5, <2>6 DEF RateInv
<1>2. CASE Elapse
  <2>1. now' = now + 1 /\ UNCHANGED <<open, deadline, admitted, free, prompt>>
    BY <1>2 DEF Elapse
  <2>2. now' \div Period >= now \div Period /\ now' \div Period \in Nat
    <3>1. (now \div Period) * Period <= now + 1
      <4> DEFINE whole == (now \div Period) * Period
                 rest == now % Period
      <4>1. now = whole + rest /\ whole \in Nat /\ rest \in Nat
        BY <1>0, Quotient, DivMod
      <4> HIDE DEF whole, rest
      <4>2. whole <= now + 1
        BY <4>1
      <4> QED
        BY <4>2 DEF whole
    <3> DEFINE n == now + 1
               k == now \div Period
    <3>2. n \in Nat /\ k \in Nat /\ k * Period <= n
      BY <1>0, <3>1
    <3> HIDE DEF n, k
    <3>3. n \div Period >= k /\ n \div Period \in Nat
      BY <3>2, SamePeriod, DivMod
    <3> QED
      BY <2>1, <3>3 DEF n, k
  <2> QED
    BY <1>0, <2>1, <2>2 DEF RateInv, TypeOK, RateIsKept, RateIsNotExceeded
<1>3. CASE Release
  BY <1>3 DEF Release, RateInv, TypeOK, RateIsKept, RateIsNotExceeded
<1>4. CASE UNCHANGED vars
  BY <1>4 DEF vars, RateInv, TypeOK, RateIsKept, RateIsNotExceeded
<1> QED
  BY <1>1, <1>2, <1>3, <1>4 DEF Next, End

\* Lateness of less than a period costs no order and moves no later one, at
\* every rate.
THEOREM LateTicksLoseNothing == Spec => []RateIsKept
  BY RateInit, RateNext, PTL DEF Spec, RateInv

\* --orders-per-sec is an upper bound at any time, at every rate.
THEOREM RateIsAnUpperBound == Spec => []RateIsNotExceeded
  BY RateInit, RateNext, PTL DEF Spec, RateInv

\* Orders that come in a burst make up for less than the tolerance, at every rate.
THEOREM BurstsAreShort == Spec => BacklogIsBounded
<1>1. RateInv /\ [Next]_vars => [admitted' # admitted => deadline' + Tolerance > now]_vars
  <2> SUFFICES ASSUME RateInv, Next, admitted' # admitted PROVE deadline' + Tolerance > now
    OBVIOUS
  <2>1. Admit
    BY DEF Next, Elapse, Release, End, vars
  <2> QED
    BY <2>1, DeadlineAdvances DEF Admit, RateInv, TypeOK
<1> QED
  BY <1>1, RateInit, RateNext, PTL DEF Spec, BacklogIsBounded

=============================================================================
