-------------------------- MODULE Superloop_proofs --------------------------
(***************************************************************************)
(* Proofs about the scheduler, for any numbers of ticks of which each      *)
(* divides the longer ones.                                                *)
(*                                                                         *)
(* NeverThrice is not inductive.  It holds because the counters stay in    *)
(* step: when the flag of a period is raised, those of the shorter ones    *)
(* are raised with it.  So a task that begins for the second time since a  *)
(* shorter one last did leaves the shorter one's flag up behind it, and    *)
(* the round comes to that flag first.                                     *)
(***************************************************************************)
EXTENDS Superloop, TLAPS

\* The shorter of two counters is the longer one, without its whole periods.
InStep(q, p) == \E k \in Nat : cnt[p] = k * Count[q] + cnt[q]
CountersInStep == \A q, p \in Slot : q < p => InStep(q, p)

\* What is about to be cleared is up.
ClearsRaised == stage = "clear" => flg[slot]

\* A task that has begun since a shorter one did is not due before that one is.
ShorterDueToo == \A q, p \in Slot : q < p /\ ahead[q][p] >= 1 /\ flg[p] => flg[q]

\* From the second call of task p on, the round comes to q before it comes to p.
BeforeNext(q, p) ==
  \/ slot > p
  \/ slot = p /\ stage = "task"
  \/ slot < q
  \/ slot = q /\ stage # "task"
SecondIsLast == \A q, p \in Slot : q < p /\ ahead[q][p] = 2 => flg[q] /\ BeforeNext(q, p)

SchedInv ==
  /\ SchedTypeOK /\ RaiseKept /\ NeverThrice
  /\ CountersInStep /\ ClearsRaised /\ ShorterDueToo /\ SecondIsLast

-----------------------------------------------------------------------------
(***************************************************************************)
(* The counters.                                                           *)
(***************************************************************************)
LEMMA TimesMonotone ==
  ASSUME NEW a \in Nat, NEW b \in Nat, NEW c \in Nat, a <= b
  PROVE  a * c <= b * c
<1>1. PICK d \in Nat : b = a + d
  <2>1. b - a \in Nat /\ b = a + (b - a) OBVIOUS
  <2> QED BY <2>1
<1>2. b * c = a * c + d * c BY <1>1
<1>3. d * c \in Nat /\ a * c \in Nat OBVIOUS
<1> QED BY <1>2, <1>3

\* A number strictly between two multiples is none.
LEMMA NoMultipleBetween ==
  ASSUME NEW k \in Nat, NEW n \in Nat, NEW c \in Nat, NEW r \in Nat, 0 < r, r < c
  PROVE  k * c + r # n * c
<1>1. CASE n <= k
  <2>1. n * c <= k * c BY <1>1, TimesMonotone
  <2>2. n * c \in Nat /\ k * c \in Nat OBVIOUS
  <2> QED BY <2>1, <2>2
<1>2. CASE k + 1 <= n
  <2>1. (k + 1) * c <= n * c BY <1>2, TimesMonotone
  <2>2. (k + 1) * c = k * c + c OBVIOUS
  <2>3. n * c \in Nat /\ k * c \in Nat OBVIOUS
  <2> QED BY <2>1, <2>2, <2>3
<1> QED BY <1>1, <1>2

LEMMA TickInStep ==
  ASSUME SchedTypeOK, NEW q \in Slot, NEW p \in Slot, q < p, InStep(q, p),
         cnt' = Advanced
  PROVE  InStep(q, p)' /\ (cnt'[p] = 0 => cnt'[q] = 0)
<1> USE SlotAssumption
<1>1. Count[q] \in Nat /\ Count[p] \in Nat /\ cnt[q] \in Nat /\ cnt[p] \in Nat
  BY CountAssumption DEF SchedTypeOK
<1>2. Count[q] > 0 /\ Count[p] > 0 /\ cnt[q] < Count[q] /\ cnt[p] < Count[p]
  BY CountAssumption DEF SchedTypeOK
<1>3. PICK k \in Nat : cnt[p] = k * Count[q] + cnt[q] BY DEF InStep
<1>4. PICK n \in 1..Count[p] : Count[p] = n * Count[q] BY CountAssumption
<1>5. /\ cnt'[q] = IF cnt[q] + 1 = Count[q] THEN 0 ELSE cnt[q] + 1
      /\ cnt'[p] = IF cnt[p] + 1 = Count[p] THEN 0 ELSE cnt[p] + 1
  BY DEF Advanced
<1>6. CASE cnt[q] + 1 = Count[q]
  <2>1. cnt[p] + 1 = (k + 1) * Count[q]
    <3>1. (k + 1) * Count[q] = k * Count[q] + Count[q] BY <1>1
    <3>2. k * Count[q] \in Nat BY <1>1
    <3> QED BY <1>1, <1>3, <1>6, <3>1, <3>2
  <2>2. cnt'[p] = 0 * Count[q] + 0 \/ cnt'[p] = (k + 1) * Count[q] + 0
    BY <1>1, <1>5, <2>1
  <2>3. cnt'[q] = 0 BY <1>5, <1>6
  <2>4. \E j \in Nat : cnt'[p] = j * Count[q] + cnt'[q]
    <3>1. 0 \in Nat /\ k + 1 \in Nat OBVIOUS
    <3> QED BY <2>2, <2>3, <3>1
  <2> QED BY <2>3, <2>4 DEF InStep
<1>7. CASE cnt[q] + 1 # Count[q]
  <2>1. cnt[q] + 1 \in Nat /\ 0 < cnt[q] + 1 /\ cnt[q] + 1 < Count[q] BY <1>1, <1>2, <1>7
  <2>2. k * Count[q] + (cnt[q] + 1) # n * Count[q] BY <1>1, <2>1, NoMultipleBetween
  <2>3. cnt[p] + 1 = k * Count[q] + (cnt[q] + 1)
    <3>1. k * Count[q] \in Nat BY <1>1
    <3> QED BY <1>1, <1>3, <3>1
  <2>4. cnt'[p] = k * Count[q] + cnt'[q] BY <1>4, <1>5, <1>7, <2>2, <2>3
  <2>5. cnt'[p] # 0 BY <1>1, <1>4, <1>5, <2>2, <2>3
  <2> QED BY <2>4, <2>5 DEF InStep
<1> QED BY <1>6, <1>7

-----------------------------------------------------------------------------
LEMMA InitInv == SchedInit => SchedInv
<1> SUFFICES ASSUME SchedInit PROVE SchedInv OBVIOUS
<1> USE SlotAssumption DEF SchedInit
<1>1. SchedTypeOK BY CountAssumption DEF SchedTypeOK, Most
<1>2. RaiseKept BY DEF RaiseKept
<1>3. NeverThrice BY DEF NeverThrice
<1>4. CountersInStep
  <2> SUFFICES ASSUME NEW q \in Slot, NEW p \in Slot PROVE InStep(q, p)
    BY DEF CountersInStep
  <2>1. Count[q] \in Nat BY CountAssumption
  <2>2. cnt[p] = 0 * Count[q] + cnt[q] BY <2>1
  <2> QED BY <2>2 DEF InStep
<1>5. ClearsRaised BY DEF ClearsRaised
<1>6. ShorterDueToo BY DEF ShorterDueToo
<1>7. SecondIsLast BY DEF SecondIsLast
<1> QED BY <1>1, <1>2, <1>3, <1>4, <1>5, <1>6, <1>7 DEF SchedInv

LEMMA TickInv == SchedInv /\ timer_group0_isr => SchedInv'
<1> SUFFICES ASSUME SchedInv, timer_group0_isr PROVE SchedInv' OBVIOUS
<1> USE SlotAssumption DEF SchedInv, timer_group0_isr
<1>1. /\ cnt' \in [Slot -> Nat] /\ (\A p \in Slot : cnt'[p] < Count[p])
  <2>1. \A p \in Slot : cnt[p] \in Nat /\ Count[p] \in Nat /\ cnt[p] < Count[p]
    BY CountAssumption DEF SchedTypeOK
  <2>2. \A p \in Slot : Advanced[p] \in Nat /\ Advanced[p] < Count[p]
    BY <2>1 DEF Advanced
  <2> QED BY <2>2 DEF Advanced
<1>2. SchedTypeOK' BY <1>1 DEF SchedTypeOK, placeVars
<1>3. RaiseKept' BY DEF RaiseKept, SchedTypeOK
<1>4. NeverThrice' BY DEF NeverThrice
<1>5. \A q, p \in Slot : q < p => InStep(q, p)' /\ (cnt'[p] = 0 => cnt'[q] = 0)
  BY TickInStep DEF CountersInStep
<1>6. CountersInStep' BY <1>5 DEF CountersInStep
<1>7. ClearsRaised' BY DEF ClearsRaised, SchedTypeOK, placeVars
<1>8. ShorterDueToo' BY <1>5 DEF ShorterDueToo, SchedTypeOK
<1>9. SecondIsLast' BY DEF SecondIsLast, BeforeNext, placeVars
<1> QED BY <1>2, <1>3, <1>4, <1>6, <1>7, <1>8, <1>9

LEMMA TestInv == SchedInv /\ Test => SchedInv'
<1> SUFFICES ASSUME SchedInv, Test PROVE SchedInv' OBVIOUS
<1> USE SlotAssumption DEF SchedInv, Test, timerVars
<1>1. After(slot) \in Slot BY DEF After, SchedTypeOK
<1>2. SchedTypeOK' BY <1>1 DEF SchedTypeOK
<1>3. RaiseKept' /\ NeverThrice' BY DEF RaiseKept, NeverThrice
<1>4. CountersInStep' BY DEF CountersInStep, InStep
<1>5. ClearsRaised' BY DEF ClearsRaised
<1>6. ShorterDueToo' BY DEF ShorterDueToo
<1>7. SecondIsLast'
  <2> SUFFICES ASSUME NEW q \in Slot, NEW p \in Slot, q < p, ahead[q][p] = 2
               PROVE flg[q] /\ BeforeNext(q, p)'
    BY DEF SecondIsLast
  <2>1. flg[q] /\ BeforeNext(q, p) BY DEF SecondIsLast
  <2> QED BY <2>1 DEF BeforeNext, After, SchedTypeOK
<1> QED BY <1>2, <1>3, <1>4, <1>5, <1>6, <1>7

LEMMA ClearInv == SchedInv /\ Clear => SchedInv'
<1> SUFFICES ASSUME SchedInv, Clear PROVE SchedInv' OBVIOUS
<1> USE SlotAssumption DEF SchedInv, Clear
<1>0. slot \in Slot /\ flg[slot] BY DEF SchedTypeOK, ClearsRaised
<1>1. /\ ahead' \in [Slot -> [Slot -> 0..Most]]
      /\ \A q, p \in Slot :
           ahead'[q][p] = IF q = slot THEN 0
                          ELSE IF p = slot /\ q < slot /\ ahead[q][p] < Most
                               THEN ahead[q][p] + 1 ELSE ahead[q][p]
  BY <1>0 DEF Begun, Longer, SchedTypeOK, Most
<1>2. SchedTypeOK' BY <1>1 DEF SchedTypeOK
<1>3. RaiseKept' BY <1>0 DEF RaiseKept, SchedTypeOK
<1>4. CountersInStep' BY DEF CountersInStep, InStep
<1>5. ClearsRaised' BY DEF ClearsRaised
<1>6. \A q \in Slot : q < slot => ahead[q][slot] <= 1
  <2> SUFFICES ASSUME NEW q \in Slot, q < slot, ahead[q][slot] > 1 PROVE FALSE
    BY <1>0 DEF SchedTypeOK, Most
  <2>1. ahead[q][slot] = 2 BY <1>0 DEF NeverThrice, Longer, SchedTypeOK, Most
  <2>2. BeforeNext(q, slot) BY <1>0, <2>1 DEF SecondIsLast
  <2> QED BY <1>0, <2>2 DEF BeforeNext
<1>7. NeverThrice' BY <1>0, <1>1, <1>6 DEF NeverThrice, Longer, SchedTypeOK, Most
<1>8. ShorterDueToo'
  <2> SUFFICES ASSUME NEW q \in Slot, NEW p \in Slot, q < p, ahead'[q][p] >= 1, flg'[p]
               PROVE flg'[q]
    BY DEF ShorterDueToo
  <2>1. p # slot BY <1>0 DEF SchedTypeOK
  <2>2. q # slot BY <1>1
  <2>3. ahead[q][p] >= 1 /\ flg[p] BY <1>0, <1>1, <2>1, <2>2 DEF SchedTypeOK
  <2> QED BY <1>0, <2>2, <2>3 DEF ShorterDueToo, SchedTypeOK
<1>9. SecondIsLast'
  <2> SUFFICES ASSUME NEW q \in Slot, NEW p \in Slot, q < p, ahead'[q][p] = 2
               PROVE flg'[q] /\ BeforeNext(q, p)'
    BY DEF SecondIsLast
  <2>1. q # slot BY <1>1
  <2>2. CASE p = slot
    <3>1. ahead[q][p] = 1 BY <1>0, <1>1, <1>6, <2>1, <2>2 DEF SchedTypeOK, Most
    <3>2. flg[q] BY <1>0, <2>2, <3>1 DEF ShorterDueToo
    <3> QED BY <1>0, <2>1, <2>2, <3>2 DEF BeforeNext, SchedTypeOK
  <2>3. CASE p # slot
    <3>1. ahead[q][p] = 2 BY <1>1, <2>1, <2>3
    <3>2. flg[q] /\ BeforeNext(q, p) BY <3>1 DEF SecondIsLast
    <3> QED BY <1>0, <2>1, <2>3, <3>2 DEF BeforeNext, SchedTypeOK
  <2> QED BY <2>2, <2>3
<1> QED BY <1>2, <1>3, <1>4, <1>5, <1>7, <1>8, <1>9

LEMMA TaskEndsInv == SchedInv /\ TaskEnds => SchedInv'
<1> SUFFICES ASSUME SchedInv, TaskEnds PROVE SchedInv' OBVIOUS
<1> USE SlotAssumption DEF SchedInv, TaskEnds, timerVars
<1>1. After(slot) \in Slot BY DEF After, SchedTypeOK
<1>2. SchedTypeOK' BY <1>1 DEF SchedTypeOK
<1>3. RaiseKept' /\ NeverThrice' BY DEF RaiseKept, NeverThrice
<1>4. CountersInStep' BY DEF CountersInStep, InStep
<1>5. ClearsRaised' /\ ShorterDueToo' BY DEF ClearsRaised, ShorterDueToo
<1>6. SecondIsLast'
  <2> SUFFICES ASSUME NEW q \in Slot, NEW p \in Slot, q < p, ahead[q][p] = 2
               PROVE flg[q] /\ BeforeNext(q, p)'
    BY DEF SecondIsLast
  <2>1. flg[q] /\ BeforeNext(q, p) BY DEF SecondIsLast
  <2> QED BY <2>1 DEF BeforeNext, After, SchedTypeOK
<1> QED BY <1>2, <1>3, <1>4, <1>5, <1>6

LEMMA StepInv == SchedInv /\ [SchedNext]_schedVars => SchedInv'
<1> SUFFICES ASSUME SchedInv, [SchedNext]_schedVars PROVE SchedInv' OBVIOUS
<1>1. CASE timer_group0_isr BY <1>1, TickInv
<1>2. CASE app_main BY <1>2, TestInv, ClearInv, TaskEndsInv DEF app_main
<1>3. CASE UNCHANGED schedVars
  BY <1>3 DEF SchedInv, SchedTypeOK, RaiseKept, NeverThrice, CountersInStep, InStep,
     ClearsRaised, ShorterDueToo, SecondIsLast, BeforeNext, schedVars, timerVars, placeVars
<1> QED BY <1>1, <1>2, <1>3 DEF SchedNext

-----------------------------------------------------------------------------
THEOREM SchedInvariant == SchedSpec => []SchedInv
<1> QED BY InitInv, StepInv, PTL DEF SchedSpec

\* The counters of timer_group0_isr never reach the ends of their periods, and the places
\* of the loop are those of app_main.
THEOREM SchedTypeCorrect == SchedSpec => []SchedTypeOK
<1>1. SchedInv => SchedTypeOK BY DEF SchedInv
<1> QED BY <1>1, SchedInvariant, PTL

\* app_main loses no raise of a flag, whenever the interrupt comes.
THEOREM RaisesKept == SchedSpec => []RaiseKept
<1>1. SchedInv => RaiseKept BY DEF SchedInv
<1> QED BY <1>1, SchedInvariant, PTL

\* Between two calls of a task, one of a longer period begins twice at most, for any
\* numbers of ticks of which each divides the longer ones, and any lengths of the tasks.
THEOREM NeverBeginsThrice == SchedSpec => []NeverThrice
<1>1. SchedInv => NeverThrice BY DEF SchedInv
<1> QED BY <1>1, SchedInvariant, PTL
=============================================================================
