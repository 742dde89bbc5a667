----------------------------- MODULE Superloop -----------------------------
(***************************************************************************)
(* The scheduler.  timer_group0_isr raises a flag for each period that has *)
(* passed; app_main goes round, tests the flags in the order of their      *)
(* periods, clears one that is up and runs its task to the end.  The       *)
(* interrupt comes between any two steps and any number of times during a  *)
(* task: raises of a flag that is still up coalesce.                       *)
(*                                                                         *)
(* The four periods, 10 ms, 50 ms, 100 ms and 1 s, are numbered.           *)
(***************************************************************************)
EXTENDS Integers

CONSTANTS
  Slot,      \* the numbers of the periods
  Count      \* ticks in each: 1, SCHEDULE_50MS_CNT, SCHEDULE_100MS_CNT, 100

\* The periods start with one tick, and each divides the longer ones.
ASSUME SlotAssumption == Slot = 1..4
ASSUME CountAssumption ==
  /\ Count \in [Slot -> Nat \ {0}]
  /\ \A q, p \in Slot : q < p => \E n \in 1..Count[p] : Count[p] = n * Count[q]

VARIABLES
  cnt,       \* the counters cnt_50ms, cnt_100ms, cnt_1sec (and none for 10 ms)
  flg,       \* schedular_flg
  stage,     \* app_main is about to test the flag, to clear it, or to run the task
  slot,      \* of this period
  owed,      \* periods that have passed since their task last began
  ahead      \* ahead[q][p]: how often task p has begun since task q last did

timerVars == <<cnt, flg>>
placeVars == <<stage, slot>>
schedVars == <<timerVars, placeVars, owed, ahead>>

Most == 3
Longer(q, p) == q < p

SchedTypeOK ==
  /\ cnt \in [Slot -> Nat] /\ \A p \in Slot : cnt[p] < Count[p]
  /\ flg \in [Slot -> BOOLEAN]
  /\ stage \in {"test", "clear", "task"}
  /\ slot \in Slot
  /\ owed \in SUBSET Slot
  /\ ahead \in [Slot -> [Slot -> 0..Most]]

SchedInit ==
  /\ cnt = [p \in Slot |-> 0]
  /\ flg = [p \in Slot |-> FALSE]
  /\ stage = "test" /\ slot = 1
  /\ owed = {}
  /\ ahead = [q \in Slot |-> [p \in Slot |-> 0]]

-----------------------------------------------------------------------------
\* MUTANT: the counter of 1 s starts with one tick on it.
AdvancedAhead ==
  [p \in Slot |-> IF p = 4 /\ cnt[p] = 0 THEN 2
                  ELSE IF cnt[p] + 1 = Count[p] THEN 0 ELSE cnt[p] + 1]

Advanced == [p \in Slot |-> IF cnt[p] + 1 = Count[p] THEN 0 ELSE cnt[p] + 1]

\* timer_group0_isr, every 10 ms.
timer_group0_isr ==
  /\ cnt' = Advanced
  /\ flg' = [p \in Slot |-> flg[p] \/ cnt'[p] = 0]
  /\ owed' = owed \cup {p \in Slot : cnt'[p] = 0}
  /\ UNCHANGED <<placeVars, ahead>>

After(p) == (p % 4) + 1

\* The flag is tested, ...
Test ==
  /\ stage = "test"
  /\ IF flg[slot] THEN stage' = "clear" /\ UNCHANGED slot
                  ELSE slot' = After(slot) /\ UNCHANGED stage
  /\ UNCHANGED <<timerVars, owed, ahead>>

Begun(p) ==
  [q \in Slot |-> [r \in Slot |->
     IF q = p THEN 0
     ELSE IF r = p /\ Longer(q, p) /\ ahead[q][p] < Most THEN ahead[q][p] + 1
     ELSE ahead[q][r]]]

\* ... cleared, ...
Clear ==
  /\ stage = "clear" /\ stage' = "task"
  /\ flg' = [flg EXCEPT ![slot] = FALSE]
  /\ owed' = owed \ {slot}
  /\ ahead' = Begun(slot)
  /\ UNCHANGED <<cnt, slot>>

\* MUTANT: the flag is cleared after the task.
TaskThenClear ==
  /\ stage = "task" /\ stage' = "test"
  /\ slot' = After(slot)
  /\ flg' = [flg EXCEPT ![slot] = FALSE]
  /\ UNCHANGED <<cnt, owed, ahead>>

\* MUTANT: after a task the loop starts again with the first flag.
TaskFromTop ==
  /\ stage = "task" /\ stage' = "test"
  /\ slot' = 1
  /\ UNCHANGED <<timerVars, owed, ahead>>

\* ... and the task is over.
TaskEnds ==
  /\ stage = "task" /\ stage' = "test"
  /\ slot' = After(slot)
  /\ UNCHANGED <<timerVars, owed, ahead>>

app_main == Test \/ Clear \/ TaskEnds

SchedNext == timer_group0_isr \/ app_main

\* The superloop never stops, no task runs for ever, and the timer keeps ticking.
SchedFairness == WF_schedVars(app_main) /\ WF_schedVars(timer_group0_isr)

SchedSpec == SchedInit /\ [][SchedNext]_schedVars /\ SchedFairness

-----------------------------------------------------------------------------
(***************************************************************************)
(* Properties.                                                             *)
(***************************************************************************)
\* No raise is lost: when a period has passed since its task last began, the flag is up.
RaiseKept == \A p \in owed : flg[p]

\* Late calls change the order of the tasks, but not by much: between two calls of a
\* task, one of a longer period begins twice at most.  (Once is not true: its first
\* call may be late and its second early in the round.)
NeverThrice == \A q, p \in Slot : Longer(q, p) => ahead[q][p] <= 2

\* Every period's task is called again and again, however long the others take.
EveryTaskRuns == \A p \in Slot : []<>(stage = "task" /\ slot = p)
=============================================================================
