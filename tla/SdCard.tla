------------------------------- MODULE SdCard -------------------------------
(***************************************************************************)
(* The card: mounted at start-up and again after it has been away, guarded *)
(* by five bits of the status word that three tasks write.  The 100 ms     *)
(* task samples the detect pin and the eject button and blinks for the     *)
(* eject; the 1 s task saves a record, or counts the calls in which it may *)
(* not.  The superloop may call the 1 s task twice before it comes to the  *)
(* 100 ms task, never three times (Superloop: NeverThrice).                *)
(*                                                                         *)
(* The card, its slot and the file system driver are external.  The driver *)
(* does not notice that a card goes: a file system that is mounted then    *)
(* stays mounted, and nothing can be opened on it.                         *)
(***************************************************************************)
EXTENDS Naturals

CONSTANTS
  DetectCalls,   \* samples without a card before it counts as gone: 3
  PressCalls,    \* samples of the button before it counts as pressed: 6
  RefusedCalls,  \* calls that may not save before the hold ends: 31
  BlinkCalls     \* calls of control_RGB that blink for an eject: 101

ASSUME SdCardAssumption ==
  /\ DetectCalls \in Nat \ {0} /\ PressCalls \in Nat \ {0}
  /\ RefusedCalls \in Nat \ {0} /\ BlinkCalls \in Nat \ {0}

VARIABLES
  card,              \* a card is in the slot (the detect pin is low)
  button,            \* the eject button is held down
  fs,                \* the file system: not mounted, usable, or of a card that has gone
  sys_sd_card,       \* SYS_SD_CARD is HIGH
  sys_sd_card_init,  \* SYS_SD_CARD_INIT
  sys_sd_detect,     \* SYS_SD_DETECT
  sys_sd_timeout,    \* SYS_SD_TIMEOUT
  sys_sd_eject,      \* SYS_SD_EJECT
  retry_cnt,         \* check_card_detect: samples without a card
  press_cnt,         \* check_switch_pressed: count
  sd_retry_cnt,      \* update_ram_data: calls that could not save
  toggle_cnt,        \* control_RGB: calls that have blinked
  turns,             \* 1 s tasks since the last 100 ms task
  lost_saves         \* saves tried, with a card in, on a file system known to be gone

world == <<card, button>>
sdBits == <<sys_sd_card, sys_sd_card_init, sys_sd_detect, sys_sd_timeout, sys_sd_eject>>
counters == <<retry_cnt, press_cnt, sd_retry_cnt, toggle_cnt>>
sdVars == <<world, fs, sdBits, counters, turns, lost_saves>>

FileSystem == {"none", "usable", "gone"}

SdTypeOK ==
  /\ card \in BOOLEAN /\ button \in BOOLEAN
  /\ fs \in FileSystem
  /\ sys_sd_card \in BOOLEAN /\ sys_sd_card_init \in BOOLEAN
  /\ sys_sd_detect \in BOOLEAN /\ sys_sd_timeout \in BOOLEAN /\ sys_sd_eject \in BOOLEAN
  /\ retry_cnt \in 0..(DetectCalls - 1)
  /\ press_cnt \in 0..(PressCalls - 1)
  /\ sd_retry_cnt \in 0..(RefusedCalls - 1)
  /\ toggle_cnt \in 0..(BlinkCalls - 1)
  /\ turns \in 0..2
  /\ lost_saves \in 0..3

\* What esp_vfs_fat_sdspi_mount returns: without a card it cannot answer ESP_OK.
MountResult(present) == IF present THEN {"ESP_OK", "ESP_FAIL", "OTHER"} ELSE {"OTHER"}

\* Start-up: init_sdcard with all bits LOW.
SdInit ==
  /\ card \in BOOLEAN /\ button = FALSE
  /\ \E ret \in MountResult(card), bus \in BOOLEAN :
       /\ fs = (IF ret = "ESP_OK" THEN "usable" ELSE "none")
       /\ sys_sd_card_init = (ret = "ESP_FAIL")
       /\ sys_sd_card = (ret = "OTHER" \/ (ret # "ESP_OK" /\ ~ bus))
  /\ sys_sd_detect = FALSE /\ sys_sd_timeout = FALSE /\ sys_sd_eject = FALSE
  /\ retry_cnt = 0 /\ press_cnt = 0 /\ sd_retry_cnt = 0 /\ toggle_cnt = 0
  /\ turns = 0 /\ lost_saves = 0

-----------------------------------------------------------------------------
(***************************************************************************)
(* What people do.                                                         *)
(***************************************************************************)
RemoveCard ==
  /\ card /\ card' = FALSE
  /\ fs' = IF fs = "usable" THEN "gone" ELSE fs
  /\ lost_saves' = 0
  /\ UNCHANGED <<button, sdBits, counters, turns>>

InsertCard ==
  /\ ~ card /\ card' = TRUE
  /\ lost_saves' = 0
  /\ UNCHANGED <<button, fs, sdBits, counters, turns>>

PressOrRelease ==
  /\ button' = ~ button
  /\ UNCHANGED <<card, fs, sdBits, counters, turns, lost_saves>>

People == RemoveCard \/ InsertCard \/ PressOrRelease

-----------------------------------------------------------------------------
(***************************************************************************)
(* The 100 ms task.                                                        *)
(***************************************************************************)
\* MUTANT: the bits are lowered before the mount is tried.
init_sdcard_optimistic(ret, bus) ==
  /\ fs' = IF ret = "ESP_OK" THEN "usable" ELSE "none"
  /\ sys_sd_card_init' = FALSE
  /\ sys_sd_card' = FALSE

\* init_sdcard: one bit for each kind of failure, both LOW after a success.  A bus that
\* cannot be initialised (nobody looks whether it could be freed) counts with the others.
init_sdcard(ret, bus) ==
  /\ fs' = IF ret = "ESP_OK" THEN "usable" ELSE "none"
  /\ sys_sd_card_init' = (ret # "ESP_OK" /\ (ret = "ESP_FAIL" \/ sys_sd_card_init))
  /\ sys_sd_card' = (ret # "ESP_OK" /\ (ret = "OTHER" \/ ~ bus \/ sys_sd_card))

\* reinitialize_sdcard unmounts, waits for a second, in which the card may come and go,
\* and mounts.
reinitialize_sdcard ==
  /\ card' \in BOOLEAN
  /\ \E ret \in MountResult(card'), bus \in BOOLEAN : init_sdcard(ret, bus)
  /\ lost_saves' = 0

\* The pin is high: after enough samples, the card counts as gone.
SampleGone ==
  /\ ~ card
  /\ IF retry_cnt + 1 < DetectCalls
     THEN /\ retry_cnt' = retry_cnt + 1
          /\ UNCHANGED <<sys_sd_detect, sys_sd_card_init>>
     ELSE /\ retry_cnt' = 0
          /\ sys_sd_detect' = TRUE /\ sys_sd_card_init' = TRUE
  /\ UNCHANGED <<card, fs, sys_sd_card, lost_saves>>

\* MUTANT: the wrong bit is asked: it is LOW again with the first sample.
SampleThereDetect ==
  /\ card
  /\ IF sys_sd_detect /\ ~ sys_sd_timeout
     THEN reinitialize_sdcard
     ELSE UNCHANGED <<card, fs, sys_sd_card, sys_sd_card_init, lost_saves>>
  /\ sys_sd_detect' = FALSE
  /\ UNCHANGED retry_cnt

\* The pin is low: a card that was gone is mounted when the hold is over.
SampleThere ==
  /\ card
  /\ IF sys_sd_card_init /\ ~ sys_sd_timeout
     THEN reinitialize_sdcard
     ELSE UNCHANGED <<card, fs, sys_sd_card, sys_sd_card_init, lost_saves>>
  /\ sys_sd_detect' = FALSE
  /\ UNCHANGED retry_cnt

check_card_detect == SampleGone \/ SampleThere

\* The press counts after PressCalls samples; a release does not start the count anew.
Pressed == button /\ press_cnt + 1 = PressCalls

check_switch_pressed ==
  press_cnt' = IF button THEN (press_cnt + 1) % PressCalls ELSE press_cnt

\* What check_card_detect and check_switch_pressed raise stays until update_ram_data.
Hold == sys_sd_timeout' = (sys_sd_timeout \/ Pressed \/ (~ card /\ retry_cnt' = 0))

\* control_RGB: a pressed button makes the LED blink for BlinkCalls calls.
BlinkForEject ==
  LET ejecting == sys_sd_eject \/ Pressed IN
  /\ toggle_cnt' = IF ejecting THEN (toggle_cnt + 1) % BlinkCalls ELSE toggle_cnt
  /\ sys_sd_eject' = (ejecting /\ toggle_cnt' # 0)

Task100ms ==
  /\ check_card_detect /\ check_switch_pressed /\ Hold /\ BlinkForEject
  /\ turns' = 0
  /\ UNCHANGED <<button, sd_retry_cnt>>

-----------------------------------------------------------------------------
(***************************************************************************)
(* The 1 s task: update_ram_data.                                          *)
(***************************************************************************)
MaySave == ~ sys_sd_timeout /\ ~ sys_sd_detect

\* SD_file_Save.
Save ==
  /\ MaySave
  /\ sys_sd_detect' = (sys_sd_detect /\ fs # "usable")
  /\ lost_saves' = IF card /\ fs = "gone" /\ sys_sd_card_init /\ lost_saves < 3
                   THEN lost_saves + 1 ELSE lost_saves
  /\ UNCHANGED <<sys_sd_timeout, sd_retry_cnt>>

\* MUTANT: the count starts over as long as the card is away.
RefuseForever ==
  /\ ~ MaySave
  /\ sd_retry_cnt' = IF sys_sd_card_init THEN 0 ELSE (sd_retry_cnt + 1) % RefusedCalls
  /\ sys_sd_timeout' = (sys_sd_timeout /\ (sys_sd_card_init \/ sd_retry_cnt' # 0))
  /\ UNCHANGED <<sys_sd_detect, lost_saves>>

\* A call that may not save; enough of them end the hold.
Refuse ==
  /\ ~ MaySave
  /\ sd_retry_cnt' = (sd_retry_cnt + 1) % RefusedCalls
  /\ sys_sd_timeout' = (sys_sd_timeout /\ sd_retry_cnt' # 0)
  /\ UNCHANGED <<sys_sd_detect, lost_saves>>

Task1sec ==
  /\ turns < 2 /\ turns' = turns + 1
  /\ Save \/ Refuse
  /\ UNCHANGED <<world, fs, sys_sd_card, sys_sd_card_init, sys_sd_eject, retry_cnt, press_cnt,
                 toggle_cnt>>

SdNext == People \/ Task100ms \/ Task1sec

\* Both tasks run for ever.  A card that is there can be mounted now and then.
Mounts == Task100ms /\ fs' = "usable" /\ fs # "usable"
SdSpec ==
  /\ SdInit /\ [][SdNext]_sdVars
  /\ WF_sdVars(Task100ms) /\ WF_sdVars(Task1sec) /\ SF_sdVars(Mounts)

-----------------------------------------------------------------------------
\* The two mount bits tell the truth: while both are LOW, a file system is mounted.
BitsTellMount == fs = "none" => sys_sd_card \/ sys_sd_card_init

\* A card that comes back is mounted before records are saved again: only the 1 s calls that
\* come before the next sample, two of them at most, can try the file system that went with it.
FewLostSaves == lost_saves <= 2

\* Why: such a save is one of a 1 s call since the last sample, and the bit that makes the
\* next sample mount the card is still up.
LostSinceSample ==
  /\ lost_saves <= turns
  /\ lost_saves > 0 => card /\ sys_sd_card_init /\ ~ sys_sd_timeout

\* The bits and the counters of the three tasks fit together at every step.
SdInv == SdTypeOK /\ BitsTellMount /\ LostSinceSample

\* A card that has been away and stays is mounted again, if nobody keeps the button down.
Remounted == <>[](card /\ ~ button) => [](sys_sd_card_init => <>(fs = "usable"))
=============================================================================
