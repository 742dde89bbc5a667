--------------------------- MODULE SdCard_proofs ---------------------------
(***************************************************************************)
(* The safety of SdCard for any numbers of samples and calls: the bits and *)
(* the counters that three tasks write fit together at every step.         *)
(***************************************************************************)
EXTENDS SdCard, TLAPS

\* A mount that is tried leaves a truthful bit, whichever way it ends.
LEMMA MountTold ==
  ASSUME NEW present, NEW ret \in MountResult(present), NEW bus \in BOOLEAN,
         sys_sd_card \in BOOLEAN, sys_sd_card_init \in BOOLEAN,
         init_sdcard(ret, bus)
  PROVE  /\ fs' \in FileSystem
         /\ sys_sd_card' \in BOOLEAN /\ sys_sd_card_init' \in BOOLEAN
         /\ fs' = "none" => sys_sd_card' \/ sys_sd_card_init'
<1>1. ret \in {"ESP_OK", "ESP_FAIL", "OTHER"}
  BY DEF MountResult
<1> QED BY <1>1 DEF init_sdcard, FileSystem

LEMMA InitSd ==
  ASSUME SdInit
  PROVE  SdInv
<1> USE SdCardAssumption
<1>1. PICK ret \in MountResult(card), bus \in BOOLEAN :
        /\ fs = (IF ret = "ESP_OK" THEN "usable" ELSE "none")
        /\ sys_sd_card_init = (ret = "ESP_FAIL")
        /\ sys_sd_card = (ret = "OTHER" \/ (ret # "ESP_OK" /\ ~ bus))
  BY DEF SdInit
<1>2. ret \in {"ESP_OK", "ESP_FAIL", "OTHER"}
  BY DEF MountResult
<1>3. SdTypeOK
  <2>1. /\ card \in BOOLEAN /\ button \in BOOLEAN
        /\ sys_sd_card \in BOOLEAN /\ sys_sd_card_init \in BOOLEAN
        /\ sys_sd_detect \in BOOLEAN /\ sys_sd_timeout \in BOOLEAN /\ sys_sd_eject \in BOOLEAN
    BY <1>1, Zenon DEF SdInit
  <2>2. fs \in FileSystem
    BY <1>1 DEF FileSystem
  <2>3. /\ retry_cnt \in 0..(DetectCalls - 1) /\ press_cnt \in 0..(PressCalls - 1)
        /\ sd_retry_cnt \in 0..(RefusedCalls - 1) /\ toggle_cnt \in 0..(BlinkCalls - 1)
        /\ turns \in 0..2 /\ lost_saves \in 0..3
    BY DEF SdInit
  <2> QED BY <2>1, <2>2, <2>3 DEF SdTypeOK
<1>4. BitsTellMount
  BY <1>1, <1>2 DEF BitsTellMount
<1>5. LostSinceSample
  BY DEF SdInit, LostSinceSample
<1> QED BY <1>3, <1>4, <1>5 DEF SdInv

LEMMA PeopleStep ==
  ASSUME SdInv, People
  PROVE  SdInv'
<1> USE DEF SdInv, SdTypeOK, BitsTellMount, LostSinceSample, sdBits, counters, FileSystem
<1>1. CASE RemoveCard
  <2>1. card' = FALSE /\ lost_saves' = 0 /\ UNCHANGED <<button, sdBits, counters, turns>>
    BY <1>1 DEF RemoveCard
  <2>2. fs' \in FileSystem /\ (fs' = "none" => fs = "none")
    BY <1>1 DEF RemoveCard
  <2>3. SdTypeOK'
    <3>1. /\ card' \in BOOLEAN /\ button' \in BOOLEAN
          /\ sys_sd_card' \in BOOLEAN /\ sys_sd_card_init' \in BOOLEAN
          /\ sys_sd_detect' \in BOOLEAN /\ sys_sd_timeout' \in BOOLEAN
          /\ sys_sd_eject' \in BOOLEAN
      BY <2>1
    <3> QED BY <2>1, <2>2, <3>1
  <2>4. BitsTellMount'
    BY <2>1, <2>2
  <2>5. LostSinceSample'
    BY <2>1
  <2> QED BY <2>3, <2>4, <2>5 DEF SdInv
<1>2. CASE InsertCard
  BY <1>2 DEF InsertCard
<1>3. CASE PressOrRelease
  BY <1>3 DEF PressOrRelease
<1> QED BY <1>1, <1>2, <1>3 DEF People

\* The pin: what check_card_detect writes.
LEMMA Sampled ==
  ASSUME SdInv, check_card_detect
  PROVE  /\ card' \in BOOLEAN /\ fs' \in FileSystem
         /\ sys_sd_card' \in BOOLEAN /\ sys_sd_card_init' \in BOOLEAN
         /\ sys_sd_detect' \in BOOLEAN
         /\ retry_cnt' \in 0..(DetectCalls - 1)
         /\ lost_saves' = 0
         /\ BitsTellMount'
<1> USE DEF SdInv, SdTypeOK, sdBits
<1>1. CASE SampleGone
  <2>1. retry_cnt' \in 0..(DetectCalls - 1)
    BY <1>1, SdCardAssumption DEF SampleGone
  <2>2. sys_sd_detect' \in BOOLEAN /\ sys_sd_card_init' \in BOOLEAN
    BY <1>1, Zenon DEF SampleGone
  <2>3. sys_sd_card_init => sys_sd_card_init'
    BY <1>1, Zenon DEF SampleGone
  <2>4. UNCHANGED <<card, fs, sys_sd_card, lost_saves>> /\ ~ card
    BY <1>1 DEF SampleGone
  <2>5. lost_saves = 0
    BY <2>4 DEF LostSinceSample
  <2> QED BY <2>1, <2>2, <2>3, <2>4, <2>5 DEF BitsTellMount
<1>2. CASE SampleThere /\ sys_sd_card_init /\ ~ sys_sd_timeout
  <2>1. reinitialize_sdcard /\ UNCHANGED retry_cnt /\ sys_sd_detect' = FALSE
    BY <1>2 DEF SampleThere
  <2>2. PICK ret \in MountResult(card'), bus \in BOOLEAN : init_sdcard(ret, bus)
    BY <2>1 DEF reinitialize_sdcard
  <2>3. /\ fs' \in FileSystem
        /\ sys_sd_card' \in BOOLEAN /\ sys_sd_card_init' \in BOOLEAN
        /\ fs' = "none" => sys_sd_card' \/ sys_sd_card_init'
    BY <2>2, MountTold
  <2> QED BY <2>1, <2>3 DEF reinitialize_sdcard, BitsTellMount
<1>3. CASE SampleThere /\ ~ (sys_sd_card_init /\ ~ sys_sd_timeout)
  <2>1. UNCHANGED <<card, fs, sys_sd_card, sys_sd_card_init, lost_saves, retry_cnt>>
    BY <1>3 DEF SampleThere
  <2>2. lost_saves = 0
    BY <1>3 DEF LostSinceSample
  <2> QED BY <1>3, <2>1, <2>2 DEF SampleThere, BitsTellMount
<1> QED BY <1>1, <1>2, <1>3 DEF check_card_detect

LEMMA Task100msStep ==
  ASSUME SdInv, Task100ms
  PROVE  SdInv'
<1> USE SdCardAssumption DEF SdInv, SdTypeOK, sdBits, Task100ms
<1>1. /\ card' \in BOOLEAN /\ fs' \in FileSystem
      /\ sys_sd_card' \in BOOLEAN /\ sys_sd_card_init' \in BOOLEAN
      /\ sys_sd_detect' \in BOOLEAN
      /\ retry_cnt' \in 0..(DetectCalls - 1)
      /\ lost_saves' = 0
      /\ BitsTellMount'
  BY Sampled
<1>2. press_cnt' \in 0..(PressCalls - 1)
  BY DEF check_switch_pressed
<1>3. sys_sd_timeout' \in BOOLEAN
  BY DEF Hold
<1>4. toggle_cnt' \in 0..(BlinkCalls - 1) /\ sys_sd_eject' \in BOOLEAN
  BY DEF BlinkForEject
<1>5. turns' = 0 /\ UNCHANGED <<button, sd_retry_cnt>>
  OBVIOUS
<1> QED BY <1>1, <1>2, <1>3, <1>4, <1>5 DEF LostSinceSample

LEMMA Task1secStep ==
  ASSUME SdInv, Task1sec
  PROVE  SdInv'
<1> USE SdCardAssumption
        DEF SdInv, SdTypeOK, BitsTellMount, LostSinceSample, sdBits, world, Task1sec
<1>1. CASE Save
  BY <1>1 DEF Save, MaySave
<1>2. CASE Refuse
  BY <1>2 DEF Refuse, MaySave
<1> QED BY <1>1, <1>2

LEMMA SdInductive == SdSpec => []SdInv
<1>1. SdInv /\ [SdNext]_sdVars => SdInv'
  <2> SUFFICES ASSUME SdInv, [SdNext]_sdVars
               PROVE  SdInv'
    OBVIOUS
  <2>1. CASE UNCHANGED sdVars
    BY <2>1 DEF sdVars, world, sdBits, counters, SdInv, SdTypeOK, BitsTellMount, LostSinceSample
  <2> QED BY <2>1, PeopleStep, Task100msStep, Task1secStep DEF SdNext
<1> QED BY <1>1, InitSd, PTL DEF SdSpec

-----------------------------------------------------------------------------
\* While no file system is mounted, one of the two bits says so, whatever the card, the
\* button and the driver do; and no counter leaves its range, for any limits.
THEOREM BitsFitTogether == SdSpec => []SdInv
<1> QED BY SdInductive

\* After a card has come back, two records at most are tried on the file system that went
\* with it, for any numbers of samples and calls.
THEOREM SavesLostBounded == SdSpec => []FewLostSaves
<1>1. SdInv => FewLostSaves
  BY DEF SdInv, SdTypeOK, LostSinceSample, FewLostSaves
<1> QED BY <1>1, SdInductive, PTL
=============================================================================
