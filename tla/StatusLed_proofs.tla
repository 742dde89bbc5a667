--------------------------- MODULE StatusLed_proofs ---------------------------
(***************************************************************************)
(* The safety of StatusLed for any limits of its counters.                 *)
(***************************************************************************)
EXTENDS StatusLed, TLAPS

\* The blinking for an eject is what has lit red while the LED is off: once it has been
\* toggled an odd number of times.
RedByEject ==
  /\ sys_sd_eject <=> toggle_cnt > 0
  /\ led_state = 0 /\ ~ stray => gpb = IF toggle_cnt % 2 = 1 THEN {"RED"} ELSE {}

\* The readings that count towards a charger are those right before that have shown it; a
\* charger that is there can have others counted against it.
CountedInRow == against <= cnt /\ (~ charger_sts => cnt = against)

LedSafe == LedTypeOK /\ RedByEject /\ CountedInRow
-----------------------------------------------------------------------------
\* An even number of toggles, and what follows on it.
LEMMA EjectEven == EjectCalls \in Nat \ {0} /\ EjectCalls % 2 = 0
<1>1. PICK n \in 1..EjectCalls : EjectCalls = 2 * n
  BY LedAssumption
<1> QED BY <1>1

LEMMA LimitsNatural == /\ ChargeCalls \in Nat /\ FullCalls \in Nat /\ NormalCalls \in Nat
                       /\ LowOffCalls \in Nat /\ LowOnCalls \in Nat
BY LedAssumption

LEMMA PatienceBounded ==
  ASSUME LedTypeOK
  PROVE  Patience \in 0..MostCalls
<1>1. Mode \in {"charging", "full", "normal", "low"}
  BY DEF Mode, LedTypeOK, Voltage
<1> QED BY <1>1, LimitsNatural DEF Patience, MostCalls, Larger

LEMMA InitLed ==
  ASSUME LedInit
  PROVE  LedSafe
<1> USE DEF LedInit
<1>1. MostCalls \in Nat /\ EjectCalls \in Nat /\ ChargerReads \in Nat \ {0}
  BY LimitsNatural, EjectEven, LedAssumption DEF MostCalls, Larger
<1>2. gpb \subseteq Colour /\ port \subseteq Colour
  BY DEF Colour
<1>3. /\ cnt \in 0..(ChargerReads - 1) /\ against \in 0..(ChargerReads - 1)
      /\ counter \in 0..MostCalls /\ toggle_cnt \in 0..EjectCalls /\ led_state \in 0..1
  BY <1>1
<1>4. v_batt \in Voltage
  BY DEF Voltage
<1>5. LedTypeOK
  BY <1>2, <1>3, <1>4, Zenon DEF LedTypeOK
<1>6. RedByEject /\ CountedInRow
  BY DEF RedByEject, CountedInRow
<1> QED BY <1>5, <1>6 DEF LedSafe

-----------------------------------------------------------------------------
(***************************************************************************)
(* The steps that leave the LED alone.                                     *)
(***************************************************************************)
LEMMA OutsideStep ==
  ASSUME LedSafe, Outside
  PROVE  LedSafe'
BY DEF LedSafe, Outside, LedTypeOK, RedByEject, CountedInRow, chargerVars, battBits, blinkVars, lights

LEMMA SystemStatusStep ==
  ASSUME LedSafe, check_system_status
  PROVE  LedSafe'
BY DEF LedSafe, check_system_status, LedTypeOK, RedByEject, CountedInRow,
       inputs, chargerVars, battBits, blinkVars, lights

\* The count goes with the row of readings, but for a charger that has not gone yet: there
\* it may run ahead, and it is back at 0 when that charger counts as gone.
LEMMA ChargerStatusStep ==
  ASSUME LedSafe, NEW ok \in BOOLEAN, check_charger_status(ok)
  PROVE  /\ LedSafe'
         /\ charger_sts' /\ ~ charger_sts => reading' /\ against + 1 = ChargerReads
<1> USE LedAssumption DEF LedSafe, check_charger_status
<1>1. /\ UNCHANGED <<charger, v_batt, trouble, sys_charging, sys_batt_low, sys_batt_full>>
      /\ UNCHANGED <<counter, led_state, toggle_cnt, sys_sd_eject, gpb, port, stray>>
  BY DEF inputs, battBits, blinkVars, lights
<1>2. reading' \in BOOLEAN
  BY DEF i2c_read_byte, LedTypeOK
<1>3. /\ cnt \in 0..(ChargerReads - 1) /\ against \in 0..(ChargerReads - 1) /\ against <= cnt
      /\ charger_sts \in BOOLEAN
  BY DEF LedTypeOK, CountedInRow
<1>4. ASSUME charger_sts' \in BOOLEAN, CountedInRow', cnt' \in 0..(ChargerReads - 1),
             against' \in 0..(ChargerReads - 1)
      PROVE  LedSafe'
  BY <1>1, <1>2, <1>4 DEF LedTypeOK, RedByEject
<1>5. CASE reading' = charger_sts
  <2>1. cnt' = (IF charger_sts THEN cnt ELSE 0) /\ UNCHANGED charger_sts /\ against' = 0
    BY <1>5 DEF CountReadings
  <2> QED BY <1>3, <1>4, <2>1 DEF CountedInRow
<1>6. CASE reading' # charger_sts /\ cnt + 1 >= ChargerReads
  <2>1. cnt' = 0 /\ charger_sts' = (~ charger_sts) /\ charger_sts' \in BOOLEAN /\ against' = 0
    BY <1>3, <1>6 DEF CountReadings
  <2>2. ~ charger_sts => reading' /\ against + 1 = ChargerReads
    BY <1>2, <1>3, <1>6 DEF CountedInRow
  <2> QED BY <1>3, <1>4, <2>1, <2>2 DEF CountedInRow
<1>7. CASE reading' # charger_sts /\ ~ (cnt + 1 >= ChargerReads)
  <2>1. cnt' = cnt + 1 /\ UNCHANGED charger_sts /\ against' = against + 1
    BY <1>7 DEF CountReadings
  <2> QED BY <1>3, <1>4, <1>7, <2>1 DEF CountedInRow
<1> QED BY <1>5, <1>6, <1>7

-----------------------------------------------------------------------------
(***************************************************************************)
(* The LED.                                                                *)
(***************************************************************************)
LampType == [gpb : SUBSET Colour, port : SUBSET Colour, stray : BOOLEAN]

LEMMA WriteMakesLamp ==
  ASSUME NEW lamp \in LampType, NEW colours \in SUBSET Colour, NEW ok \in BOOLEAN
  PROVE  /\ Write(lamp, colours, ok) \in LampType
         /\ Write(lamp, colours, ok).gpb = colours
         /\ Write(lamp, colours, ok).stray = lamp.stray
BY DEF Write, LampType

LEMMA ShowTypes ==
  ASSUME NEW lamp \in LampType, Show(lamp)
  PROVE  gpb' \subseteq Colour /\ port' \subseteq Colour /\ stray' \in BOOLEAN
BY DEF Show, LampType

\* What a call finds: the LED as it is, or turned off by the button.
LEMMA LampFound ==
  ASSUME LedSafe, NEW cleared \in BOOLEAN
  PROVE  /\ Lamp \in LampType /\ Lamp.gpb = gpb /\ Lamp.stray = stray
         /\ Cleared(cleared) \in LampType /\ Cleared(cleared).gpb = {}
         /\ Cleared(cleared).stray = (toggle_cnt % 2 = 1)
<1>1. Lamp \in LampType /\ Lamp.gpb = gpb /\ Lamp.stray = stray
  BY DEF LedSafe, LedTypeOK, Lamp, LampType
<1>2. Write(Lamp, {}, cleared) \in LampType /\ Write(Lamp, {}, cleared).gpb = {}
  BY <1>1, WriteMakesLamp
<1>3. (toggle_cnt % 2 = 1) \in BOOLEAN
  OBVIOUS
<1> QED BY <1>1, <1>2, <1>3 DEF Cleared, LampType

\* An eject toggles red an even number of times, and what it finds is what an even number
\* of toggles makes.
LEMMA ShowEjectStep ==
  ASSUME LedSafe, NEW lamp \in LampType, NEW ok \in BOOLEAN,
         UNCHANGED <<inputs, chargerVars, sys_charging>>,
         led_state = 0 /\ ~ lamp.stray =>
           lamp.gpb = IF toggle_cnt % 2 = 1 THEN {"RED"} ELSE {},
         ShowEject(lamp, ok)
  PROVE  LedSafe'
<1> USE EjectEven DEF LedSafe
<1>1. toggle_cnt \in 0..EjectCalls
  BY DEF LedTypeOK
<1>2. /\ ToggleRed(lamp, ok) \in LampType /\ ToggleRed(lamp, ok).stray = lamp.stray
      /\ lamp.gpb = {} => ToggleRed(lamp, ok).gpb = {"RED"}
      /\ lamp.gpb = {"RED"} => ToggleRed(lamp, ok).gpb = {}
  <2> DEFINE colours == IF "RED" \in lamp.gpb THEN lamp.gpb \ {"RED"} ELSE lamp.gpb \cup {"RED"}
  <2>1. colours \in SUBSET Colour
    BY DEF LampType, Colour
  <2>2. /\ lamp.gpb = {} => colours = {"RED"}
        /\ lamp.gpb = {"RED"} => colours = {}
    OBVIOUS
  <2>3. ToggleRed(lamp, ok) = Write(lamp, colours, ok)
    BY DEF ToggleRed
  <2> QED BY <2>1, <2>2, <2>3, WriteMakesLamp
<1>3. CountedInRow'
  BY DEF CountedInRow, chargerVars
<1>4. UNCHANGED <<charger, v_batt, trouble, reading, charger_sts, cnt, against, sys_charging,
                  counter, led_state, sys_batt_low, sys_batt_full>>
  BY DEF ShowEject, inputs, chargerVars, battBits
<1>5. CASE toggle_cnt >= EjectCalls
  <2>1. toggle_cnt' = 0 /\ sys_sd_eject' = FALSE /\ Show(lamp)
    BY <1>5 DEF ShowEject
  <2>2. LedTypeOK'
    <3>1. toggle_cnt' \in 0..EjectCalls
      BY <2>1
    <3>3. sys_sd_eject' \in BOOLEAN
      BY <2>1, Zenon
    <3>2. gpb' \subseteq Colour /\ port' \subseteq Colour /\ stray' \in BOOLEAN
      BY <2>1, ShowTypes
    <3> QED BY <1>4, <3>1, <3>2, <3>3, Zenon DEF LedTypeOK
  <2>3. toggle_cnt % 2 = 0
    BY <1>1, <1>5
  <2>4. RedByEject'
    BY <1>4, <2>1, <2>3 DEF RedByEject, Show
  <2> QED BY <1>3, <2>2, <2>4
<1>6. CASE toggle_cnt < EjectCalls
  <2>1. toggle_cnt' = toggle_cnt + 1 /\ sys_sd_eject' = TRUE /\ Show(ToggleRed(lamp, ok))
    BY <1>1, <1>6 DEF ShowEject
  <2>2. LedTypeOK'
    <3>1. toggle_cnt' \in 0..EjectCalls
      BY <1>1, <1>6, <2>1
    <3>3. sys_sd_eject' \in BOOLEAN
      BY <2>1, Zenon
    <3>2. gpb' \subseteq Colour /\ port' \subseteq Colour /\ stray' \in BOOLEAN
      BY <1>2, <2>1, ShowTypes
    <3> QED BY <1>4, <3>1, <3>2, <3>3, Zenon DEF LedTypeOK
  <2>3. toggle_cnt' % 2 = 1 <=> toggle_cnt % 2 # 1
    BY <1>1, <2>1
  <2>4. sys_sd_eject' <=> toggle_cnt' > 0
    BY <1>1, <2>1
  <2>5. ASSUME led_state' = 0, ~ stray'
        PROVE  gpb' = IF toggle_cnt' % 2 = 1 THEN {"RED"} ELSE {}
    <3>1. lamp.gpb = (IF toggle_cnt % 2 = 1 THEN {"RED"} ELSE {})
      BY <1>2, <1>4, <2>1, <2>5, Zenon DEF Show
    <3>2. gpb' = ToggleRed(lamp, ok).gpb
      BY <2>1 DEF Show
    <3>3. CASE toggle_cnt % 2 = 1
      BY <1>2, <2>3, <3>1, <3>2, <3>3
    <3>4. CASE toggle_cnt % 2 # 1
      BY <1>2, <2>3, <3>1, <3>2, <3>4
    <3> QED BY <3>3, <3>4
  <2>6. RedByEject'
    BY <2>4, <2>5 DEF RedByEject
  <2> QED BY <1>3, <2>2, <2>6
<1> QED BY <1>1, <1>5, <1>6

\* A blink begins where no eject is shown; the turn-off at its end leaves no colour.
LEMMA BlinkStep ==
  ASSUME LedSafe, ~ sys_sd_eject, NEW ok \in BOOLEAN,
         UNCHANGED <<inputs, chargerVars, sys_charging>>,
         Blink(Lamp, ok)
  PROVE  LedSafe'
<1> USE DEF LedSafe
<1>1. Lamp \in LampType /\ Lamp.gpb = gpb /\ Lamp.stray = stray
  BY LampFound
<1>2. Colours \subseteq Colour
  BY DEF Colours, ColoursOf, Mode, LedTypeOK, Voltage, Colour
<1>3. On(Lamp, Colours, ok) \in LampType
  BY <1>1, <1>2, WriteMakesLamp DEF On, LampType
<1>4. Off(Lamp, ok) \in LampType /\ Off(Lamp, ok).gpb = {}
  <2>1. Write(Lamp, {}, ok) \in LampType /\ Write(Lamp, {}, ok).gpb = {}
    BY <1>1, WriteMakesLamp
  <2> QED BY <2>1 DEF Off, LampType
<1>5. /\ UNCHANGED <<charger, v_batt, trouble, reading, charger_sts, cnt, against, sys_charging,
                     toggle_cnt, sys_sd_eject>>
      /\ toggle_cnt = 0
  BY DEF Blink, inputs, chargerVars, RedByEject, LedTypeOK
<1>6. sys_batt_low' \in BOOLEAN /\ sys_batt_full' \in BOOLEAN
  <2>1. sys_batt_low' = (Mode = "low") /\ sys_batt_full' = (Mode = "full")
    BY DEF Blink, SetBattBits
  <2> QED BY <2>1
<1>7. CountedInRow'
  BY <1>5 DEF CountedInRow
<1>8. counter \in 0..MostCalls /\ led_state \in 0..1 /\ Patience \in 0..MostCalls
  BY PatienceBounded DEF LedTypeOK
<1>9. CASE counter >= Patience
  <2>1. /\ counter' = 0 /\ led_state' = 1 - led_state
        /\ Show(IF led_state = 0 THEN On(Lamp, Colours, ok) ELSE Off(Lamp, ok))
    BY <1>9 DEF Blink
  <2>2. LedTypeOK'
    <3>1. counter' \in 0..MostCalls /\ led_state' \in 0..1
      <4>1. MostCalls \in Nat
        BY LimitsNatural DEF MostCalls, Larger
      <4> QED BY <1>8, <2>1, <4>1
    <3>2. gpb' \subseteq Colour /\ port' \subseteq Colour /\ stray' \in BOOLEAN
      <4>1. CASE led_state = 0
        BY <1>3, <2>1, <4>1, ShowTypes, Zenon
      <4>2. CASE led_state # 0
        BY <1>4, <2>1, <4>2, ShowTypes, Zenon
      <4> QED BY <4>1, <4>2
    <3> QED BY <1>5, <1>6, <3>1, <3>2, Zenon DEF LedTypeOK
  <2>3. RedByEject'
    BY <1>4, <1>5, <1>8, <2>1 DEF RedByEject, Show
  <2> QED BY <1>7, <2>2, <2>3
<1>10. CASE counter < Patience
  <2>1. counter' = counter + 1 /\ led_state' = led_state /\ Show(Lamp)
    BY <1>8, <1>10 DEF Blink
  <2>2. LedTypeOK'
    <3>1. counter' \in 0..MostCalls /\ led_state' \in 0..1
      <4>1. MostCalls \in Nat /\ Patience \in Nat
        BY <1>8, LimitsNatural DEF MostCalls, Larger
      <4> QED BY <1>8, <1>10, <2>1, <4>1
    <3>2. gpb' \subseteq Colour /\ port' \subseteq Colour /\ stray' \in BOOLEAN
      BY <1>1, <2>1, ShowTypes
    <3> QED BY <1>5, <1>6, <3>1, <3>2, Zenon DEF LedTypeOK
  <2>3. RedByEject'
    BY <1>1, <1>5, <2>1 DEF RedByEject, Show
  <2> QED BY <1>7, <2>2, <2>3
<1> QED BY <1>8, <1>9, <1>10

LEMMA Task100msStep ==
  ASSUME LedSafe, NEW pressed \in BOOLEAN, NEW cleared \in BOOLEAN, NEW ok \in BOOLEAN,
         Task100ms(pressed, cleared, ok)
  PROVE  LedSafe'
<1>1. CASE pressed
  <2>1. ShowEject(Cleared(cleared), ok) /\ UNCHANGED <<inputs, chargerVars, sys_charging>>
    BY <1>1 DEF Task100ms
  <2>2. ~ Cleared(cleared).stray =>
          Cleared(cleared).gpb = IF toggle_cnt % 2 = 1 THEN {"RED"} ELSE {}
    BY LampFound
  <2> QED BY <2>1, <2>2, LampFound, ShowEjectStep
<1>2. CASE ~ pressed /\ sys_sd_eject
  <2>1. ShowEject(Lamp, ok) /\ UNCHANGED <<inputs, chargerVars, sys_charging>>
    BY <1>2 DEF Task100ms
  <2>2. led_state = 0 /\ ~ Lamp.stray => Lamp.gpb = IF toggle_cnt % 2 = 1 THEN {"RED"} ELSE {}
    BY LampFound DEF LedSafe, RedByEject
  <2> QED BY <2>1, <2>2, LampFound, ShowEjectStep
<1>3. CASE ~ pressed /\ ~ sys_sd_eject
  BY <1>3, BlinkStep DEF Task100ms
<1> QED BY <1>1, <1>2, <1>3

LEMMA LedStep ==
  ASSUME LedSafe, [LedNext]_ledVars
  PROVE  /\ LedSafe'
         /\ charger_sts' /\ ~ charger_sts => reading' /\ against + 1 = ChargerReads
<1>1. CASE Outside \/ check_system_status
  BY <1>1, OutsideStep, SystemStatusStep DEF Outside, check_system_status, chargerVars
<1>2. ASSUME NEW ok \in BOOLEAN, check_charger_status(ok)
      PROVE  /\ LedSafe'
             /\ charger_sts' /\ ~ charger_sts => reading' /\ against + 1 = ChargerReads
  BY <1>2, ChargerStatusStep
<1>3. ASSUME NEW pressed \in BOOLEAN, NEW cleared \in BOOLEAN, NEW ok \in BOOLEAN,
             Task100ms(pressed, cleared, ok)
      PROVE  LedSafe' /\ UNCHANGED charger_sts
  BY <1>3, Task100msStep DEF Task100ms, chargerVars
<1>4. CASE UNCHANGED ledVars
  BY <1>4 DEF LedSafe, LedTypeOK, RedByEject, CountedInRow,
              ledVars, inputs, chargerVars, battBits, blinkVars, lights
<1> QED BY <1>1, <1>2, <1>3, <1>4 DEF LedNext

LEMMA LedInductive == LedSpec => []LedSafe
<1>1. LedSafe /\ [LedNext]_ledVars => LedSafe'
  BY LedStep
<1> QED BY <1>1, InitLed, PTL DEF LedSpec

-----------------------------------------------------------------------------
\* No counter of control_RGB leaves its range when the mode changes under it, and what an
\* eject has toggled is off again when the LED is, for any limits of which EjectCalls is even.
THEOREM LedIsDarkWhenOff == LedSpec => []LedInv
<1>1. LedSafe => LedInv
  BY DEF LedSafe, RedByEject, LedTypeOK, LedInv, DarkWhenOff
<1> QED BY <1>1, LedInductive, PTL

\* check_charger_status takes a charger to be there only when ChargerReads readings in a row
\* show it, none of them from before the last charger went, for any number of readings and
\* whatever the bus loses or mixes up.
THEOREM ChargersDebounced == LedSpec => NoFalseCharger
<1>1. LedSafe /\ [LedNext]_ledVars =>
      [charger_sts' /\ ~ charger_sts => reading' /\ against + 1 = ChargerReads]_ledVars
  BY LedStep
<1> QED BY <1>1, LedInductive, PTL DEF LedSpec, NoFalseCharger
=============================================================================
