----------------------------- MODULE StatusLed -----------------------------
(***************************************************************************)
(* The charger input, the battery bits and the RGB LED: check_charger_     *)
(* status (10 ms task), the button and control_RGB (100 ms task) and       *)
(* check_system_status (1 s task).  Input and LED hang on a port expander  *)
(* behind an I2C bus whose errors nobody looks at: a failed read leaves    *)
(* the value of the one before or brings the byte of another register, a   *)
(* failed write leaves the port as it was, while MCP23017_REG already says *)
(* otherwise.                                                              *)
(*                                                                         *)
(* The tasks come in any order and number (Superloop: each again and       *)
(* again).                                                                 *)
(***************************************************************************)
EXTENDS Naturals

CONSTANTS
  ChargerReads,    \* readings that make a charger come or go (3)
  EjectCalls,      \* calls of control_RGB that toggle red for an eject (100)
  ChargeCalls, FullCalls, NormalCalls,   \* blink_count (1, 5, 10)
  LowOffCalls, LowOnCalls                \* led_off_time, led_on_time (20, 1)

\* An even number of toggles leaves red as it was.
ASSUME LedAssumption ==
  /\ ChargerReads \in Nat \ {0}
  /\ \E n \in 1..EjectCalls : EjectCalls = 2 * n
  /\ {ChargeCalls, FullCalls, NormalCalls, LowOffCalls, LowOnCalls} \subseteq Nat

VARIABLES
  charger,         \* a charger is plugged in
  reading,         \* MCP_portA_read: the input as it was last read
  charger_sts,     \* CHARGING (and not NOT_CHARGING)
  cnt,             \* check_charger_status: readings against charger_sts
  v_batt,          \* ram_data.v_batt: above, between or below the thresholds
  trouble,         \* one of SYS_SD_CARD, SYS_SD_CARD_INIT, SYS_GSM_SIM is HIGH
  sys_charging, sys_batt_low, sys_batt_full, sys_sd_eject,   \* bits of the status word
  counter, led_state, toggle_cnt,   \* static variables of control_RGB
  gpb,             \* MCP23017_REG.GPB_PORT: the colours it says are lit
  port,            \* the colours that are lit
  against,         \* readings in a row that contradict charger_sts, since it last changed
  stray            \* colours may be lit that the last turn-off knows nothing of

inputs == <<charger, v_batt, trouble>>
chargerVars == <<reading, charger_sts, cnt, against>>
battBits == <<sys_batt_low, sys_batt_full>>
blinkVars == <<counter, led_state, toggle_cnt, sys_sd_eject>>
lights == <<gpb, port, stray>>
ledVars == <<inputs, chargerVars, sys_charging, battBits, blinkVars, lights>>

Colour == {"RED", "GREEN", "BLUE"}
Voltage == {"full", "normal", "low"}
Larger(a, b) == IF a > b THEN a ELSE b
MostCalls == Larger(Larger(ChargeCalls, FullCalls),
                    Larger(NormalCalls, Larger(LowOffCalls, LowOnCalls) + 1))

LedTypeOK ==
  /\ charger \in BOOLEAN /\ reading \in BOOLEAN /\ charger_sts \in BOOLEAN
  /\ cnt \in 0..(ChargerReads - 1) /\ against \in 0..(ChargerReads - 1)
  /\ v_batt \in Voltage /\ trouble \in BOOLEAN
  /\ sys_charging \in BOOLEAN /\ sys_batt_low \in BOOLEAN /\ sys_batt_full \in BOOLEAN
  /\ sys_sd_eject \in BOOLEAN /\ led_state \in 0..1
  /\ counter \in 0..MostCalls /\ toggle_cnt \in 0..EjectCalls
  /\ gpb \subseteq Colour /\ port \subseteq Colour /\ stray \in BOOLEAN

\* init_gpio lights all colours, update_startup_statuses may leave some of them; the
\* static copy of the input reads low, which is what a charger makes it.
LedInit ==
  /\ charger \in BOOLEAN /\ v_batt = "low" /\ trouble \in BOOLEAN
  /\ reading = TRUE /\ charger_sts = FALSE /\ cnt = 0 /\ against = 0
  /\ sys_charging = FALSE /\ sys_batt_low = FALSE /\ sys_batt_full = FALSE
  /\ sys_sd_eject = FALSE
  /\ counter = 0 /\ led_state = 0 /\ toggle_cnt = 0
  /\ gpb \in {Colour, {"BLUE", "GREEN"}, {"RED"}} /\ port = gpb /\ stray = TRUE

-----------------------------------------------------------------------------
\* The charger comes or goes, CBC reports a voltage, a card or a SIM fails or is found.
Outside ==
  /\ charger' \in BOOLEAN /\ v_batt' \in Voltage /\ trouble' \in BOOLEAN
  /\ \/ charger' # charger /\ UNCHANGED <<v_batt, trouble>>
     \/ v_batt' # v_batt /\ UNCHANGED <<charger, trouble>>
     \/ trouble' # trouble /\ UNCHANGED <<charger, v_batt>>
  /\ UNCHANGED <<chargerVars, sys_charging, battBits, blinkVars, lights>>

\* MUTANT: the count is not reset when a charger has gone.
CountReadingsKept ==
  IF reading' = charger_sts
  THEN cnt' = (IF charger_sts THEN cnt ELSE 0) /\ UNCHANGED charger_sts
  ELSE IF cnt + 1 >= ChargerReads
       THEN cnt' = (IF charger_sts THEN cnt + 1 ELSE 0) /\ charger_sts' = ~ charger_sts
       ELSE cnt' = cnt + 1 /\ UNCHANGED charger_sts

\* Enough readings against charger_sts turn it.  A reading in between starts the count
\* anew before a charger has come, but not before it has gone.
CountReadings ==
  IF reading' = charger_sts
  THEN cnt' = (IF charger_sts THEN cnt ELSE 0) /\ UNCHANGED charger_sts
  ELSE IF cnt + 1 >= ChargerReads
       THEN cnt' = 0 /\ charger_sts' = ~ charger_sts
       ELSE cnt' = cnt + 1 /\ UNCHANGED charger_sts

\* i2c_read_byte names the register in one transfer and reads it in another, and either can
\* fail: then the byte is the one that was read before, or that of another register.
i2c_read_byte(ok) == reading' \in IF ok THEN {charger} ELSE BOOLEAN

\* check_charger_status, in the 10 ms task.
check_charger_status(ok) ==
  /\ i2c_read_byte(ok)
  /\ CountReadings
  /\ against' = IF reading' = charger_sts \/ charger_sts' # charger_sts THEN 0 ELSE against + 1
  /\ UNCHANGED <<inputs, sys_charging, battBits, blinkVars, lights>>

-----------------------------------------------------------------------------
\* What a call has done to the LED so far: gpb, port and stray.  A write to the bus
\* sends the whole port.
Lamp == [gpb |-> gpb, port |-> port, stray |-> stray]
Write(lamp, colours, ok) ==
  [lamp EXCEPT !.gpb = colours, !.port = IF ok THEN colours ELSE lamp.port]

\* MCP23017_pin_write of some colours and of none, and MCP23017_pin_toggle.
On(lamp, colours, ok) == Write(lamp, lamp.gpb \cup colours, ok)
Off(lamp, ok) == [Write(lamp, {}, ok) EXCEPT !.stray = FALSE]
ToggleRed(lamp, ok) ==
  Write(lamp, IF "RED" \in lamp.gpb THEN lamp.gpb \ {"RED"} ELSE lamp.gpb \cup {"RED"}, ok)

Show(lamp) == gpb' = lamp.gpb /\ port' = lamp.port /\ stray' = lamp.stray

Mode == IF charger_sts THEN "charging" ELSE v_batt
ColoursOf ==
  [charging |-> {"BLUE"}, full |-> {"GREEN"}, normal |-> Colour, low |-> {"RED"}]

\* Green and red mean trouble in every mode.
Colours == IF trouble THEN {"GREEN", "RED"} ELSE ColoursOf[Mode]

\* How far counter goes before the LED changes.
Patience ==
  CASE Mode = "charging" -> ChargeCalls
    [] Mode = "full" -> FullCalls
    [] Mode = "normal" -> NormalCalls
    [] Mode = "low" -> (IF led_state = 0 THEN LowOffCalls ELSE LowOnCalls) + 1

SetBattBits ==
  /\ sys_batt_low' = (Mode = "low")
  /\ sys_batt_full' = (Mode = "full")

\* MUTANT: only the colours of the mode are turned off.
BlinkOwn(lamp, ok) ==
  /\ SetBattBits
  /\ IF counter >= Patience
     THEN /\ counter' = 0
          /\ led_state' = 1 - led_state
          /\ Show(IF led_state = 0 THEN On(lamp, Colours, ok)
                  ELSE Write(lamp, lamp.gpb \ Colours, ok))
     ELSE counter' = counter + 1 /\ Show(lamp) /\ UNCHANGED led_state
  /\ UNCHANGED <<toggle_cnt, sys_sd_eject>>

\* The LED changes when counter has reached the limit of the mode; it may have been
\* counting in another.
Blink(lamp, ok) ==
  /\ SetBattBits
  /\ IF counter >= Patience
     THEN /\ counter' = 0
          /\ led_state' = 1 - led_state
          /\ Show(IF led_state = 0 THEN On(lamp, Colours, ok) ELSE Off(lamp, ok))
     ELSE counter' = counter + 1 /\ Show(lamp) /\ UNCHANGED led_state
  /\ UNCHANGED <<toggle_cnt, sys_sd_eject>>

\* MUTANT: red is toggled in the last call, too.
ShowEjectToggling(lamp, ok) ==
  /\ Show(ToggleRed(lamp, ok))
  /\ IF toggle_cnt >= EjectCalls
     THEN toggle_cnt' = 0 /\ sys_sd_eject' = FALSE
     ELSE toggle_cnt' = toggle_cnt + 1 /\ sys_sd_eject' = TRUE
  /\ UNCHANGED <<counter, led_state, battBits>>

\* The eject of a card is shown by red alone; the last call ends it and toggles nothing.
ShowEject(lamp, ok) ==
  /\ IF toggle_cnt >= EjectCalls
     THEN toggle_cnt' = 0 /\ sys_sd_eject' = FALSE /\ Show(lamp)
     ELSE toggle_cnt' = toggle_cnt + 1 /\ sys_sd_eject' = TRUE /\ Show(ToggleRed(lamp, ok))
  /\ UNCHANGED <<counter, led_state, battBits>>

\* check_switch_pressed: a press turns the LED off, in the middle of the blinking for an
\* earlier press, too: then red may stay behind.
Cleared(ok) == [Write(Lamp, {}, ok) EXCEPT !.stray = (toggle_cnt % 2 = 1)]

\* The 100 ms task, in which the button may have been pressed long enough: check_switch_
\* pressed and control_RGB.
Task100ms(pressed, cleared, ok) ==
  LET lamp == IF pressed THEN Cleared(cleared) ELSE Lamp
  IN /\ IF sys_sd_eject \/ pressed THEN ShowEject(lamp, ok) ELSE Blink(lamp, ok)
     /\ UNCHANGED <<inputs, chargerVars, sys_charging>>

\* MUTANT: the bit is raised, and never lowered.
check_system_status_sticky ==
  /\ sys_charging' = (sys_charging \/ charger_sts)
  /\ UNCHANGED <<inputs, chargerVars, battBits, blinkVars, lights>>

\* check_system_status, in the 1 s task.
check_system_status ==
  /\ sys_charging' = charger_sts
  /\ UNCHANGED <<inputs, chargerVars, battBits, blinkVars, lights>>

LedNext ==
  \/ Outside
  \/ check_system_status
  \/ \E ok \in BOOLEAN : check_charger_status(ok)
  \/ \E pressed, cleared, ok \in BOOLEAN : Task100ms(pressed, cleared, ok)

\* The tasks are called again and again, and the bus does not fail for ever: not in every
\* reading, nor in every change of the LED.
ChangesLed == Task100ms(FALSE, FALSE, TRUE) /\ gpb' # gpb
LedSpec ==
  /\ LedInit /\ [][LedNext]_ledVars
  /\ WF_ledVars(\E pressed, cleared, ok \in BOOLEAN : Task100ms(pressed, cleared, ok))
  /\ WF_ledVars(check_system_status)
  /\ WF_ledVars(check_charger_status(TRUE))
  /\ SF_ledVars(ChangesLed)

-----------------------------------------------------------------------------
(***************************************************************************)
(* Properties.                                                             *)
(***************************************************************************)
\* A charger counts as there only when this reading and enough right before it have shown
\* it, all of them made since the last charger was found to have gone.
NoFalseCharger ==
  [][charger_sts' /\ ~ charger_sts => reading' /\ against + 1 = ChargerReads]_ledVars

\* A blinking for an eject leaves the LED as it has found it: while the LED is off, no
\* colour stays lit, unless it was lit at start-up or the button was pressed again during
\* the blinking.
DarkWhenOff == led_state = 0 /\ ~ sys_sd_eject /\ ~ stray => gpb = {}

\* No counter of control_RGB runs away when the mode changes under it, and no colour
\* stays behind.
LedInv == LedTypeOK /\ DarkWhenOff

\* A charger that the readings go on showing is in the status word in the end, and so is its
\* absence.  (Readings that fail can count against a charger that stays.)
ChargerShown ==
  /\ <>[]reading => <>[]sys_charging
  /\ <>[](~ reading) => <>[](~ sys_charging)

\* Whatever changes, and whatever the bus loses: the LED is not stuck, and the port is
\* what the program takes it for, again and again, if the button is left alone.
LedBlinks ==
  <>[](~ sys_sd_eject) => []<>(gpb = {}) /\ []<>(gpb # {}) /\ []<>(port = gpb)
=============================================================================
