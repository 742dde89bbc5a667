# Verification of the ESP32 data logger

The program logs position, battery voltage, signal strength and acceleration to an
SD card. It runs on an ESP32 without tasks of its own: one superloop
(`src/main/DL_cpp_test.cpp`), a 10 ms timer interrupt and two UART interrupts. A SIM868
modem on UART1 serves two users at once, the GPS side and the GPRS side, over one
AT command line. This directory models the program from the interrupts up to the log on the
card, checks the models with TLC and proves with TLAPS every safety property that the runs check;
liveness stays with TLC.

## 1. Inventory

Sources are under `src/components/` unless said otherwise.

| Component | State it keeps | Operations | Module |
|---|---|---|---|
| main `DL_cpp_test.cpp` | none but the flags | `app_main` | `Superloop` |
| timer `timer.cpp` | tick counters, `schedular_flg`, `elapsed` | `timer_group0_isr` | `Superloop`, `UartRx` |
| UART `UART.cpp` | FIFO, receive and transmit buffers | `uart1_rx_intr`, `uart1_tx_intr` | `UartRx`, `UartTx` |
| app_comm `app_comm.cpp` | the ISR handler records | `checkforUARTFrameTimeout`, `flushRxBuffer`, `UWriteString`, `flushTxBuffer` | `UartRx`, `UartTx` |
| WEB_COMM `web_comm.cpp` | `conn_state`, slice clocks, read timeouts; the static counters of `modem_initAT` | `manage_gps_gprs`, `modem_initAT` | `WebComm`, `ModemInit` |
| GPRS `gprs.cpp` | `gprs.state`, static place/attempts/empty polls of `gprs_connect` and of `gprs_connect_status`, date on offer, receive buffer | `http_handler`, `gprs_connect`, `gprs_connect_status`, `get_rx_data`, `check_string` | `Gprs`, `UartRx` |
| GPS `gps.cpp` | `gps_statuses`, attempts, empty polls, date on offer, `gps_info` | `gps_handler`, `gnss_pkt_parsing`, `gga_pkt_parsing`, `get_location`, `utcTOlocal` | `Gps`, `Position`, `Calendar` |
| Clock `clock.cpp` | `time_stamp`, dates on offer (shared with GPS, GPRS) | `check_date_time`, `sync_time_modem`, `check_RTC_time`, `calcTimeDiff` | `WebComm`, `Eeprom`, `Calendar`, `UartRx` |
| EEPROM `EEPROM.cpp` | date in NVS, `e2p_date`, `e2p_read_date`; the rates | read, write, `date_change_e2p` | `Eeprom` (not the rates) |
| SD_CARD `Handle_sdcard.cpp` | the file system, counters of pin, button and hold, `Fpath`, `log_num`, the row being read back | `init_sdcard`, `reinitialize_sdcard`, `SD_file_Save`, `update_ram_data`, `Get_Curr_sdData`, `check_card_detect`, `check_switch_pressed` | `SdCard`, `LogFile` |
| ERROR `error.cpp` | the status word | `set_system_state`, `check_system_status` | its bits are variables of the modules whose code writes them |
| GPIO `GPIO.cpp` | charger debouncing, LED blink counters | `check_charger_status`, `control_RGB` | `StatusLed` |
| MCP23017, I2C | `MCP23017_REG`, the last byte read | `MCP23017_pin_write`, `MCP23017_pin_toggle`, `i2c_send_byte`, `i2c_read_byte` | `StatusLed`, as what they leave behind |
| Common `Common.cpp` | none | `getChecksum`, `my_ltoa`, `count_comma` | `Eeprom` (the checksum) |
| RTC `my_rtc.cpp` | the C library's clock | set, get | a variable of `Eeprom` and `MCCalendar` |
| ADC `adc.cpp` | none (the last average) | `getADC_avg` | not modelled |
| LIS3DH | register images | driver calls | not modelled: device I/O |
| Accelerometer, Shubham, Debug, PINS, config, build | none | unused duplicate, stub, macros, generated | not modelled |

**How they interact.** The timer interrupt raises flags, the superloop tests and clears
them and calls the tasks to the end, one after the other. Every 50 ms `manage_gps_gprs`
gives one call to whichever side has the link: `gps_handler` or `http_handler`. A handler
either sends a command (after `flushRxBuffer`) or polls once for its answer
(`check_string`, which looks at the frame that `checkforUARTFrameTimeout` has declared
complete). Both handlers and the start-up step through the same `modem_initAT`, which keeps
its place in static variables. A date that either side reads is put on offer
(`update_time_aval`); the one-second task takes it (`sync_time_modem`), which also moves the
date of the log; then it copies the position and saves a record, unless the detect pin or the
eject button has put a hold on saving. The 100 ms task looks at pin, button and LED; the 10 ms
task at the charger, the frame timeout and the rows to read back.

**What is hard.**
* *Shared link.* The slices of two sides alternate in the middle of conversations. Every
  side remembers its conversation in static variables, an answer carries no address, and
  in the GPGGA_START..GPGGA_STOP window the modem sends records nobody asked for.
* *Belief and fact.* `NMEA_enabled` is what the handler thinks of the modem.
* *Retries.* Eight places count attempts and empty polls, each in its own way (some
  increment before the test, some after, some keep a counter on one exit and clear it on
  another).
* *Interrupts.* The receive interrupt shares `gprs_rx_buff` with the superloop, and nothing
  the superloop does with it is in a critical section. (`isr_mutex_global` is `static` in
  `Common.h:24`, hence one lock for each translation unit, which would not exclude
  anything across files.)
* *Late calls.* A task that takes long makes ticks coalesce; handlers that count calls then
  count fewer periods than have passed, those that read the clock do not.
* *What comes and goes.* Card, charger, power and the I2C bus fail between any two steps; five
  status bits about the card are written in three tasks, and the date of the log lives in RAM,
  in flash and as the name of a file.
* *Half-done work.* A record that breaks off leaves a torn position; a save that fails creates a
  file anew and restarts the numbers while rows of the old one are being read back; a row that is not
  written is numbered all the same.
* *By hand.* Calendar arithmetic, debouncing, a shared blink counter.

`PROJECT.json` lists each hazard at its line.

**What makes the components correct.** The link has one user at a time and an answer goes to
who asked; no side keeps it for ever; each conversation starts from its beginning; dates on
offer are fresh and good; received bytes are handed over once, in order, and whole when the line
is quiet; a command goes out whole; no period is forgotten; the status bits say when no card is
mounted, and one that comes back is mounted; the date of the log survives a restart and is the
date of its records; a position that counts as good is of one record; the charger is debounced;
the LED is not stuck; the calendar carries rightly.

## 2. Modules

```
ModemLink            replies, phases, attempts: vocabulary of the AT link
   ModemInit         modem_initAT
      Gprs           http_handler, gprs_connect, gprs_connect_status
      Gps            gps_handler
         WebComm     manage_gps_gprs, with Gprs, Gps and the modem  ──implements──> ModemArbiter
         Position    the parsers, gps_info, get_location; with Gps alone
UartRx               receive interrupt, frame timeout, check_string, flush ──implements──> FrameMailbox
UartTx               transmit interrupt, flushTxBuffer, UWriteString
Superloop            timer_group0_isr, app_main
SdCard               mounting, detect pin, eject button, the hold on saving
Eeprom               the date of the log, the clock, the flash
   LogFile           files, header, numbers, read-back, restarts ──implements──> LogBook
StatusLed            charger, battery bits, LED, port expander
Calendar             utcTOlocal, timestampToMinutes, calcTimeDiff
MCWebComm, MCModemInit, MCUartTx, MCSuperloop, MCCalendar    instances for TLC
MCComments           a witness of what comments say and the system does not do
WebComm_proofs       theorems of WebComm, ModemInit and the refinement of ModemArbiter
ModemData_proofs     theorems of what the modem brings: dates (WebComm), Position, Calendar
UartRx_proofs, UartTx_proofs, Superloop_proofs, SdCard_proofs, LogFile_proofs, StatusLed_proofs
                     theorems of the module they are named after
```

### The link: ModemLink, ModemInit, Gprs, Gps, WebComm

One step is one call of `manage_gps_gprs` (the whole call, down to `check_string`), or
`sync_time_modem` taking a date. A call is given a *reply* (`NO_NEW_MSG`, `MATCH_FAIL`,
`MATCH_OK`: what `check_string` says), whether a record *parsed*, what a *date* is worth and
how many periods *dt* have passed since the last call. All are arbitrary: the modem may say
anything at any time. What the modem is, is two external variables: `nmea` (it really
streams) and `wire` (the last command sent to it). A command that starts or stops the stream
may be lost. An acknowledged `GPGGA_STOP` is taken to be a real acknowledgement.

| Variable | Code |
|---|---|
| `at_*` | statics of `modem_initAT`; `at_cmd`/`at_phase` split `gprs_connct_state` into command and CMD/RSP |
| `gprs_state`, `gc_*`, `gs_*` | `gprs.state`, statics of `gprs_connect` and `gprs_connect_status` |
| `sess_age` | now − `sess_idle_strt`, stopped at `SessIdle` |
| `gps_cmd`, `gps_phase`, `gps_retry`, `gps_timeout`, `NMEA_enabled`, `gga_sts`, `gnss_sts` | `gps_statuses` and the statics of `gps_handler` |
| `sys_*`, `*_date_avail` | bits of `ram_data.Status`; `update_time_aval` of the two dates |
| `conn_state`, `slice_age` | `conn_state`; now − `gps_strt` or − `gprs_strt` |
| `other_diff`, `read_timeout` | the pair `gps_diff`/`gprs_diff` and the pair `gps_read_timeout`/`gprs_read_timeout` |

Two pairs of statics are merged because one of each is dead at any time: in LOCATION only
`gprs_diff` is compared and `gps_diff` is overwritten before it is read, and the other way
round in UPLOAD; the read timeout of the side that does not have the link is 0. Clocks stop
at the value they are compared with. Left out because nothing reads them back: IMEI, signal
strength, `gps_ready`, `got_VBATT`, the connection status of `setGPRSConnSts`. The sentence
"SIM not inserted", which `checkforUARTFrameTimeout` looks for in every frame, is modelled
for wrong answers to CPIN. The modelled build is that of the repository: `SETUPB_testing`
on, `COMBINE_GGA_GNSS_CMD` off; code under `#if 0` is left out.

`ModemArbiter` is what the time sharing promises: three users (`init`, `gps`, `gprs`) ask
questions over one line for an owner; GPRS gives the line back with its question closed; GPS
may leave one open but only while it believes that the modem is silent; the link goes to
GPRS only then. Its `owner`, `open`, `line` and `streaming` are `OwnerOf(conn_state)`,
`OpenQuestions`, `SideOf(wire)` and `NMEA_enabled`.

### Receiving: UartRx

The superloop is cut wherever an interrupt can make a difference: the test of `elapsed`, its
reset, the lock, the three separate reads of `index` in `get_rx_data` (length of the copy,
terminating NUL, value returned), its reset, and the memsets of `flushRxBuffer`. Bytes are
numbered in the order they arrive, so that a property can tell a lost, repeated or
misplaced one. The receive interrupt reads one byte and then resets the FIFO, so the bytes
that came right behind it are lost: its step lets any number of bytes arrive and stores the
first. `check_date_time` reads the buffer a second time without looking at the
lock: step `reread`. `rx` is the buffer up to `index`; what lies behind it is never read.
`disturbed` observes the line and influences nothing. `elapsed` stops at
`FrameTimeout` (0xFF in the code): it is only compared with that.

`FrameMailbox` is what readers are promised: bytes are gathered in order up to a capacity
and handed over once, from the first. Bytes right behind one that is gathered may be lost,
and a byte that arrives during the hand-over may be
dropped, or counted and not copied (`Junk`). That is what the code does, and the abstract
specification says so rather than promise more.

### Sending: UartTx

`flushTxBuffer` and `UWriteString` are cut at every statement that the transmit interrupt can
see, the `strcpy` at every byte; the interrupt itself is one step, since nothing interrupts it.
The caller chooses any string, the empty one and one too long included (the latter sends
`BUFFER SIZE ERROR`). The UART is external: a FIFO, a shift register and TX_DONE, which is
modelled as a level, up while both are empty. `index` may reach `TxMax` and not beyond.
A command that cuts off another one (`clean` is false) may go out mixed with it: nothing in the
code promises otherwise, the GPS slice may end right after a send. What holds even then is that the
transmission ends (`TransmissionEnds`).

### The scheduler: Superloop

Interrupt and superloop at the grain of test, clear and run. The periods are numbered 1 to 4;
`cnt` are the counters of `timer_group0_isr`. Tasks take any number of ticks. `owed` and
`ahead` are history: a period that has passed since its task began, and how often a task
of a longer period has begun since one of a shorter one did. `NeverThrice` is what the other
modules use when they let the 1 s task come twice before the 100 ms task.

### The card: SdCard and LogFile

`SdCard` is the life of the card: the pin with its debouncing, the button with its count that a
release does not reset, the five status bits, the hold (`SYS_SD_TIMEOUT`) that only refused saves
end, mounting with either failure, and what happens to the card during the second that
`reinitialize_sdcard` waits. A file system whose card has gone stays mounted (`gone`) and
opens nothing; the driver does not notice. A mount can fail in the two ways the code tells apart,
and a bus that cannot be initialised counts as the second.

`LogBook` is what the log promises: a page for each quarter, begun once, headed once and then only
added to. A refused record or a restart sets the number back and touches no page. Until the flash has failed to keep the
date, a page that is behind another is not written again. Only on a card that is not `sound` may a page be begun a second time,
which empties it, or a record be counted whose row is missing. `LogFile` is what is written: the file of the date, a new
file with its header (which reaches the card when it is closed), the number of the record, and the read-back of a block,
row by row. Its `card` stands for the card and for `SdCard`: on a `bad` one each opening, reading and writing may fail
or not, also within one call, and the two bits that stop a save may be set or not. So a file that is there
but cannot be opened for a moment is created anew, as `SD_file_Save` does (`SaveFails`), and a row whose `fopen`, `fprintf`
or `fclose` fails is lost while its number stays (`SaveLosesRow`). A row that is cut short counts as lost, and a card that
comes back is the one that went. Power may fail between any two steps of `LogFile`, any number of times: memory and clock are lost,
the flash and the card stay. `unwritten` and `moved` are history: the rows lost since numbering began, and whether the rows that
are being read back may have gone.

`Eeprom` is the date: a date is a quarter of a day, counted from 0, and `SameDate` compares day,
month and quarter, never the year (the branch for the year in `date_change_e2p` cannot be reached,
because the comparison before it is true whenever it would be). The flash holds a record that
was never written (`Zero`, which sums up to its checksum of 0), one that something else wrote
(`Spoilt`), or a date; only a spoilt one clears `e2p_read_date`. Writing it may fail, and nobody
learns of it. The program runs every second, hence sees every quarter while the clock is set.

### Position

`Position` composes the real `gps_handler` (`Gps`) with its parsers and with `get_location`. A field
holds the number of the record it was taken from, so that a property can tell a torn position. Where a
record breaks off is chosen freely (`good` fields), which stands for every field check of the
parsers. The tests of `get_location` are on texts being present or beginning with a digit, and on numbers not being zero:
`NoSpeedRecords` and `NoPdopRecords` are records whose speed or PDOP does not begin with a digit, although the parser takes
it, and `ZeroRecords` those whose heights and satellites read zero.

### Charger and LED: StatusLed

`check_charger_status`, `check_system_status` (its charging bit), `check_switch_pressed`
(where it turns the LED off) and `control_RGB`, over a bus of which each transfer may fail: a
failed read leaves the byte of the one before or, when only the transfer that names the register has failed, brings the
byte of another register; a failed write leaves the port as it was while
`MCP23017_REG` (`gpb`) says otherwise. The calls come in any order and number. `against` and `stray` are history: the
readings in a row that contradict `charger_sts` since it last changed, and colours that no turn-off knows of.

### What comments say: MCComments

A module for one counterexample. While modelling, six comments turned out not to describe the code.
Each is a predicate; the witness goes through them in order, each refuted in its own place of one
behaviour of `WebComm`. `CommentsHold` says that they are not all refuted; TLC finds that they are.

### Dates: Calendar

The arithmetic on dates as operators: the shift to local time that `updateGpsDateTimeToBuff`
applies between its two range checks, and the difference in minutes by which
`sync_time_modem` decides whether an offer is already the time. `MCCalendar` walks a
receiver's date and the clock of a logger that started at 2000-01-01 through the years
and compares with a calendar written as a table. The carry of `utcTOlocal` has no seconds and
its own copy of the table of month lengths, which is that of `getDaysOfMonth`. The default
year 0 of `timestampToMinutes` is no leap year and weighs nothing (its loop starts at 1), so
2000 and 2001 count alike; no date of 2023 or later is affected.

## 3. Runs

| Run | Question | Constants | Result |
|---|---|---|---|
| `WebComm` | type, `UploadNotStreaming`, `AnswerBelongs`, `RestartFromScratch`, `AtOwned`, `DateNotStale`, `GpsDateAgrees`, `BeliefDropped`, implements `ModemArbiter` | RetryCnt 1, AtTimeout 1, the other timeouts 0, SessIdle 2, Slice 2, dt 1 or 2, dates of every worth | holds, 161 897 states |
| `LinkAlternates` | `UploadEnds`: GPRS gives the link back, whatever the modem does; `LocationEnds`: so does GPS, if it is answered now and then | RetryCnt 1, timeouts 0, SessIdle 1, Slice 1, dt 1, good dates | holds, 62 296 states |
| `ModemInit` | `AttemptEnds`: how long an attempt takes; `Concludes`: a verdict comes | the code's values: 3 retries, 4 and 600 empty polls | holds, 1 447 276 states |
| `UartRx` | `BufferSound`, `NeverTwice`, `WholeFrame`, `FrameLeaves`, implements `FrameMailbox` | buffer 3, 5 bytes, 3 ticks of silence, task every 5 ticks | holds, 159 123 states |
| `UartTx` | `TxInv`, `TransmissionEnds` | buffer 4; strings that are empty, shorter, filling and too long | holds, 14 304 states |
| `Superloop` | `RaiseKept`, `NeverThrice`, `EveryTaskRuns` | the code's 1, 5, 10 and 100 ticks | holds, 79 375 states |
| `SdCard` | `SdInv`, `FewLostSaves`, `Remounted` | the code's 3 samples, 6 samples, 31 calls; 4 blink calls for 101 | holds, 119 516 states |
| `LogFile` | `LogInv`, `FileOfTheRecord`, `NumberInFile`, `LeakHasCause`, `SavesGoOn`, implements `LogBook` | 3 quarters, a year of 2, blocks of 2, row number of 3 values, one file, 2 rows, one lost row | holds, 1 835 186 states |
| `Position` | `PosInv`, `PassedRowWhole` | RetryCnt 1, timeouts 0, 3 records, the second reads zero and has no PDOP, the third no speed | holds, 209 909 states |
| `StatusLed` | `LedInv`, `NoFalseCharger`, `ChargerShown`, `LedBlinks` | 2 readings, limits 1, 1, 2, 2, 0, eject of 2 calls | holds, 130 404 states |
| `Calendar` | `RightDateTaken`, `MinutesCount` | a date every 119 minutes from 2023 to 2033, powered up 0 or 325 minutes before | holds, 97 244 states |
| `Comments` | `CommentsHold` | RetryCnt 1, AtTimeout 1 | violated after 305 500 states |

Some of these are conjunctions of named parts: `BufferSound` is the type invariant and `LockedHasBytes`; `TxInv` the
type invariant and `SentWhole`;
`SdInv` the type invariant, `BitsTellMount` and `LostSinceSample`; `LogInv` the type invariant, `DateSurvives`,
`DateKnown`, `FilesPast` and `NumberingStarts`; `PosInv` the type invariant, `TornInOrder` and `GoodIsWhole`;
`LedInv` the type invariant and `DarkWhenOff`; `RightDateTaken` is `LocalAhead`, `Offers` and
`OfferSetsClock`. `SdInv` and `LogInv` are the inductive invariants of the proofs below.

The findings in `PROJECT.json` quote the six comments that the last run refutes.

**Bounds.** RetryCnt 1 with an AtTimeout of 1 still has each of the cases the code tells apart: an empty
poll that waits (in the initialisation; with a timeout of 0 it ends the attempt at once), one that ends an attempt
that is repeated, one that ends the last attempt,
a wrong answer in each of these, and counters left behind by an exit that does not reset
them. All the timeouts at 1 hold as well (649 718 states with SessIdle 1, Slice 1 and dt 1). Larger values add longer paths of the same steps; `ModemInit` is small enough to run
with the code's values, and the safety properties of `WebComm` are proved for all. `LinkAlternates` has
timeouts of 0 to keep the check of liveness small: an empty poll ends an attempt at once, the attempts still run
out one after the other. Dates that are not good, which it leaves out, are in `WebComm`. Slice 2
with dt 1 or 2 (in `WebComm`) lets a slice be over by calls or by one late call.

`UartRx` needs a buffer of
3 for frames that fill up, 2 more bytes to overflow and to arrive during the hand-over, and
FrameTimeout and TaskTicks are the code's. `MaxBytes` bounds the run: bytes stop, the
superloop and the timer do not. `UartTx` needs no bound on calls: a flush starts the history anew. Its buffer
of 4 holds a string of three bytes and its NUL, so strings of every length that the code tells apart occur, and each can
cut off each other at any byte.

In `SdCard` only the blinking is shortened; 4 calls are enough for the eject to begin, to go on and to end during a hold.
In `LogFile` a year of 2 quarters makes a date come back after two changes, which is the case that
`SameDate` gets wrong; with one file to leak, the card is used up after one. `MaxRows` stops the counting of rows and of
the number at the first full block: a header and a record, or the two records of the block. `NumberInFile` thus compares
them below the bound. Two things take more rows than the run has: the second block of a file, and a row number that wraps.
With 2 quarters and without `SavesGoOn` the run also holds with 4 rows, where both happen (1 748 628 states), and the theorems of
section 4 are about any `MaxRows` and any `RowWidth`. `MaxUnwritten` bounds the rows that are lost before numbering starts
anew: one is enough for numbers and rows to part, and the theorems are about any number.
`Position` has three records so that one may be good, one torn and one zero, and each other one may pass over a speed or a PDOP. `StatusLed` has limits that
differ, so that the counter can be beyond the limit of a new mode, and two readings, so that one
in between matters.

119 has no factor in common with the 1440 minutes of a day, so
`Calendar` meets every minute of the day, and two or three dates in the five and a half hours
in which it is already the next day, month or year. The walk ends where the receiver's last
year does; it is the one run with `CHECK_DEADLOCK FALSE`. A start 325 minutes before the first
date makes the clock's time of day almost right, the case in which only the days tell.

**Fairness.** What the code's scheduling gives: the superloop never ends, and the timer keeps
raising flags. `EveryTaskRuns` derives from these two (`SchedFairness`), and from tasks that end, that each task is
called again and again; the other modules start from there with weak fairness of their tasks.

`FairSpec` asks nothing of the modem; that is why
`UploadEnds` rests on attempts running out. `AnsweringSpec` adds strong fairness for the
right answer to each GPS command that is polled again and again. `UploadEnds` does not rest on
that: in an execution that stays in UPLOAD no GPS command is polled, so it is fair for
`AnsweringSpec` as soon as it is for `FairSpec`. The code does not make the
modem answer, and without it GPS may keep the link for ever: a slice does not end while
`NMEA_enabled` is set, and only an acknowledged stop or a failed initialisation clears it. This is an
assumption about the environment. `RxFairness` asks that the superloop and the timer go on,
not that bytes arrive; `TxFairness` that the UART sends and serves its interrupt and that a call is
carried through, not that anybody calls. `MCSpec` of `MCModemInit` asks that its caller goes on calling.

Three more assumptions are about the environment and are needed because the code retries without end:
a card that stays in can be mounted now and then (strong fairness of `Mounts`); the
I2C bus does not fail in every reading (`check_charger_status(TRUE)`) nor in every change of the LED (`ChangesLed`,
strong, because writes that fail come in between). `SavesGoOn` needs only that `update_ram_data` is
called; that the card is good is its hypothesis, and its exceptions are power that fails again and again, and all files having
been left open, of which `LeakHasCause` tells the causes. `ChargerShown` is about what the readings show: with readings that
fail, a charger that stays can be counted out, because one that is there is counted against without a row.

## 4. Proofs

For every value of the constants that satisfies the assumptions named in the modules: at least
one retry, AT and CBC wait at least as long as the others, positive slice and periods, `Dates` a
subset of the three kinds; for `UartRx` positive buffer, timeout and task period; for `UartTx` a buffer with room for its error
text and a NUL that is in no string; for `Superloop` four periods
of which each divides the longer ones; for `SdCard` positive limits; for `LogFile` positive block, row width,
files and rows, and a year of more than one quarter; for `StatusLed` an even number of calls that signal an eject
and at least one reading for a charger; for `Calendar` a real first date of 2023 or later, a last year up to 2098, dates less than a day apart
and a start-up less than a day before the first:

| Theorem | Says |
|---|---|
| `WebComm_proofs!TypeCorrect` | `Spec => []TypeOK`: no counter runs away |
| `UploadNeverStreams`, `AnswersBelong`, `SequencesRestart`, `InitialisationOwned` | the four safety invariants of run `WebComm` |
| `BeliefDroppedRightly` | the action property `BeliefDropped` |
| `LinkIsShared` | `Spec => SharesTheLink`: refinement of `ModemArbiter` |
| `AttemptsEnd` | how many calls an attempt of `modem_initAT` takes at most |
| `ModemData_proofs!DatesFresh`, `GpsDatesGood` | the dates on offer are fresh, a GPS date has a good status bit |
| `TornOnlyInOrder`, `PassedRowsWhole` | a position tears only in the order of its parsers and is whole while it counts as good; a row logged while there is a position is of one record of each kind, but for a speed or PDOP that cannot be read |
| `RightDatesTaken`, `MinutesCounted` | a right date becomes local time, is offered and sets the clock; the count of minutes goes as the time goes |
| `UartRx_proofs!BufferIsSound` | the buffer never overflows; a lock at a poll has bytes |
| `NeverHandedTwice`, `FramesWhole` | the action properties `NeverTwice` and `WholeFrame` |
| `RxIsMailbox` | `RxSpec => IsMailbox`: refinement of `FrameMailbox` |
| `UartTx_proofs!CommandsSentWhole` | the index stays in the buffer; a command that cuts off no other goes out whole and in order |
| `Superloop_proofs!SchedTypeCorrect`, `RaisesKept`, `NeverBeginsThrice` | the counters keep their ranges, no raise of a flag is lost, no task of a longer period begins three times between two of a shorter one |
| `SdCard_proofs!BitsFitTogether`, `SavesLostBounded` | the status bits tell when nothing is mounted; few saves are tried on a card that is gone |
| `LogFile_proofs!LogFitsTogether`, `RecordsInTheirFiles`, `NumbersInTheirFiles`, `LeaksHaveCauses` | clock, flash, files and numbers fit together; records are in the file of their date; numbers run ahead of its rows only by rows that were lost; why files are left open |
| `LogIsBook` | `LogSpec => IsLogBook`: refinement of `LogBook`; no row is taken back while the card does what it is told |
| `StatusLed_proofs!LedIsDarkWhenOff`, `ChargersDebounced` | counters keep their ranges and the LED is dark when it is off; a charger is believed only when enough readings in a row show it, all since the last one went |

*WebComm.* The invariants are not inductive one by one: that an answer belongs to who polls
needs that a GPRS sequence outside its state is closed, which needs where `http_handler` is when
the link changes hands, which needs that the initialisation is not left in the middle. `IInv`
is the conjunction of the type invariant, the four and two more: `GprsQuietOutside` (outside UPLOAD no
GPRS question is open) and `StartFresh`
(before the first hand-over nobody has moved). Preservation is proved handler by handler: lemmas say
for each piece (`RetryConnect`, `RetryGps`, `modem_initAT`, ...) which counters it keeps in
range and which place it leaves, the next level composes them for `http_handler` and
`gps_handler`, and the last for the three cases of `manage_gps_gprs` and for `TakeDate`. The
refinement uses `IInv`: a hand-over by GPRS is allowed by the arbiter because `IInv` says
that its question is closed.

*Dates.* `DateNotStale` and `GpsDateAgrees` are inductive together with `IInv` and one more
fact, that no GPS date is on offer before the first hand-over (`DateInv`). That GPRS leaves
no sequence in the middle (`IInv`) is why an offer made by one sequence does not become
stale by the other.

*The initialisation.* That an attempt ends says nothing inductive: the calls since it began have to be found in the state.
They leave their traces (`CallsTraced`): each empty poll in `at_timeout`, for AT each with the call that sends the
command again, and an open question in `at_phase`. The bound follows from the limits of `at_timeout`.

*Position.* `PosSafe` has, besides the types of `gps_handler`'s state and of the row (`HandlerOK`, `RowTypeOK`), four facts.
`TornInOrder` is what the run checks. `GoodIsThere`: what counts as good is a whole record with a latitude or an altitude in it.
`PassedIsThere`: so are both records while `SYS_GPS_PASS` says that there is a position, because the bit is lowered when both are
good and raised before another is read; this is all a row copied at that time needs. `RowBehind`: a row shows no longitude before
`gps_info` has one. The lemmas about `gps_handler` are those of *WebComm*.

*Calendar.* The recursive sums of `timestampToMinutes` have closed forms (`MonthsCounted`, `YearsCounted`): the days before a month as
a table, those before a year as 365 for each and one for each fourth. In place of induction, the least month
or year in which function and closed form differ is shown not to exist (`LeastNatural`, from the library's theorem that `<` is well-founded).
`LaterCounts` says that the reference calendar advances the count by the minutes that have passed, `LocalIsLater` that `utcTOlocal`
carries like it. The invariant `CalSafe` is that both clocks show real dates and stay 8000 days apart, more than the 366 by which a
count from year 0 and one from another year differ; so the difference always has days.

*UartRx.* `RxInv` adds to the type invariant `LockInv`: a locked buffer has
bytes, and it is unlocked in every step that may empty it. The refinement needs `CopyInv`: what was copied
is a beginning of what is gathered, and the count lies between. So the frame handed over is a
beginning of the inbox followed by `Junk`. `NeverTwice` needs `OrderInv`: all bytes in the
buffer are later than those handed over. `WholeFrame` needs `WholeInv`: while
the line has been quiet since the hand-over began, copy, count and buffer agree.

*UartTx.* `InOrder` follows a command on its way: line, shift register and FIFO together are a beginning of the
text, and `index` is that of the last byte written. It needs `BufferFilled`, that the buffer holds the text from the byte-wise
copy on. A command that cuts off another needs more for the bound on `index` alone: the interrupt left over from the old command goes on over
the new buffer, until it meets a NUL, and so stays within the new text (`LeftOver`).

*Superloop.* `NeverThrice` needs three facts. The counters are in step (`InStep`): the counter of a period is the
one of a longer period modulo its own length, because each divides the longer ones; so whenever the long flag is raised the
short one is raised, too (`ShorterDueToo`), and stays up until the short task begins. Then a second call of the
long task before the short one is the last that can come before the loop reaches the short flag, which is up
(`SecondIsLast`).

*SdCard.* `BitsTellMount` is inductive with the type invariant. That few saves are lost is not: it needs
`LostSinceSample`, that such a save happened in a 1 s call since the last sample of the pin, while the bit is
still up that makes the next sample mount the card.

*LogFile.* That a record goes to the file of its quarter needs `DateKnown`, that the date of the log is the one of
start-up or the time of the last record, and a lemma of arithmetic: two consecutive quarters never look alike
(`NextQuarterDiffers`), so a date that was right a quarter ago is replaced. That numbers run ahead of the rows of
their file by lost rows only needs `FilesPast`: while the flash has not failed, no file is of a later date than the log, hence the
file of a new date does not exist yet and numbering starts with it. Over a restart this rests on `DateSurvives`.
Files are left open by a read that finds no row; `BlockInFile` says that there is one: the row to read next lies in a complete block
of the file, unless its rows may have gone (`moved`), a row is missing (`unwritten`) or the flash has failed. In the other
cases, and on a card that may fail, the property asks nothing. The refinement of `LogBook` takes the files for its pages,
`log_num` for its number, `~ MayFail` for its soundness and `nvs_failed` for its damage, and rests on the same invariants: by `FilesPast` the file of the log is the last page (`LogMayWrite`), and by `NumberingStarts`
the header goes into a page that was just begun.

*StatusLed.* While the LED is off, what is lit is the parity of the toggles for an eject (`RedByEject`); they end
after an even number. What `cnt` counts towards a charger are the readings in a row that show it (`CountedInRow`); against a
charger that is there it may count others, and a charger that has gone leaves it at 0.

*Only model-checked:* liveness (`UploadEnds`, `LocationEnds`, `Concludes`, `FrameLeaves`, `TransmissionEnds`,
`EveryTaskRuns`, `Remounted`, `SavesGoOn`, `ChargerShown`, `LedBlinks`), which is
beyond the prover, and the counterexample `CommentsHold`. All other properties of the runs are proved.

## 5. Not modelled, and the plan

*Left out of the modelled components.* What the texts of good fields say: coordinates in degrees
(`convert_dmsTOdd`, floating point), speed (whose decimals are read as a number of their own, `gps.cpp:85`), voltage
(`cbc_pkt_parsing`) and the CCLK date. What nobody reads back: IMEI, signal
strength, connection status, `SYS_RTC`, `SYS_E2P`. The rates in NVS, written and read once at start-up as the
constant 1. `charger_status_atStartup`, which is never called. Code of other builds
(`COMBINE_GGA_GNSS_CMD`, `#if 0`). Register setup of peripherals and power pins of the modem.

*Left out as components.* ADC: an average and a calibration curve in floating point, of a voltage
that is logged and decides nothing. LIS3DH: register setup and readings that are printed. The transactions of I2C,
of which `StatusLed` has what they leave behind. RTC: the C library's clock. Layout of log lines, generated, vendored and unused code.

*Known limits.* The write of a terminating NUL one past a full buffer (`gprs.cpp:1188`) is a step of `UartRx`
that touches nothing the model looks at. TX_DONE (`UART.cpp:471`) is taken for a level. These happen in the models as they do in the
code, and no property speaks of them because no doc does: a hold that is shorter the second time, since
`sd_retry_cnt` is not set back (`Handle_sdcard.cpp:263`); six short presses that count as a long one (line
358); a card that was out for fewer than three samples and is never mounted again until it is ejected (line 386); one
whose mount failed at start-up with SYS_SD_CARD only, and is not tried a second time (line 117); an
ellipsoid altitude that stays when one of its terms is zero (`gps.cpp:204`). `eepromWriteDate` leaves its
NVS handle open (`EEPROM.cpp:67`); the limit of handles is the library's. A log file that cannot be opened for a moment is created
anew and loses its rows (`Handle_sdcard.cpp:208`), a row that is not written keeps its number (line 187), and after 65535 rows
another block is read back (line 275): `LogFile` does all three, and `IsLogBook` allows the first two on a card that fails.
A press in the middle of the blinking for an eject may leave red lit (`stray`), and a command that is copied over one in progress
spoils it (`clean` in `UartTx`).

*Plan.* Type correctness of `WebComm`'s history-free parts as theorems of `Gprs` and `Gps` alone, to make the
proofs of the modules that reuse them shorter.
