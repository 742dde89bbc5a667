------------------------------ MODULE LogFile ------------------------------
(***************************************************************************)
(* The log.  Once a second, update_ram_data brings the clock and the date  *)
(* of the log up to date and appends a record to the file of that date; a  *)
(* file that cannot be opened is created, and the record is lost.  After   *)
(* every Block records, Get_Curr_sdData reads them back, a row in a call.  *)
(* A row is 128 bytes, header and record alike.                            *)
(*                                                                         *)
(* The card is external.  On a "bad" card (failing, full, pulled out) each *)
(* opening, reading and writing may fail or not, also within one call, and *)
(* the two bits with which SdCard stops the saving may be set or not.  The *)
(* card that comes back is the one that went.  A row that is cut short     *)
(* counts as not written.  Power may fail between any two steps.           *)
(***************************************************************************)
EXTENDS Eeprom

CONSTANTS
  Block,        \* records that are read back together: min * 60
  RowWidth,     \* values of the uint16_t in which Get_Curr_sdData keeps the row
  MaxFiles,     \* max_files: files that can be open
  MaxRows,      \* bound: rows of a file, where counting stops
  MaxUnwritten  \* bound: rows that are lost before numbering starts anew

ASSUME LogFileAssumption ==
  /\ Block \in Nat \ {0} /\ RowWidth \in Nat \ {0} /\ MaxFiles \in Nat \ {0}
  /\ MaxRows \in Nat \ {0} /\ MaxUnwritten \in Nat

VARIABLES
  card,       \* "good" or "bad"
  rows,       \* the rows of each file; Absent if there is none
  pc,         \* update_ram_data: "idle", about to "save", or creating the file ("header")
  Fpath,      \* the file of the last save
  log_num,    \* ram_data.log_num
  unwritten,  \* records numbered since numbering began whose rows were not written
  row,        \* Get_Curr_sdData: log_num, the row to read next, 0 if none
  leaked,     \* files that were opened and not closed
  moved       \* rows that are being read back may have gone: see MayMove

fileVars == <<rows, leaked>>
saveVars == <<pc, Fpath, log_num, unwritten>>
readVars == <<row, moved>>
logVars == <<e2pVars, card, fileVars, saveVars, readVars>>

Absent == -1
NoFile == -3

LogTypeOK ==
  /\ E2pTypeOK
  /\ card \in {"good", "bad"}
  /\ rows \in [Record -> {Absent} \cup 0..MaxRows]
  /\ pc \in {"idle", "save", "header"}
  /\ Fpath \in Record \cup {NoFile}
  /\ log_num \in 0..MaxRows /\ unwritten \in 0..MaxUnwritten
  /\ row \in 0..(RowWidth - 1)
  /\ leaked \in 0..MaxFiles
  /\ moved \in BOOLEAN

LogInit ==
  /\ E2pInit
  /\ card = "good"
  /\ rows = [file \in Record |-> Absent]
  /\ pc = "idle" /\ Fpath = NoFile /\ log_num = 0 /\ unwritten = 0
  /\ row = 0 /\ leaked = 0 /\ moved = FALSE

\* Fewer than max_files are open; on a bad card a call may fail all the same.
HandleLeft == leaked < MaxFiles
MayFail == card = "bad"
UpToRows(n) == IF n < MaxRows THEN n + 1 ELSE n

-----------------------------------------------------------------------------
(***************************************************************************)
(* The 1 s task: update_ram_data.                                          *)
(***************************************************************************)
UpdateTime ==
  /\ pc = "idle" /\ pc' = "save"
  /\ sync_time_modem
  /\ UNCHANGED <<card, fileVars, Fpath, log_num, unwritten, readVars>>

NotNow ==
  /\ pc = "save" /\ pc' = "idle"
  /\ MayFail
  /\ UNCHANGED <<e2pVars, card, fileVars, Fpath, log_num, unwritten, readVars>>

\* The rows that are being read back may have gone: the save turns to another file, creates
\* theirs anew, or starts the numbering anew when rows are missing.
MayMove ==
  moved' = (moved \/ (row # 0 /\ (Fpath' # Fpath \/ rows'[Fpath'] = 0 \/ unwritten' < unwritten)))

SetPath ==
  /\ pc = "save"
  /\ Fpath' = e2p_date
  /\ UNCHANGED <<e2pVars, card, leaked, row>>

\* SD_file_Save: the file is there.  The number goes up first, and nobody looks whether the
\* row is written.  (When the file cannot be opened a second time to append to it, fprintf
\* gets a null pointer: the program crashes, which is a Restart, or the row is not written.)
SaveRow ==
  /\ SetPath
  /\ HandleLeft /\ rows[e2p_date] # Absent
  /\ rows' = [rows EXCEPT ![e2p_date] = UpToRows(rows[e2p_date])]
  /\ log_num' = UpToRows(log_num)
  /\ pc' = "idle"
  /\ UNCHANGED unwritten
  /\ MayMove

SaveLosesRow ==
  /\ SetPath
  /\ HandleLeft /\ rows[e2p_date] # Absent /\ MayFail /\ unwritten < MaxUnwritten
  /\ log_num' = UpToRows(log_num) /\ unwritten' = unwritten + 1
  /\ pc' = "idle"
  /\ UNCHANGED rows
  /\ MayMove

\* printHeader opens the file for writing, which empties it, or cannot.
CreateFile ==
  \/ HandleLeft /\ rows' = [rows EXCEPT ![e2p_date] = 0] /\ pc' = "header"
  \/ (~ HandleLeft \/ MayFail) /\ UNCHANGED rows /\ pc' = "idle"

\* MUTANT: the number goes on in the new file.
SaveFailsCounting ==
  /\ SetPath
  /\ ~ HandleLeft \/ rows[e2p_date] = Absent \/ MayFail
  /\ CreateFile
  /\ log_num' = UpToRows(log_num) /\ unwritten' = 0
  /\ MayMove

\* MUTANT: the file is created anew whenever it can be.
SaveFailsAlways ==
  /\ SetPath
  /\ CreateFile
  /\ log_num' = 0 /\ unwritten' = 0
  /\ MayMove

\* Any failure to open the file makes it be created anew, if that can be done.
SaveFails ==
  /\ SetPath
  /\ ~ HandleLeft \/ rows[e2p_date] = Absent \/ MayFail
  /\ CreateFile
  /\ log_num' = 0 /\ unwritten' = 0
  /\ MayMove

\* MUTANT: no header.
printHeaderNot ==
  /\ pc = "header" /\ pc' = "idle"
  /\ rows' = [rows EXCEPT ![Fpath] = Absent]
  /\ UNCHANGED <<e2pVars, card, leaked, Fpath, log_num, unwritten, readVars>>

\* The header reaches the card when printHeader closes the file.
printHeader ==
  /\ pc = "header" /\ pc' = "idle"
  /\ rows' = [rows EXCEPT ![Fpath] = 1] \/ (MayFail /\ UNCHANGED rows)
  /\ UNCHANGED <<e2pVars, card, leaked, Fpath, log_num, unwritten, readVars>>

update_ram_data == UpdateTime \/ NotNow \/ SaveRow \/ SaveLosesRow \/ SaveFails \/ printHeader

-----------------------------------------------------------------------------
(***************************************************************************)
(* The 10 ms task: Get_Curr_sdData, when its 20 ms are over.               *)
(***************************************************************************)
\* read_sdcard: a row that is not there, or cannot be read, leaves the file open.
CanRead == HandleLeft /\ Fpath # NoFile /\ rows[Fpath] # Absent
read_sdcard(n) ==
  \/ CanRead /\ (n >= rows[Fpath] \/ MayFail) /\ leaked' = leaked + 1
  \/ ~ (CanRead /\ n >= rows[Fpath]) /\ UNCHANGED leaked
  \/ MayFail /\ UNCHANGED leaked

\* MUTANT: the last row of the block is counted from the record that is to come.
BlockStartLate == IF log_num > 0 /\ log_num % Block = 0 THEN log_num ELSE -1

\* A block is complete: its first row.
BlockStart == IF log_num > 0 /\ log_num % Block = 0 THEN log_num - Block ELSE -1

ReadOn(n) == read_sdcard(n) /\ row' = (n + 1) % RowWidth

Get_Curr_sdData ==
  /\ pc = "idle"
  /\ CASE row = 0 /\ BlockStart # -1 -> ReadOn(BlockStart % RowWidth)
       [] row >= 1 /\ row % Block # 0 -> ReadOn(row)
       [] OTHER -> row' = 0 /\ UNCHANGED leaked
  /\ moved' = (moved /\ row' # 0)
  /\ UNCHANGED <<e2pVars, card, rows, saveVars>>

-----------------------------------------------------------------------------
(***************************************************************************)
(* What happens to the program.                                            *)
(***************************************************************************)
CardChanges ==
  /\ card' \in {"good", "bad"} \ {card}
  /\ UNCHANGED <<e2pVars, fileVars, saveVars, readVars>>

Passes == TimePasses /\ UNCHANGED <<card, fileVars, saveVars, readVars>>

Restart ==
  /\ Reboot
  /\ pc' = "idle" /\ Fpath' = NoFile /\ log_num' = 0 /\ unwritten' = 0
  /\ row' = 0 /\ leaked' = 0 /\ moved' = FALSE
  /\ UNCHANGED <<card, rows>>

LogNext == update_ram_data \/ Get_Curr_sdData \/ CardChanges \/ Passes \/ Restart

LogSpec == LogInit /\ [][LogNext]_logVars /\ WF_logVars(update_ram_data)

-----------------------------------------------------------------------------
\* A record goes into the file of its day and quarter.  Only the year of the file may be
\* wrong, and only while its date is the one that was read at start-up.
FileOfTheRecord ==
  pc = "save" /\ ram_time # Unset =>
    SameDate(e2p_date, ram_time) /\ e2p_date \in {ram_time, booted}

\* A number is beyond the rows of its file by no more than the rows that were not written
\* since numbering began, over changes of the date, restarts and failing cards.  (A date that
\* could not be written can make the log come back to a file.)
NumberInFile ==
  Fpath # NoFile /\ ~ nvs_failed => log_num = 0 \/ log_num <= rows[Fpath] + unwritten

\* What these rest on.  The clock shows the time of a moment ago, if any, and the date of the
\* log is the one that was read at start-up or the time of the last record.
DateKnown ==
  /\ ram_time # Unset => rtc_set /\ ram_time \in {now - 1, now}
  /\ e2p_date = booted \/ (ram_time # Unset /\ e2p_date = ram_time)

\* No file is of a later date than the log, so that there is none yet when the date of the
\* log has changed.
FilesPast ==
  ~ nvs_failed =>
    /\ e2p_date <= now
    /\ \A file \in Record : rows[file] # Absent => file <= e2p_date
    /\ Fpath \notin {NoFile, e2p_date} => rows[e2p_date] = Absent

\* A file that waits for its header is the one of the log, and numbering starts with it.
NumberingStarts ==
  /\ pc = "header" => Fpath = e2p_date /\ rows[Fpath] = 0 /\ log_num = 0
  /\ Fpath = NoFile => log_num = 0
  /\ log_num = 0 => unwritten = 0

\* Clock, flash, files and numbers fit together at every step, and after every restart.
LogInv == LogTypeOK /\ DateSurvives /\ DateKnown /\ FilesPast /\ NumberingStarts

\* Get_Curr_sdData leaves a file open only when a read may fail, when the rows it reads back
\* have gone or moved since it began with them, when some were never written, or when a write
\* to the flash has failed: read-back itself never asks for a row that is not there.
LeakHasCause ==
  [][leaked' > leaked => MayFail \/ moved \/ unwritten > 0 \/ nvs_failed]_logVars

\* The files are a book written from front to back.  While the card works, no row is ever
\* taken back or written anew and numbers go up with the rows or start anew; while the flash
\* keeps the date, only the latest file is written.
Book == INSTANCE LogBook WITH Page <- Record, Capacity <- MaxRows, book <- rows,
                              number <- log_num, sound <- ~ MayFail, damaged <- nvs_failed
IsLogBook == Book!BookSpec

\* On a card that stays good, records are saved for ever, unless all files are left open or
\* the power fails again and again.
SavesGoOn ==
  <>[](card = "good") =>
    []<><<SaveRow>>_logVars \/ <>[](leaked = MaxFiles) \/ []<><<Restart>>_logVars
=============================================================================
