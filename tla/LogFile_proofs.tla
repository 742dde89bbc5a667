-------------------------- MODULE LogFile_proofs --------------------------
(***************************************************************************)
(* The log goes into the right files, for any number of dates, any block   *)
(* and any number of files, rows and restarts: the safety of LogFile and   *)
(* of the date it takes from Eeprom.                                       *)
(***************************************************************************)
EXTENDS LogFile, TLAPS

LEMMA Division ==
  ASSUME NEW a \in Int, NEW y \in Int, y > 0
  PROVE  a = y * (a \div y) + (a % y)
BY Z3T(20)

\* A quarter and the next one never look alike.
LEMMA NextQuarterDiffers ==
  ASSUME NEW a \in Nat
  PROVE  a % Year # (a + 1) % Year
<1> DEFINE q == a \div Year
           p == (a + 1) \div Year
<1>1. Year \in Int /\ Year > 1
  BY DateAssumption
<1>2. q \in Int /\ p \in Int /\ a % Year \in Int /\ (a + 1) % Year \in Int
  BY <1>1
<1>3. a = Year * q + (a % Year)
  BY <1>1, Division
<1>4. a + 1 = Year * p + ((a + 1) % Year)
  BY <1>1, Division
<1> HIDE DEF q, p
<1>5. SUFFICES ASSUME a % Year = (a + 1) % Year
               PROVE  FALSE
  OBVIOUS
<1>6. Year * (p - q) = 1
  BY <1>1, <1>2, <1>3, <1>4, <1>5
<1>7. CASE p - q <= 0
  BY <1>1, <1>2, <1>6, <1>7
<1>8. CASE p - q >= 1
  BY <1>1, <1>2, <1>6, <1>8
<1> QED BY <1>2, <1>7, <1>8
-----------------------------------------------------------------------------
LogSafe == LogInv /\ FileOfTheRecord /\ NumberInFile

LEMMA InitLog ==
  ASSUME LogInit
  PROVE  LogSafe
<1> USE LogFileAssumption, DateAssumption DEF LogInit, E2pInit, eepromReadDate
<1>1. LogTypeOK
  <2>1. now \in Date /\ ram_time = Unset /\ nvs \in Record /\ e2p_date = nvs /\ booted = nvs
    BY DEF Date, Record
  <2>2. rtc_set \in BOOLEAN /\ e2p_read_date \in BOOLEAN /\ nvs_failed \in BOOLEAN
    BY Zenon
  <2>3. E2pTypeOK
    BY <2>1, <2>2 DEF E2pTypeOK
  <2>4. rows \in [Record -> {Absent} \cup 0..MaxRows]
    OBVIOUS
  <2>5. log_num \in 0..MaxRows /\ row \in 0..(RowWidth - 1) /\ leaked \in 0..MaxFiles
        /\ unwritten \in 0..MaxUnwritten
    OBVIOUS
  <2>6. moved \in BOOLEAN
    BY Zenon
  <2>7. card = "good" /\ pc = "idle" /\ Fpath = NoFile
    OBVIOUS
  <2> QED BY <2>3, <2>4, <2>5, <2>6, <2>7 DEF LogTypeOK
<1>2. DateSurvives /\ DateKnown
  BY DEF DateSurvives, DateKnown, Unset
<1>3. FilesPast /\ NumberingStarts
  BY DEF FilesPast, NumberingStarts, Date, Record, Zero, Spoilt, Absent, NoFile
<1>4. FileOfTheRecord /\ NumberInFile
  BY DEF FileOfTheRecord, NumberInFile
<1> QED BY <1>1, <1>2, <1>3, <1>4 DEF LogInv, LogSafe

-----------------------------------------------------------------------------
(***************************************************************************)
(* The clock and the date.                                                 *)
(***************************************************************************)
\* The date of the log becomes the time, or stays because it is that of this quarter.
LEMMA DateMoves ==
  ASSUME E2pTypeOK, DateKnown, sync_time_modem
  PROVE  /\ E2pTypeOK' /\ DateKnown'
         /\ ram_time' # Unset =>
              SameDate(e2p_date, ram_time)' /\ e2p_date' \in {ram_time', booted'}
         /\ e2p_date' # e2p_date => e2p_date' = now
         /\ now' = now
<1> USE DateAssumption DEF E2pTypeOK, sync_time_modem, Date, Record, Zero, Spoilt, Unset
<1>1. CASE ~ rtc_set
  <2>1. ram_time' = Unset /\ UNCHANGED <<e2p_date, nvs, nvs_failed>> /\ rtc_set' \in BOOLEAN
    BY <1>1 DEF flashVars
  <2>2. e2p_date = booted
    BY <1>1 DEF DateKnown
  <2> QED BY <2>1, <2>2 DEF DateKnown
<1>2. CASE rtc_set /\ e2p_read_date /\ SameDate(e2p_date, ram_time')
  <2>1. ram_time' = now /\ rtc_set' /\ UNCHANGED <<e2p_date, nvs, nvs_failed>>
    BY <1>2 DEF date_change_e2p, flashVars
  <2>2. e2p_date \in {now, booted}
    <3>1. CASE ram_time = now - 1 /\ e2p_date = ram_time
      <4>1. e2p_date \in Nat /\ e2p_date + 1 = now
        BY <1>2, <3>1 DEF SameDate
      <4>2. e2p_date % Year = now % Year
        BY <1>2, <2>1 DEF SameDate
      <4> QED BY <4>1, <4>2, NextQuarterDiffers
    <3> QED BY <3>1 DEF DateKnown
  <2>3. SameDate(e2p_date, ram_time)'
    BY <1>2, <2>1 DEF SameDate
  <2> QED BY <2>1, <2>2, <2>3 DEF DateKnown
<1>3. CASE rtc_set /\ ~ (e2p_read_date /\ SameDate(e2p_date, ram_time'))
  <2>1. ram_time' = now /\ rtc_set' /\ e2p_date' = now /\ eepromWriteDate
    BY <1>3 DEF date_change_e2p
  <2>2. nvs' \in Record /\ nvs_failed' \in BOOLEAN
    BY <2>1 DEF eepromWriteDate
  <2>3. SameDate(e2p_date, ram_time)'
    BY <2>1 DEF SameDate
  <2> QED BY <2>1, <2>2, <2>3 DEF DateKnown
<1> QED BY <1>1, <1>2, <1>3

\* What is in the flash follows the date of the log, or the failure is remembered.
LEMMA FlashFollows ==
  ASSUME DateSurvives, sync_time_modem
  PROVE  DateSurvives' /\ (nvs_failed => nvs_failed')
<1>1. CASE UNCHANGED <<e2p_date, flashVars>>
  BY <1>1 DEF DateSurvives, flashVars
<1>2. CASE eepromWriteDate
  BY <1>2 DEF DateSurvives, eepromWriteDate
<1> QED BY <1>1, <1>2 DEF sync_time_modem, date_change_e2p

LEMMA UpdateTimeStep ==
  ASSUME LogSafe, UpdateTime
  PROVE  LogSafe'
<1> USE DEF LogSafe, LogInv
<1>1. /\ E2pTypeOK' /\ DateKnown'
      /\ ram_time' # Unset =>
           SameDate(e2p_date, ram_time)' /\ e2p_date' \in {ram_time', booted'}
      /\ e2p_date' # e2p_date => e2p_date' = now
      /\ now' = now
  BY DateMoves DEF LogTypeOK, UpdateTime
<1>2. DateSurvives' /\ (nvs_failed => nvs_failed')
  BY FlashFollows DEF UpdateTime
<1>3. pc = "idle" /\ pc' = "save"
      /\ UNCHANGED <<card, rows, leaked, Fpath, log_num, unwritten, row, moved>>
  BY DEF UpdateTime, fileVars, readVars
<1>4. LogTypeOK'
  BY <1>1, <1>3 DEF LogTypeOK
<1>5. FilesPast'
  <2> SUFFICES ASSUME ~ nvs_failed'
               PROVE  /\ e2p_date' <= now
                      /\ \A file \in Record : rows[file] # Absent => file <= e2p_date'
                      /\ Fpath \notin {NoFile, e2p_date'} => rows[e2p_date'] = Absent
    BY <1>1, <1>3 DEF FilesPast
  <2>1. /\ e2p_date <= now
        /\ \A file \in Record : rows[file] # Absent => file <= e2p_date
        /\ Fpath \notin {NoFile, e2p_date} => rows[e2p_date] = Absent
    BY <1>2 DEF FilesPast
  <2>2. CASE e2p_date' = e2p_date
    BY <2>1, <2>2
  <2>3. CASE e2p_date' # e2p_date
    <3>1. e2p_date' = now /\ now \in Record /\ e2p_date \in Int /\ Record \subseteq Int
      BY <1>1, <2>3 DEF LogTypeOK, E2pTypeOK, Date, Record, Zero, Spoilt
    <3>2. e2p_date < now
      BY <2>1, <2>3, <3>1
    <3>3. rows[now] = Absent
      BY <2>1, <3>1, <3>2
    <3> QED BY <2>1, <3>1, <3>2, <3>3
  <2> QED BY <2>2, <2>3
<1>6. NumberingStarts'
  BY <1>3 DEF NumberingStarts
<1>7. FileOfTheRecord'
  BY <1>1 DEF FileOfTheRecord
<1>8. NumberInFile'
  BY <1>2, <1>3 DEF NumberInFile
<1> QED BY <1>1, <1>2, <1>4, <1>5, <1>6, <1>7, <1>8

-----------------------------------------------------------------------------
(***************************************************************************)
(* The files.  The clock and the date stand still.                         *)
(***************************************************************************)
SafeExceptFiles == DateSurvives /\ DateKnown /\ E2pTypeOK

LEMMA DateStays ==
  ASSUME SafeExceptFiles, UNCHANGED e2pVars
  PROVE  SafeExceptFiles'
BY DEF SafeExceptFiles, DateSurvives, DateKnown, E2pTypeOK, e2pVars, clockVars, dateVars, flashVars

LEMMA NotNowStep ==
  ASSUME LogSafe, NotNow
  PROVE  LogSafe'
<1> USE DEF LogSafe, LogInv
<1>1. SafeExceptFiles'
  BY DateStays DEF NotNow, SafeExceptFiles, LogTypeOK
<1>2. /\ UNCHANGED <<e2p_date, ram_time, booted, now, nvs_failed>>
      /\ UNCHANGED <<rows, leaked, card, Fpath, log_num, unwritten, row, moved>> /\ pc' = "idle"
  BY DEF NotNow, e2pVars, clockVars, dateVars, flashVars, fileVars, readVars
<1>3. LogTypeOK'
  BY <1>1, <1>2 DEF LogTypeOK, SafeExceptFiles
<1>4. FilesPast' /\ NumberingStarts' /\ FileOfTheRecord' /\ NumberInFile'
  BY <1>2 DEF FilesPast, NumberingStarts, FileOfTheRecord, NumberInFile
<1> QED BY <1>1, <1>3, <1>4 DEF SafeExceptFiles

LEMMA SaveRowStep ==
  ASSUME LogSafe, SaveRow
  PROVE  LogSafe'
<1> USE DEF LogSafe, LogInv
<1>1. SafeExceptFiles'
  BY DateStays DEF SaveRow, SetPath, SafeExceptFiles, LogTypeOK
<1>2. /\ UNCHANGED <<e2p_date, ram_time, booted, now, nvs_failed>>
      /\ UNCHANGED <<leaked, card, row>>
      /\ pc' = "idle" /\ Fpath' = e2p_date
      /\ rows[e2p_date] # Absent
      /\ rows' = [rows EXCEPT ![e2p_date] = UpToRows(rows[e2p_date])]
      /\ log_num' = UpToRows(log_num) /\ unwritten' = unwritten
  BY DEF SaveRow, SetPath, e2pVars, clockVars, dateVars, flashVars
<1>3. /\ e2p_date \in Record /\ rows \in [Record -> {Absent} \cup 0..MaxRows]
      /\ log_num \in 0..MaxRows /\ Date \subseteq Record /\ NoFile \notin Record
  BY DEF LogTypeOK, E2pTypeOK, Record, Date, Zero, Spoilt, NoFile
<1>4. rows[e2p_date] \in 0..MaxRows
  BY <1>2, <1>3
<1>5. UpToRows(rows[e2p_date]) \in 0..MaxRows /\ UpToRows(log_num) \in 0..MaxRows
  BY <1>3, <1>4, LogFileAssumption DEF UpToRows
<1>6. rows' \in [Record -> {Absent} \cup 0..MaxRows] /\ rows'[e2p_date] = UpToRows(rows[e2p_date])
  BY <1>2, <1>3, <1>5
<1>7. moved' \in BOOLEAN
  BY Zenon DEF SaveRow, MayMove
<1>8. LogTypeOK'
  BY <1>1, <1>2, <1>3, <1>5, <1>6, <1>7 DEF LogTypeOK, SafeExceptFiles
<1>9. FilesPast'
  <2> SUFFICES ASSUME ~ nvs_failed
               PROVE  /\ e2p_date <= now
                      /\ \A file \in Record : rows'[file] # Absent => file <= e2p_date
    BY <1>2 DEF FilesPast
  <2>1. \A file \in Record : file # e2p_date => rows'[file] = rows[file]
    BY <1>2, <1>3
  <2>2. e2p_date \in Int
    BY <1>3 DEF Record, Date, Zero, Spoilt
  <2> QED BY <2>1, <2>2 DEF FilesPast
<1>10. NumberingStarts'
  BY <1>2, <1>3, LogFileAssumption DEF NumberingStarts, UpToRows
<1>11. FileOfTheRecord'
  BY <1>2 DEF FileOfTheRecord
<1>12. NumberInFile'
  <2> SUFFICES ASSUME ~ nvs_failed
               PROVE  log_num' <= rows'[e2p_date] + unwritten'
    BY <1>2 DEF NumberInFile
  <2>1. log_num = 0 \/ log_num <= rows[e2p_date] + unwritten
    BY <1>2 DEF NumberInFile, FilesPast, NumberingStarts
  <2>2. unwritten \in Nat
    BY LogFileAssumption DEF LogTypeOK
  <2> QED BY <1>2, <1>3, <1>4, <1>6, <2>1, <2>2, LogFileAssumption DEF UpToRows
<1> QED BY <1>1, <1>8, <1>9, <1>10, <1>11, <1>12 DEF SafeExceptFiles

\* A row that is lost makes the number run ahead, and is remembered.
LEMMA SaveLosesRowStep ==
  ASSUME LogSafe, SaveLosesRow
  PROVE  LogSafe'
<1> USE DEF LogSafe, LogInv
<1>1. SafeExceptFiles'
  BY DateStays DEF SaveLosesRow, SetPath, SafeExceptFiles, LogTypeOK
<1>2. /\ UNCHANGED <<e2p_date, ram_time, booted, now, nvs_failed>>
      /\ UNCHANGED <<rows, leaked, card, row>>
      /\ pc' = "idle" /\ Fpath' = e2p_date
      /\ rows[e2p_date] # Absent
      /\ log_num' = UpToRows(log_num) /\ unwritten' = unwritten + 1 /\ unwritten < MaxUnwritten
  BY DEF SaveLosesRow, SetPath, e2pVars, clockVars, dateVars, flashVars
<1>3. /\ e2p_date \in Record /\ rows \in [Record -> {Absent} \cup 0..MaxRows]
      /\ log_num \in 0..MaxRows /\ NoFile \notin Record /\ unwritten \in Nat
  BY LogFileAssumption DEF LogTypeOK, E2pTypeOK, Record, Date, Zero, Spoilt, NoFile
<1>4. rows[e2p_date] \in 0..MaxRows
  BY <1>2, <1>3
<1>5. log_num' \in 1..MaxRows /\ log_num' <= log_num + 1 /\ unwritten' \in 1..MaxUnwritten
  BY <1>2, <1>3, LogFileAssumption DEF UpToRows
<1>6. moved' \in BOOLEAN
  BY Zenon DEF SaveLosesRow, MayMove
<1>7. LogTypeOK'
  BY <1>1, <1>2, <1>3, <1>5, <1>6 DEF LogTypeOK, SafeExceptFiles
<1>8. FilesPast' /\ FileOfTheRecord'
  BY <1>2 DEF FilesPast, FileOfTheRecord
<1>9. NumberingStarts'
  BY <1>2, <1>3, <1>5 DEF NumberingStarts
<1>10. NumberInFile'
  <2> SUFFICES ASSUME ~ nvs_failed
               PROVE  log_num' <= rows[e2p_date] + unwritten'
    BY <1>2 DEF NumberInFile
  <2>1. log_num = 0 \/ log_num <= rows[e2p_date] + unwritten
    BY <1>2 DEF NumberInFile, FilesPast, NumberingStarts
  <2> QED BY <1>2, <1>3, <1>4, <1>5, <2>1
<1> QED BY <1>1, <1>7, <1>8, <1>9, <1>10 DEF SafeExceptFiles

LEMMA SaveFailsStep ==
  ASSUME LogSafe, SaveFails
  PROVE  LogSafe'
<1> USE DEF LogSafe, LogInv
<1>1. SafeExceptFiles'
  BY DateStays DEF SaveFails, SetPath, SafeExceptFiles, LogTypeOK
<1>2. /\ UNCHANGED <<e2p_date, ram_time, booted, now, nvs_failed>>
      /\ UNCHANGED <<leaked, card, row>>
      /\ Fpath' = e2p_date /\ log_num' = 0 /\ unwritten' = 0
      /\ \/ pc' = "header" /\ rows' = [rows EXCEPT ![e2p_date] = 0]
         \/ pc' = "idle" /\ rows' = rows
  BY DEF SaveFails, CreateFile, SetPath, e2pVars, clockVars, dateVars, flashVars
<1>3. /\ e2p_date \in Record /\ rows \in [Record -> {Absent} \cup 0..MaxRows]
      /\ Date \subseteq Record /\ NoFile \notin Record
  BY DEF LogTypeOK, E2pTypeOK, Record, Date, Zero, Spoilt, NoFile
<1>4. rows' \in [Record -> {Absent} \cup 0..MaxRows]
  BY <1>2, <1>3, LogFileAssumption
<1>5. moved' \in BOOLEAN
  BY Zenon DEF SaveFails, MayMove
<1>6. LogTypeOK'
  BY <1>1, <1>2, <1>3, <1>4, <1>5, LogFileAssumption DEF LogTypeOK, SafeExceptFiles
<1>7. FilesPast'
  <2> SUFFICES ASSUME ~ nvs_failed
               PROVE  /\ e2p_date <= now
                      /\ \A file \in Record : rows'[file] # Absent => file <= e2p_date
    BY <1>2 DEF FilesPast
  <2>1. \A file \in Record : file # e2p_date => rows'[file] = rows[file]
    BY <1>2, <1>3
  <2>2. e2p_date \in Int
    BY <1>3 DEF Record, Date, Zero, Spoilt
  <2> QED BY <2>1, <2>2 DEF FilesPast
<1>8. NumberingStarts'
  BY <1>2, <1>3 DEF NumberingStarts
<1>9. FileOfTheRecord' /\ NumberInFile'
  BY <1>2 DEF FileOfTheRecord, NumberInFile
<1> QED BY <1>1, <1>6, <1>7, <1>8, <1>9 DEF SafeExceptFiles

LEMMA printHeaderStep ==
  ASSUME LogSafe, printHeader
  PROVE  LogSafe'
<1> USE DEF LogSafe, LogInv
<1>1. SafeExceptFiles'
  BY DateStays DEF printHeader, SafeExceptFiles, LogTypeOK
<1>2. /\ UNCHANGED <<e2p_date, ram_time, booted, now, nvs_failed>>
      /\ UNCHANGED <<leaked, card, Fpath, log_num, unwritten, row, moved>>
      /\ pc' = "idle"
      /\ Fpath = e2p_date /\ log_num = 0
      /\ rows' = rows \/ rows' = [rows EXCEPT ![e2p_date] = 1]
  BY DEF printHeader, NumberingStarts, e2pVars, clockVars, dateVars, flashVars, readVars
<1>3. /\ e2p_date \in Record /\ rows \in [Record -> {Absent} \cup 0..MaxRows]
      /\ Date \subseteq Record
  BY DEF LogTypeOK, E2pTypeOK, Record
<1>4. rows' \in [Record -> {Absent} \cup 0..MaxRows]
  BY <1>2, <1>3, LogFileAssumption
<1>5. LogTypeOK'
  BY <1>1, <1>2, <1>4 DEF LogTypeOK, SafeExceptFiles
<1>6. FilesPast'
  <2> SUFFICES ASSUME ~ nvs_failed
               PROVE  /\ e2p_date <= now
                      /\ \A file \in Record : rows'[file] # Absent => file <= e2p_date
    BY <1>2 DEF FilesPast
  <2>1. \A file \in Record : file # e2p_date => rows'[file] = rows[file]
    BY <1>2, <1>3
  <2>2. e2p_date \in Int
    BY <1>3 DEF Record, Date, Zero, Spoilt
  <2> QED BY <2>1, <2>2 DEF FilesPast
<1>7. NumberingStarts' /\ FileOfTheRecord' /\ NumberInFile'
  BY <1>2 DEF NumberingStarts, FileOfTheRecord, NumberInFile
<1> QED BY <1>1, <1>5, <1>6, <1>7 DEF SafeExceptFiles

\* Reading back changes only the row and the files left open.
LEMMA ReadBackStep ==
  ASSUME LogSafe, Get_Curr_sdData
  PROVE  LogSafe'
<1> USE DEF LogSafe, LogInv
<1>1. SafeExceptFiles'
  BY DateStays DEF Get_Curr_sdData, SafeExceptFiles, LogTypeOK
<1>2. /\ UNCHANGED <<e2p_date, ram_time, booted, now, nvs_failed>>
      /\ UNCHANGED <<card, rows, pc, Fpath, log_num, unwritten>>
      /\ moved' = (moved /\ row' # 0)
  BY DEF Get_Curr_sdData, saveVars, e2pVars, clockVars, dateVars, flashVars
<1>3. ASSUME NEW n \in Int, ReadOn(n)
      PROVE  row' \in 0..(RowWidth - 1) /\ leaked' \in 0..MaxFiles
  BY <1>3, LogFileAssumption DEF ReadOn, read_sdcard, CanRead, HandleLeft, LogTypeOK
<1>4. row' \in 0..(RowWidth - 1) /\ leaked' \in 0..MaxFiles
  <2>1. BlockStart % RowWidth \in Int /\ row \in Int
    BY LogFileAssumption DEF BlockStart, LogTypeOK
  <2>2. CASE ReadOn(BlockStart % RowWidth) \/ ReadOn(row)
    BY <1>3, <2>1, <2>2
  <2>3. CASE row' = 0 /\ UNCHANGED leaked
    BY <2>3, LogFileAssumption DEF LogTypeOK
  <2> QED BY <2>2, <2>3 DEF Get_Curr_sdData
<1>5. moved' \in BOOLEAN
  BY <1>2, Zenon
<1>6. LogTypeOK'
  BY <1>1, <1>2, <1>4, <1>5 DEF LogTypeOK, SafeExceptFiles
<1>7. FilesPast' /\ NumberingStarts' /\ FileOfTheRecord' /\ NumberInFile'
  BY <1>2 DEF FilesPast, NumberingStarts, FileOfTheRecord, NumberInFile
<1> QED BY <1>1, <1>6, <1>7 DEF SafeExceptFiles

-----------------------------------------------------------------------------
(***************************************************************************)
(* What happens to the program.                                            *)
(***************************************************************************)
LEMMA CardChangesStep ==
  ASSUME LogSafe, CardChanges
  PROVE  LogSafe'
<1> USE DEF LogSafe, LogInv
<1>1. SafeExceptFiles'
  BY DateStays DEF CardChanges, SafeExceptFiles, LogTypeOK
<1>2. /\ UNCHANGED <<e2p_date, ram_time, booted, now, nvs_failed>>
      /\ UNCHANGED <<rows, leaked, pc, Fpath, log_num, unwritten, row, moved>>
      /\ card' \in {"good", "bad"}
  BY DEF CardChanges, fileVars, saveVars, readVars, e2pVars, clockVars, dateVars, flashVars
<1>3. LogTypeOK'
  BY <1>1, <1>2 DEF LogTypeOK, SafeExceptFiles
<1>4. FilesPast' /\ NumberingStarts' /\ FileOfTheRecord' /\ NumberInFile'
  BY <1>2 DEF FilesPast, NumberingStarts, FileOfTheRecord, NumberInFile
<1> QED BY <1>1, <1>3, <1>4 DEF SafeExceptFiles

\* Time passes only when the clock has shown it, if it runs.
LEMMA PassesStep ==
  ASSUME LogSafe, Passes
  PROVE  LogSafe'
<1> USE DEF LogSafe, LogInv
<1>1. /\ UNCHANGED <<rtc_set, ram_time, e2p_date, e2p_read_date, booted, nvs, nvs_failed>>
      /\ UNCHANGED <<card, rows, leaked, pc, Fpath, log_num, unwritten, row, moved>>
      /\ rtc_set => ram_time = now
      /\ now < LastDate /\ now' = now + 1
  BY DEF Passes, TimePasses, dateVars, flashVars, fileVars, saveVars, readVars
<1>2. now \in Nat /\ now' \in Date
  BY <1>1, DateAssumption DEF LogTypeOK, E2pTypeOK, Date
<1>3. E2pTypeOK'
  BY <1>1, <1>2 DEF LogTypeOK, E2pTypeOK
<1>4. LogTypeOK' /\ DateSurvives'
  BY <1>1, <1>3 DEF LogTypeOK, DateSurvives
<1>5. DateKnown'
  BY <1>1, <1>2 DEF DateKnown
<1>6. FilesPast'
  <2>1. e2p_date \in Int
    BY <1>1 DEF LogTypeOK, E2pTypeOK, Record, Date, Zero, Spoilt
  <2> QED BY <1>1, <1>2, <2>1 DEF FilesPast
<1>7. NumberingStarts' /\ FileOfTheRecord' /\ NumberInFile'
  BY <1>1 DEF NumberingStarts, FileOfTheRecord, NumberInFile
<1> QED BY <1>4, <1>5, <1>6, <1>7

\* After a restart the log goes on with the date of the flash, which is the one it had.
LEMMA RestartStep ==
  ASSUME LogSafe, Restart
  PROVE  LogSafe'
<1> USE DEF LogSafe, LogInv
<1>1. /\ ram_time' = Unset /\ e2p_date' = nvs /\ booted' = nvs
      /\ rtc_set' \in BOOLEAN /\ e2p_read_date' \in BOOLEAN
      /\ UNCHANGED <<now, nvs, nvs_failed, card, rows>>
      /\ pc' = "idle" /\ Fpath' = NoFile /\ log_num' = 0 /\ unwritten' = 0
      /\ row' = 0 /\ leaked' = 0
      /\ moved' \in BOOLEAN
  BY Zenon DEF Restart, Reboot
<1>2. E2pTypeOK'
  BY <1>1 DEF LogTypeOK, E2pTypeOK
<1>3. LogTypeOK'
  BY <1>1, <1>2, LogFileAssumption DEF LogTypeOK
<1>4. DateSurvives' /\ DateKnown'
  BY <1>1 DEF DateSurvives, DateKnown
<1>5. FilesPast'
  <2> SUFFICES ASSUME ~ nvs_failed
               PROVE  nvs <= now /\ \A file \in Record : rows[file] # Absent => file <= nvs
    BY <1>1 DEF FilesPast
  <2> QED BY DEF DateSurvives, FilesPast
<1>6. NumberingStarts' /\ FileOfTheRecord' /\ NumberInFile'
  BY <1>1 DEF NumberingStarts, FileOfTheRecord, NumberInFile
<1> QED BY <1>3, <1>4, <1>5, <1>6

LEMMA LogInductive == LogSpec => []LogSafe
<1>1. LogSafe /\ [LogNext]_logVars => LogSafe'
  <2> SUFFICES ASSUME LogSafe, [LogNext]_logVars
               PROVE  LogSafe'
    OBVIOUS
  <2>1. CASE update_ram_data
    BY <2>1, UpdateTimeStep, NotNowStep, SaveRowStep, SaveLosesRowStep, SaveFailsStep,
       printHeaderStep DEF update_ram_data
  <2>2. CASE UNCHANGED logVars
    <3>1. /\ UNCHANGED <<e2pVars, e2p_date, ram_time, booted, now, nvs_failed>>
          /\ UNCHANGED <<card, rows, leaked, pc, Fpath, log_num, unwritten, row, moved>>
      BY <2>2 DEF logVars, fileVars, saveVars, readVars, e2pVars, clockVars, dateVars, flashVars
    <3>2. SafeExceptFiles'
      BY <3>1, DateStays DEF SafeExceptFiles, LogSafe, LogInv, LogTypeOK
    <3>3. LogTypeOK'
      BY <3>1, <3>2 DEF LogSafe, LogInv, LogTypeOK, SafeExceptFiles
    <3>4. FilesPast' /\ NumberingStarts' /\ FileOfTheRecord' /\ NumberInFile'
      BY <3>1 DEF LogSafe, LogInv, FilesPast, NumberingStarts, FileOfTheRecord, NumberInFile
    <3> QED BY <3>2, <3>3, <3>4 DEF LogSafe, LogInv, SafeExceptFiles
  <2> QED BY <2>1, <2>2, ReadBackStep, CardChangesStep, PassesStep, RestartStep DEF LogNext
<1> QED BY <1>1, InitLog, PTL DEF LogSpec

-----------------------------------------------------------------------------
\* Clock, flash, files and numbers of update_ram_data fit together at every step, whatever
\* the card, the flash and the power do.
THEOREM LogFitsTogether == LogSpec => []LogInv
<1>1. LogSafe => LogInv BY DEF LogSafe
<1> QED BY <1>1, LogInductive, PTL

\* SD_file_Save appends every record to the file of its day and quarter, for any number
\* of dates and any length of the year of more than one quarter.
THEOREM RecordsInTheirFiles == LogSpec => []FileOfTheRecord
<1>1. LogSafe => FileOfTheRecord BY DEF LogSafe
<1> QED BY <1>1, LogInductive, PTL

\* log_num is beyond the rows of its file by no more than the rows that SD_file_Save did not
\* write and did not notice, over changes of the date, restarts and failing cards, unless a
\* write to the flash has failed.
THEOREM NumbersInTheirFiles == LogSpec => []NumberInFile
<1>1. LogSafe => NumberInFile BY DEF LogSafe
<1> QED BY <1>1, LogInductive, PTL

-----------------------------------------------------------------------------
(***************************************************************************)
(* Read-back finds its rows.                                               *)
(***************************************************************************)
Undisturbed == ~ moved /\ unwritten = 0 /\ ~ nvs_failed

\* The row to read next is one of a complete block of the file, unless its rows may have
\* gone, a row is missing or the flash has failed.
BlockInFile ==
  row # 0 /\ Undisturbed =>
    Fpath # NoFile /\ \E k \in 1..rows[Fpath] : k % Block = 0 /\ row <= k

LEMMA SaveKeepsBlocks ==
  ASSUME LogSafe, BlockInFile, SaveRow \/ SaveLosesRow \/ SaveFails
  PROVE  BlockInFile'
<1>1. /\ UNCHANGED <<row, nvs_failed>> /\ Fpath' = e2p_date
      /\ moved' = (moved \/ (row # 0 /\ (Fpath' # Fpath \/ rows'[Fpath'] = 0
                                          \/ unwritten' < unwritten)))
  BY DEF SaveRow, SaveLosesRow, SaveFails, SetPath, MayMove, e2pVars, flashVars
<1>2. ASSUME row # 0, Undisturbed'
      PROVE  Fpath' # NoFile /\ \E k \in 1..rows'[Fpath'] : k % Block = 0 /\ row <= k
  <2>1. /\ Fpath = e2p_date /\ ~ moved /\ ~ nvs_failed
        /\ rows'[Fpath] # 0 /\ ~ (0 < unwritten) /\ unwritten' = 0
    BY <1>1, <1>2 DEF Undisturbed
  <2>2. unwritten = 0 /\ ~ SaveLosesRow
    BY <2>1, LogFileAssumption DEF SaveLosesRow, LogSafe, LogInv, LogTypeOK
  <2>3. Fpath # NoFile /\ \E k \in 1..rows[Fpath] : k % Block = 0 /\ row <= k
    BY <1>2, <2>1, <2>2 DEF BlockInFile, Undisturbed
  <2>4. PICK k \in 1..rows[Fpath] : k % Block = 0 /\ row <= k
    BY <2>3
  <2>5. Fpath \in Record /\ rows \in [Record -> {Absent} \cup 0..MaxRows]
    BY <2>3 DEF LogSafe, LogInv, LogTypeOK
  <2>6. rows[Fpath] \in 1..MaxRows /\ MaxRows \in Nat
    BY <2>4, <2>5, LogFileAssumption DEF Absent
  <2>7. rows'[Fpath] \in Int /\ rows'[Fpath] >= rows[Fpath]
    BY <2>1, <2>2, <2>5, <2>6 DEF SaveRow, SaveFails, CreateFile, UpToRows, Absent
  <2> QED BY <1>1, <2>1, <2>3, <2>4, <2>6, <2>7
<1> QED BY <1>1, <1>2 DEF BlockInFile

\* What is read lies in a complete block, and so does the row after it: it is there.
LEMMA ReadBackInBlock ==
  ASSUME LogSafe, BlockInFile, Get_Curr_sdData, Undisturbed
  PROVE  BlockInFile' /\ (leaked' > leaked => MayFail)
<1> USE LogFileAssumption DEF Undisturbed
<1>1. UNCHANGED <<Fpath, rows>> /\ leaked \in Int
  BY DEF Get_Curr_sdData, saveVars, LogSafe, LogInv, LogTypeOK
<1>2. ASSUME NEW n \in Nat, ReadOn(n), NEW k \in 1..rows[Fpath], k % Block = 0, n < k,
             Fpath # NoFile
      PROVE  BlockInFile' /\ (leaked' > leaked => MayFail)
  <2>1. rows[Fpath] \in Int
    BY <1>2 DEF LogSafe, LogInv, LogTypeOK, Absent
  <2>2. leaked' > leaked => MayFail
    BY <1>1, <1>2, <2>1 DEF ReadOn, read_sdcard
  <2>3. row' \in Nat /\ row' <= n + 1
    BY <1>2 DEF ReadOn
  <2>4. row' <= k
    BY <1>2, <2>1, <2>3
  <2> QED BY <1>1, <1>2, <2>2, <2>4 DEF BlockInFile
<1>3. CASE row = 0 /\ BlockStart # -1 /\ ReadOn(BlockStart % RowWidth)
  <2>1. log_num > 0 /\ log_num % Block = 0 /\ BlockStart = log_num - Block
    BY <1>3 DEF BlockStart
  <2>2. log_num \in 1..rows[Fpath] /\ Fpath # NoFile
    BY <2>1 DEF LogSafe, LogInv, LogTypeOK, NumberInFile, NumberingStarts, Absent
  <2>3. BlockStart \in Nat /\ BlockStart < log_num
    BY <2>1, <2>2
  <2>4. BlockStart % RowWidth \in Nat /\ BlockStart % RowWidth <= BlockStart
    BY <2>3
  <2> QED BY <1>2, <1>3, <2>1, <2>2, <2>3, <2>4
<1>4. CASE row >= 1 /\ row % Block # 0 /\ ReadOn(row)
  <2>1. row \in Nat
    BY DEF LogSafe, LogInv, LogTypeOK
  <2>2. PICK k \in 1..rows[Fpath] : k % Block = 0 /\ row <= k /\ Fpath # NoFile
    BY <1>4, <2>1 DEF BlockInFile
  <2>3. row < k
    BY <1>4, <2>1, <2>2
  <2> QED BY <1>2, <1>4, <2>1, <2>2, <2>3
<1>5. CASE row' = 0 /\ UNCHANGED leaked
  BY <1>1, <1>5 DEF BlockInFile
<1> QED BY <1>3, <1>4, <1>5 DEF Get_Curr_sdData

LEMMA BlockStep ==
  ASSUME LogSafe, BlockInFile, [LogNext]_logVars
  PROVE  BlockInFile'
<1> USE DEF BlockInFile, Undisturbed
<1>1. CASE SaveRow \/ SaveLosesRow \/ SaveFails
  BY <1>1, SaveKeepsBlocks
<1>2. CASE Get_Curr_sdData
  <2>1. CASE Undisturbed
    BY <1>2, <2>1, ReadBackInBlock
  <2>2. CASE ~ Undisturbed
    <3>1. UNCHANGED <<unwritten, nvs_failed>> /\ moved' = (moved /\ row' # 0)
      BY <1>2 DEF Get_Curr_sdData, saveVars, e2pVars, flashVars
    <3> QED BY <2>2, <3>1
  <2> QED BY <2>1, <2>2
<1>3. CASE UpdateTime
  <2>1. nvs_failed => nvs_failed'
    BY <1>3, FlashFollows DEF UpdateTime, LogSafe, LogInv
  <2> QED BY <1>3, <2>1 DEF UpdateTime, fileVars, readVars
<1>4. CASE printHeader
  <2>1. rows[Fpath] = 0 /\ UNCHANGED <<row, moved, unwritten, nvs_failed, Fpath>>
    BY <1>4 DEF printHeader, readVars, e2pVars, flashVars, LogSafe, LogInv, NumberingStarts
  <2> QED BY <2>1
<1>5. CASE NotNow \/ CardChanges \/ Passes \/ UNCHANGED logVars
  <2>1. UNCHANGED <<row, moved, unwritten, nvs_failed, Fpath, rows>>
    BY <1>5 DEF NotNow, CardChanges, Passes, TimePasses, logVars, fileVars, saveVars, readVars,
                e2pVars, flashVars
  <2> QED BY <2>1
<1>6. CASE Restart
  BY <1>6 DEF Restart
<1> QED BY <1>1, <1>2, <1>3, <1>4, <1>5, <1>6 DEF LogNext, update_ram_data

LEMMA LeakStep ==
  ASSUME LogSafe, BlockInFile, [LogNext]_logVars
  PROVE  [leaked' > leaked => MayFail \/ moved \/ unwritten > 0 \/ nvs_failed]_logVars
<1>1. leaked \in Nat /\ unwritten \in Nat
  BY LogFileAssumption DEF LogSafe, LogInv, LogTypeOK
<1>2. CASE Get_Curr_sdData
  <2>1. CASE Undisturbed
    BY <1>2, <2>1, ReadBackInBlock
  <2>2. CASE ~ Undisturbed
    BY <1>1, <2>2 DEF Undisturbed
  <2> QED BY <2>1, <2>2
<1>3. CASE update_ram_data \/ CardChanges \/ Passes \/ Restart
  <2>1. leaked' = leaked \/ leaked' = 0
    BY <1>3 DEF update_ram_data, UpdateTime, NotNow, SaveRow, SaveLosesRow, SaveFails, SetPath,
                printHeader, CardChanges, Passes, Restart, fileVars
  <2> QED BY <1>1, <2>1
<1> QED BY <1>2, <1>3 DEF LogNext

\* Get_Curr_sdData leaves a file open only when a read may fail, the rows that it reads back
\* may have gone, some were never written, or a write to the flash has failed: for any block,
\* any width of the row and any number of open files.
THEOREM LeaksHaveCauses == LogSpec => LeakHasCause
<1>1. LogInit => BlockInFile
  BY DEF LogInit, BlockInFile
<1>2. LogSafe /\ BlockInFile /\ [LogNext]_logVars => BlockInFile'
  BY BlockStep
<1>3. LogSafe /\ BlockInFile /\ [LogNext]_logVars
        => [leaked' > leaked => MayFail \/ moved \/ unwritten > 0 \/ nvs_failed]_logVars
  BY LeakStep
<1> QED BY <1>1, <1>2, <1>3, LogInductive, PTL DEF LogSpec, LeakHasCause

-----------------------------------------------------------------------------
(***************************************************************************)
(* The log is a book.                                                      *)
(***************************************************************************)
LEMMA InitBook ==
  ASSUME LogInit
  PROVE  Book!BookInit
BY DEF LogInit, E2pInit, MayFail, Book!BookInit

\* The clock and the date move, and the flash may fail for the first time.
LEMMA UpdateTimeInBook ==
  ASSUME LogSafe, UpdateTime
  PROVE  [Book!BookNext]_(Book!bookVars)
<1>1. UNCHANGED <<rows, log_num, card>> /\ nvs_failed \in BOOLEAN /\ nvs_failed' \in BOOLEAN
      /\ (nvs_failed => nvs_failed')
  BY UpdateTimeStep, FlashFollows DEF UpdateTime, fileVars, LogSafe, LogInv, LogTypeOK, E2pTypeOK
<1>2. CASE nvs_failed' = nvs_failed
  BY <1>1, <1>2 DEF Book!bookVars, MayFail
<1>3. CASE nvs_failed' = TRUE
  BY <1>1, <1>3 DEF Book!Damage, Book!BookNext, MayFail
<1> QED BY <1>1, <1>2, <1>3

\* The file of the log is the last page, as long as the flash keeps its date.
LEMMA LogMayWrite ==
  ASSUME LogSafe
  PROVE  Book!MayWrite(e2p_date)
BY DEF LogSafe, LogInv, FilesPast, Book!MayWrite

\* A save adds a row, misses one, begins the page, a second time only when the card is not
\* sound, or is refused.
LEMMA SaveInBook ==
  ASSUME LogSafe, SaveRow \/ SaveLosesRow \/ SaveFails
  PROVE  Book!BookNext
<1>1. /\ e2p_date \in Record /\ Book!MayWrite(e2p_date)
      /\ UNCHANGED <<nvs_failed, card>> /\ (MayFail)' = MayFail
  BY LogMayWrite DEF SaveRow, SaveLosesRow, SaveFails, SetPath, e2pVars, flashVars, LogSafe, LogInv,
                     LogTypeOK, E2pTypeOK, MayFail
<1>2. CASE SaveRow
  <2>1. Book!Add(e2p_date)
    BY <1>1, <1>2 DEF SaveRow, UpToRows, Book!Add, Book!OneMore
  <2> QED BY <1>1, <2>1 DEF Book!BookNext
<1>3. CASE SaveLosesRow
  BY <1>1, <1>3 DEF SaveLosesRow, UpToRows, Book!Miss, Book!OneMore, Book!BookNext
<1>4. CASE SaveFails /\ rows' = [rows EXCEPT ![e2p_date] = 0] /\ HandleLeft
  <2>1. Book!Begin(e2p_date)
    BY <1>1, <1>4 DEF SaveFails, Book!Begin
  <2> QED BY <1>1, <2>1 DEF Book!BookNext
<1>5. CASE SaveFails /\ UNCHANGED rows
  BY <1>1, <1>5 DEF SaveFails, Book!Refuse, Book!BookNext
<1> QED BY <1>2, <1>3, <1>4, <1>5 DEF SaveFails, CreateFile

\* The header is the first row of the page that was just begun.
LEMMA HeaderInBook ==
  ASSUME LogSafe, printHeader
  PROVE  [Book!BookNext]_(Book!bookVars)
<1>1. /\ Fpath = e2p_date /\ rows[Fpath] = 0 /\ log_num = 0
      /\ Fpath \in Record /\ Book!MayWrite(Fpath)
      /\ UNCHANGED <<nvs_failed, log_num>> /\ (MayFail)' = MayFail
  BY LogMayWrite DEF printHeader, NumberingStarts, e2pVars, flashVars, LogSafe, LogInv, LogTypeOK,
                     E2pTypeOK, MayFail
<1>2. CASE rows' = rows
  BY <1>1, <1>2 DEF Book!bookVars
<1>3. CASE rows' = [rows EXCEPT ![Fpath] = 1]
  <2>1. Book!Head(Fpath)
    BY <1>1, <1>3 DEF Book!Head
  <2> QED BY <1>1, <2>1 DEF Book!BookNext
<1> QED BY <1>2, <1>3 DEF printHeader

LEMMA BookStep ==
  ASSUME LogSafe, [LogNext]_logVars
  PROVE  [Book!BookNext]_(Book!bookVars)
<1>1. CASE NotNow \/ Get_Curr_sdData \/ Passes \/ UNCHANGED logVars
  <2>1. UNCHANGED <<rows, log_num, nvs_failed, card>>
    BY <1>1 DEF NotNow, Get_Curr_sdData, Passes, TimePasses, logVars, fileVars, saveVars, e2pVars,
                flashVars
  <2> QED BY <2>1 DEF Book!bookVars, MayFail
<1>2. CASE Restart
  BY <1>2 DEF Restart, Reboot, flashVars, MayFail, Book!Refuse, Book!BookNext
<1>3. CASE CardChanges
  <2>1. UNCHANGED <<rows, log_num, nvs_failed>> /\ (MayFail)' = ~ MayFail
    BY <1>3 DEF CardChanges, fileVars, saveVars, e2pVars, flashVars, MayFail, LogSafe, LogInv,
                LogTypeOK
  <2> QED BY <2>1 DEF Book!CardChanges, Book!BookNext
<1> QED BY <1>1, <1>2, <1>3, UpdateTimeInBook, SaveInBook, HeaderInBook DEF LogNext, update_ram_data

\* What update_ram_data and SD_file_Save do to the files is what LogBook allows, over changes
\* of the date, restarts, failing saves and failing cards: no row is taken back, written anew
\* or missed while the card does what it is told.
THEOREM LogIsBook == LogSpec => IsLogBook
<1>1. LogInit => Book!BookInit
  BY InitBook
<1>2. LogSafe /\ [LogNext]_logVars => [Book!BookNext]_(Book!bookVars)
  BY BookStep
<1> QED BY <1>1, <1>2, LogInductive, PTL DEF LogSpec, IsLogBook, Book!BookSpec
=============================================================================
