----------------------------- MODULE MCComments -----------------------------
(***************************************************************************)
(* A witness of the states in which what a comment says is not so: one     *)
(* behaviour of WebComm that refutes six of them, in the order below.      *)
(***************************************************************************)
EXTENDS WebComm, Sequences

VARIABLES
  refuted,    \* how many of the statements have been untrue, one after the other
  calls,      \* calls of modem_initAT in the current attempt of a command
  sys_gga     \* system status bit SYS_GGA

watchVars == <<vars, refuted, calls, sys_gga>>

Statement == <<"AttemptInTime", "SimBitAgrees", "GprsDateAgrees", "GgaBitAgrees",
               "GgaFromStart", "UploadModemQuiet">>

\* The statement whose turn it is.
Due(s) == refuted < Len(Statement) /\ Statement[refuted + 1] = s

\* GPRS_AT_TIMEOUT is 30 s worth of calls (comment in gprs.h): an attempt is the
\* sending call and the AtTimeout + 1 polls it is allowed.
AttemptInTime == at_cmd = "AT" => calls < AtTimeout + 2

\* The attempt ends with an answer or is counted as failed.
AttemptOver == at_retry' # at_retry \/ at_cmd' # at_cmd \/ at_sts' \in {"CON_OK", "CON_FAIL"}

DueUntrue ==
  \/ Due("AttemptInTime") /\ ~ AttemptInTime
  \/ Due("SimBitAgrees") /\ ~ SimBitAgrees
  \/ Due("GprsDateAgrees") /\ ~ GprsDateAgrees
  \/ Due("GgaFromStart") /\ ~ GgaFromStart
  \/ Due("UploadModemQuiet") /\ ~ UploadModemQuiet

\* A step of the system.  Every call of modem_initAT changes its place; the calls are
\* counted while an attempt is watched.
System ==
  /\ Next
  /\ calls' = IF ~ Due("AttemptInTime") \/ AttemptOver THEN 0
              ELSE IF atVars' = atVars THEN calls ELSE calls + 1
  /\ UNCHANGED <<refuted, sys_gga>>

\* check_system_status, in the one-second task.  The table in error.h says of SYS_GGA
\* "1: GGA not avbl, 0: GGA avbl".
check_system_status ==
  /\ Due("GgaBitAgrees")
  /\ sys_gga' = gga_sts
  /\ refuted' = IF sys_gga' = ~ gga_sts THEN refuted ELSE refuted + 1
  /\ UNCHANGED <<vars, calls>>

Watch ==
  /\ DueUntrue /\ refuted' = refuted + 1
  /\ UNCHANGED <<vars, calls, sys_gga>>

WatchInit == Init /\ refuted = 0 /\ calls = 0 /\ sys_gga = FALSE

WatchNext ==
  IF DueUntrue THEN Watch ELSE System \/ check_system_status

WatchSpec == WatchInit /\ [][WatchNext]_watchVars

\* Of two comments in gps.cpp, one in gprs.h and three rows of the table in error.h, at
\* least one is always true.
CommentsHold == refuted < Len(Statement)
=============================================================================
