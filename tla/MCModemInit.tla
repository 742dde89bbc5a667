---------------------------- MODULE MCModemInit ----------------------------
(***************************************************************************)
(* ModemInit on its own: one caller calls modem_initAT again and again.    *)
(* "calls" counts its calls in the current attempt of a command.           *)
(***************************************************************************)
EXTENDS ModemInit

VARIABLE calls

mcVars == <<atVars, calls>>

\* The attempt ends with an answer or is counted as failed.
AttemptOver == at_retry' # at_retry \/ at_cmd' # at_cmd \/ at_sts' \in {"CON_OK", "CON_FAIL"}

MCInit == AtInit /\ calls = 0

MCCall(reply) ==
  /\ modem_initAT(reply)
  /\ calls' = IF AttemptOver THEN 0 ELSE calls + 1

MCNext == \E reply \in Reply : MCCall(reply)

MCSpec == MCInit /\ [][MCNext]_mcVars /\ WF_mcVars(MCNext)

\* An attempt of AT ends after at most 2 * (AtTimeout + 1) calls, one of ATE0 after
\* RspTimeout + 2: "AT" is sent again after every empty poll, "ATE0" is not.
AttemptEnds ==
  calls < IF at_cmd = "AT" THEN 2 * (AtTimeout + 1) ELSE RspTimeout + 2

\* Whatever the modem answers, the caller hears again and again that the modem is
\* ready, or that it is not.
Concludes == []<>(at_sts \in {"CON_OK", "CON_FAIL"})
=============================================================================
