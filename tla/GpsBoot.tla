------------------------------ MODULE GpsBoot ------------------------------
(***************************************************************************)
(* gps/gps_config.c over gps/gps_i2c.c: the boot configuration of the      *)
(* receiver.  A request is written, and the output of the receiver polled  *)
(* for the answer until a timeout.                                         *)
(*                                                                         *)
(* The receiver answers a request at any later time or never, and may      *)
(* restart until the boot is over; of the processor's own resets there is  *)
(* what an earlier boot has left in the receiver.                          *)
(***************************************************************************)
EXTENDS Integers, Sequences, SequencesExt

CONSTANTS
    ProbeLimit,     \* GPS_PROBE_RETRY_LIMIT
    CfgLimit,       \* GPS_CFG_RETRY_LIMIT
    MaxRestarts     \* bound: restarts of the receiver

ASSUME BootAssumption ==
    {ProbeLimit, CfgLimit} \subseteq Nat \ {0} /\ MaxRestarts \in Nat

VARIABLES
    awake,      \* the receiver answers on its I2C port
    configured, \* it has the baud rate, and with it the rest of the batch
    requests,   \* requests it has not answered yet
    ddc,        \* its output stream: the answers not read yet; none once nobody reads it
    restarts,   \* restarts so far
    boot,       \* where gps_task is: see Stages
    waiting,    \* in the poll loop of send_and_wait
    attempt,    \* attempt
    fault       \* SYS_EVT_GPS_FAULT

receiverVars == <<awake, configured, requests, ddc, restarts>>
bootVars == <<receiverVars, boot, waiting, attempt, fault>>

Stages == {"probe", "valset", "verify", "stream"}

BootInit ==
    /\ awake \in BOOLEAN /\ configured \in {FALSE, awake}
    /\ ddc \in IF configured THEN {<<>>, <<"ack">>, <<"match">>} ELSE {<<>>}
    /\ requests = <<>> /\ restarts = 0
    /\ boot = "probe" /\ waiting = FALSE /\ attempt = 0 /\ fault = FALSE

-----------------------------------------------------------------------------
(* gps_task.                                                               *)

\* The end of gps_config_run_boot_sequence; gps_task goes on in any case.  A VALSET
\* not answered yet has its effect or has none.
Finish(ok) ==
    /\ boot' = "stream" /\ fault' = ~ok /\ attempt' = 0 /\ waiting' = FALSE
    /\ requests' = <<>> /\ ddc' = <<>>
    /\ configured' \in {configured, configured \/ \E i \in DOMAIN requests : requests[i] = "valset"}
    /\ UNCHANGED <<awake, restarts>>

\* send_and_wait without the answer it wants.
Fails ==
    LET limit == CASE boot = "probe" -> ProbeLimit [] boot = "valset" -> CfgLimit [] OTHER -> 1
    IN IF attempt + 1 < limit
       THEN attempt' = attempt + 1 /\ waiting' = FALSE /\ UNCHANGED <<receiverVars, boot, fault>>
       ELSE Finish(FALSE)

\* gps_i2c_write, not acknowledged: send_and_wait returns at once.
WriteRefused ==
    /\ boot # "stream" /\ ~waiting
    /\ Fails

Write ==
    /\ boot # "stream" /\ ~waiting /\ awake
    /\ requests' = Append(requests, boot)
    /\ waiting' = TRUE
    /\ UNCHANGED <<awake, configured, ddc, restarts, boot, attempt, fault>>

\* The answers that end the wait.
Wanted ==
    CASE boot = "probe" -> {"version"}
      [] boot = "valset" -> {"ack"}
      [] boot = "verify" -> {"match", "differ"}

\* As Verified, trusting the acknowledgement.
Verified_AckTrusted(answer) == TRUE

\* verify_u4: what the receiver reads back is what was set.
Verified(answer) == answer = "match"

\* gps_i2c_read and the parser: some of the stream is read, the first answer that
\* is wanted ends the wait, and what was read behind it is gone.
Poll ==
    /\ waiting /\ awake /\ ddc # <<>>
    /\ \E n \in 1 .. Len(ddc) :
         LET found == {i \in 1 .. n : ddc[i] \in Wanted}
         IN IF found # {} /\ boot = "verify" THEN Finish(Verified(ddc[Min(found)]))
            ELSE /\ ddc' = SubSeq(ddc, n + 1, Len(ddc))
                 /\ IF found = {} THEN UNCHANGED <<boot, waiting, attempt>>
                    ELSE /\ waiting' = FALSE /\ attempt' = 0
                         /\ boot' = IF boot = "probe" THEN "valset" ELSE "verify"
                 /\ UNCHANGED <<awake, configured, requests, restarts, fault>>

\* The timeout, or a read that fails.
GiveUp ==
    /\ waiting
    /\ Fails

BootStep == WriteRefused \/ Write \/ Poll \/ GiveUp

-----------------------------------------------------------------------------
(* The receiver.                                                           *)

Wakes ==
    /\ ~awake /\ awake' = TRUE
    /\ UNCHANGED <<configured, requests, ddc, restarts, boot, waiting, attempt, fault>>

\* A VALSET may be refused, or acknowledged without its keys having their effect.
Answer ==
    /\ awake /\ requests # <<>>
    /\ requests' = Tail(requests)
    /\ \E answer \in CASE Head(requests) = "probe" -> {"version"}
                       [] Head(requests) = "valset" -> {"ack", "nak"}
                       [] Head(requests) = "verify" ->
                            {IF configured THEN "match" ELSE "differ"} :
         /\ ddc' = Append(ddc, answer)
         /\ configured' \in {configured, configured \/ answer = "ack"}
    /\ UNCHANGED <<awake, restarts, boot, waiting, attempt, fault>>

\* Its RAM layer and its output are gone.
Restarts ==
    /\ boot # "stream" /\ restarts < MaxRestarts /\ restarts' = restarts + 1
    /\ awake' = FALSE /\ configured' = FALSE
    /\ requests' = <<>> /\ ddc' = <<>>
    /\ UNCHANGED <<boot, waiting, attempt, fault>>

ReceiverStep == Wakes \/ Answer \/ Restarts

-----------------------------------------------------------------------------

\* GPS_FAULT not published at the end of the boot means that the receiver has taken
\* the configuration: no late answer, answer of an earlier boot or ineffective
\* VALSET passes for it.
NoFaultIsConfigured == boot = "stream" /\ ~fault => configured

=============================================================================
