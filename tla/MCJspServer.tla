----------------------------- MODULE MCJspServer ------------------------------
(***************************************************************************)
(* JspServer for TLC: as it is ("order"), and with fewer bytes and a client *)
(* that stays ("delivery"), for the properties about what must arrive.     *)
(***************************************************************************)
EXTENDS JspServer

CONSTANTS
    MaxBytes,     \* bound on the bytes of both directions together
    MaxDelivered  \* bound on the bytes of one direction in "delivery"

VARIABLE setting

mcvars == <<setting, vars>>

MCInit == Init /\ setting \in {"order", "delivery"}

MCNext ==
    /\ Next
    /\ setting' = setting
    /\ sent' + written' <= MaxBytes
    /\ setting = "delivery" =>
           /\ sent' <= MaxDelivered /\ written' <= MaxDelivered
           /\ client' # "gone"

\* JspServer's JspFairness where it is asked what arrives.
Delivering(A) == setting = "delivery" /\ A

MCFairness ==
    /\ WF_vars(Delivering(ServerStep))
    /\ WF_vars(Delivering(CpuReads))
    /\ WF_vars(Delivering(ClientReads))

MCSpec == MCInit /\ [][MCNext]_mcvars /\ MCFairness

-----------------------------------------------------------------------------
\* As soon as the target runs for good, bytes of the client arrive although
\* transactions fail, and bytes of the program if none does
\* (jsp_server, jsp_hardware_transact).
BytesArrive == setting = "delivery" => InputArrives /\ OutputArrives

=============================================================================
