---------------------------- MODULE TcpContract ----------------------------
(***************************************************************************)
(* What the SPARK contracts promise about a TCP socket: the part of its    *)
(* state that the contracts call its Model, and how each operation may     *)
(* change it (tcp_fsm_binding.ads, tcp_timer_interface.ads,                *)
(* tcp_interface.ads and the precondition of Tcp_Change_State).            *)
(***************************************************************************)
VARIABLES
    type,       \* S_Type: UNUSED or STREAM
    state,      \* State
    resetFlag,  \* reset_Flag
    ownedFlag   \* owned_Flag

model == <<type, state, resetFlag, ownedFlag>>

Init ==
    type = "UNUSED" /\ state = "CLOSED" /\ resetFlag = FALSE /\ ownedFlag = FALSE

----------------------------------------------------------------------------
\* Contract cases of Tcp_Process_One_Segment, resets aside
SegmentTarget(st) ==
    CASE st = "SYN_SENT" -> {"ESTABLISHED", "SYN_RECEIVED"}
      [] st = "SYN_RECEIVED" -> {"ESTABLISHED", "CLOSE_WAIT"}
      [] st = "ESTABLISHED" -> {"CLOSE_WAIT"}
      [] st = "FIN_WAIT_1" -> {"FIN_WAIT_2", "TIME_WAIT", "CLOSING"}
      [] st = "FIN_WAIT_2" -> {"TIME_WAIT"}
      [] st = "CLOSING" -> {"TIME_WAIT"}
      [] OTHER -> {}

ProcessOneSegment ==
    /\ type = "STREAM"
    /\ state' \in SegmentTarget(state)
    /\ UNCHANGED <<type, resetFlag, ownedFlag>>

\* A reset, an exhausted retry count or the last acknowledgment ends the
\* connection.  LAST-ACK and TIME-WAIT end without the reset flag.
ConnectionEnds ==
    /\ type = "STREAM" /\ state \notin {"CLOSED", "LISTEN"}
    /\ state' = "CLOSED"
    /\ resetFlag' = (resetFlag \/ state \notin {"LAST_ACK", "TIME_WAIT"})
    /\ UNCHANGED <<type, ownedFlag>>

\* In TIME-WAIT, nobody owns the socket: it goes back to the table.
Tcp_Tick ==
    /\ type = "STREAM" /\ state = "TIME_WAIT" /\ ~ownedFlag
    /\ type' = "UNUSED" /\ state' = "CLOSED"
    /\ UNCHANGED <<resetFlag, ownedFlag>>

Socket_Open ==
    /\ type = "UNUSED"
    /\ type' = "STREAM" /\ state' = "CLOSED"
    /\ resetFlag' = FALSE /\ ownedFlag' = FALSE

\* Tcp_Connect and Tcp_Accept make the user the owner, even when they fail
\* to send the first segment.
Tcp_Connect ==
    /\ type = "STREAM" /\ state = "CLOSED"
    /\ state' \in {"CLOSED", "SYN_SENT"}
    /\ ownedFlag' = TRUE
    /\ UNCHANGED <<type, resetFlag>>

Tcp_Accept ==
    /\ type = "STREAM" /\ state = "CLOSED"
    /\ ownedFlag' = TRUE
    /\ \/ state' = "SYN_RECEIVED" /\ UNCHANGED <<type, resetFlag>>
       \/ state' = "CLOSED" /\ type' = "UNUSED" /\ resetFlag' = TRUE

Tcp_Shutdown ==
    /\ type = "STREAM"
    /\ \/ state = "ESTABLISHED" /\ state' = "FIN_WAIT_1"
       \/ state = "CLOSE_WAIT" /\ state' = "LAST_ACK"
    /\ UNCHANGED <<type, resetFlag, ownedFlag>>

Tcp_Abort ==
    /\ type = "STREAM"
    /\ IF state = "TIME_WAIT"
       THEN ownedFlag' = FALSE /\ UNCHANGED <<type, state, resetFlag>>
       ELSE /\ type' = "UNUSED" /\ state' = "CLOSED"
            /\ resetFlag' = (resetFlag \/ state # "LAST_ACK")
            /\ UNCHANGED ownedFlag

Next ==
    \/ ProcessOneSegment \/ ConnectionEnds \/ Tcp_Tick
    \/ Socket_Open \/ Tcp_Connect \/ Tcp_Accept \/ Tcp_Shutdown \/ Tcp_Abort

Spec == Init /\ [][Next]_model
============================================================================
