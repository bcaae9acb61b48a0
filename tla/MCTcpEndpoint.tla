--------------------------- MODULE MCTcpEndpoint ---------------------------
(***************************************************************************)
(* Values of the constants of TcpEndpoint for the TLC runs.                *)
(***************************************************************************)
EXTENDS TcpEndpoint

AllFlags == {{"ACK"}, {"SYN"}, {"SYN", "ACK"}, {"FIN", "ACK"}, {"RST"},
             {"RST", "ACK"}, {}}

DataFlags == {{"ACK"}, {"FIN", "ACK"}}

OrderlyFlags == {{"ACK"}, {"FIN", "ACK"}, {"SYN", "ACK"}}

CloseFlags == {{"ACK"}, {"FIN", "ACK"}, {"SYN", "ACK"}, {"RST", "ACK"}}

Numbered == [k \in SeqNum |-> k % Cardinality(Byte)]

NoFault == {[txRoom |-> 8, fault |-> "noMemory"]}

AnyFault ==
    NoFault \cup {[txRoom |-> 0, fault |-> "notSent"],
                  [txRoom |-> 0, fault |-> "noBuffer"]}

NoFlags == {{}}

WaitAll == {{}, {"WAIT_ALL"}}

NagleOrWait == {{}, {"NO_DELAY"}, {"DELAY"}, {"WAIT_ACK"}}

ShutdownBoth == {{"SD_SEND", "SD_RECEIVE"}}

ShutdownAny == {{"SD_SEND"}, {"SD_RECEIVE"}, {"SD_SEND", "SD_RECEIVE"}}
============================================================================
