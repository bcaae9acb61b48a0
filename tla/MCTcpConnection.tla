-------------------------- MODULE MCTcpConnection --------------------------
(***************************************************************************)
(* Values of the constants of TcpConnection for the TLC run.               *)
(***************************************************************************)
EXTENDS TcpConnection

OwnIss == [p \in Peer |-> IF p = "client" THEN SeqSpace - 2 ELSE 4]

Numbered == [p \in Peer |-> [k \in SeqNum |-> k % Cardinality(Byte)]]

ClientWrites == [p \in Peer |-> IF p = "client" THEN 2 ELSE 0]

OneOrBothActive == {{"client"}, Peer}

OneWay ==
    [p \in Peer |-> IF p = "client" THEN {"send", "shutdown"}
                    ELSE {"receive", "shutdown"}]

PlainOrWait == {{}, {"WAIT_ACK"}}

ShutdownSendOnly == {{"SD_SEND"}}
============================================================================
