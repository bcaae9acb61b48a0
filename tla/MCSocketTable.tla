--------------------------- MODULE MCSocketTable ---------------------------
EXTENDS SocketTable

\* Everything works, or no connection can be set up.
WorksOrFails ==
    {[txRoom |-> 4, fault |-> "noMemory"], [txRoom |-> 0, fault |-> "notSent"]}

Datagram == {"DGRAM"}

============================================================================
