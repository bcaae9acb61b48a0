----------------------------- MODULE ByteStream -----------------------------
(***************************************************************************)
(* What a TCP connection promises to the two users at its ends: in each    *)
(* direction the bytes one of them has written are read by the other, in   *)
(* order, without gaps or repetitions, and the end of the stream is        *)
(* reported only after the last of them.  A connection may break: then     *)
(* nothing more happens.                                                   *)
(***************************************************************************)
EXTENDS Integers, Sequences

CONSTANTS
    Byte,     \* values of a byte
    Lost,     \* what the user is given for a byte that is no longer there
    MaxChunk  \* most bytes one call writes

VARIABLES
    wrote,  \* wrote[p]: the bytes accepted from the user at end p
    ended,  \* ended[p]: the user at end p will write no more
    read,   \* read[p]: the bytes given to the user at end p
    eof     \* eof[p]: the user at end p has been told of the end

streamVars == <<wrote, ended, read, eof>>

Peer == {"client", "server"}

Other(p) == IF p = "client" THEN "server" ELSE "client"

StreamInit ==
    /\ wrote = [p \in Peer |-> <<>>]
    /\ ended = [p \in Peer |-> FALSE]
    /\ read = [p \in Peer |-> <<>>]
    /\ eof = [p \in Peer |-> FALSE]

Write(p) ==
    /\ ~ended[p]
    /\ \E n \in 1 .. MaxChunk : \E data \in [1 .. n -> Byte] :
        wrote' = [wrote EXCEPT ![p] = @ \o data]
    /\ UNCHANGED <<ended, read, eof>>

End(p) ==
    /\ ~ended[p]
    /\ ended' = [ended EXCEPT ![p] = TRUE]
    /\ UNCHANGED <<wrote, read, eof>>

\* The next bytes of the other end's stream, or as many that are lost
Read(p) ==
    LET stream == wrote[Other(p)]
        k      == Len(read[p])
    IN  /\ ~eof[p]
        /\ \E n \in 1 .. Len(stream) - k :
            \E data \in {SubSeq(stream, k + 1, k + n), [i \in 1 .. n |-> Lost]} :
                read' = [read EXCEPT ![p] = @ \o data]
        /\ UNCHANGED <<wrote, ended, eof>>

ReadEnd(p) ==
    /\ ended[Other(p)]
    /\ Len(read[p]) = Len(wrote[Other(p)])
    /\ eof' = [eof EXCEPT ![p] = TRUE]
    /\ UNCHANGED <<wrote, ended, read>>

StreamNext == \E p \in Peer : Write(p) \/ End(p) \/ Read(p) \/ ReadEnd(p)

StreamSpec == StreamInit /\ [][StreamNext]_streamVars

============================================================================
