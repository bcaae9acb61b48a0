----------------------------- MODULE TcpLemmas -----------------------------
(***************************************************************************)
(* What the operators of the stack do to the part of a socket that the     *)
(* SPARK contracts describe (type, state, reset flag, owner) and to the    *)
(* retransmission timer.  Every lemma holds for any socket record, of any  *)
(* size and with any contents of its other fields.  The second part is     *)
(* about whole critical sections: one lemma for each state of the finite   *)
(* state machine, for the timer handler and for each socket operation; the *)
(* last part about the events they raise.                                  *)
(***************************************************************************)
EXTENDS TcpInterface, NumberLemmas, TLAPS

\* The numbers the send window is computed from are numbers.
Numeric(s) ==
    /\ s.sndUser \in Nat /\ s.txRoom \in Nat
    /\ s.sndUna \in Int /\ s.sndNxt \in Int /\ s.sndWnd \in Int
    /\ s.cwnd \in Int /\ s.ssthresh \in Int /\ s.n \in Int

\* A record with the fields of a socket
IsSock(s) ==
    /\ DOMAIN s = SockField
    /\ s.resetFlag \in BOOLEAN /\ s.closedFlag \in BOOLEAN
    /\ Numeric(s)

\* A segment carries numbers, too.
IsSeg(seg) == seg.ackNum \in Int /\ seg.window \in Int

\* The retransmission timer runs if something is queued.
Armed(s) == s.retransmitQueue # <<>> => s.retransmitTimer

\* s turns into t, and only its state may have changed
Shift(s, t, newState) ==
    /\ IsSock(t)
    /\ t.type = s.type /\ t.state = newState
    /\ t.resetFlag = s.resetFlag /\ t.closedFlag = s.closedFlag
    /\ t.ownedFlag = s.ownedFlag
    /\ Armed(s) => Armed(t)

Steady(s, t) == Shift(s, t, s.state)

\* The connection of s has ended in t.
Ends(s, t) ==
    /\ IsSock(t)
    /\ t.type = s.type /\ t.state = "CLOSED" /\ t.ownedFlag = s.ownedFlag
    /\ t.resetFlag = (s.resetFlag \/ s.state \notin {"LAST_ACK", "TIME_WAIT"})
    /\ t.closedFlag = (s.closedFlag \/ s.state \in {"LAST_ACK", "TIME_WAIT"})

\* The slot owns no memory.
Released(s) ==
    /\ s.retransmitQueue = <<>> /\ s.synQueue = <<>>
    /\ ~s.txAlloc /\ ~s.rxAlloc

\* The connection of s has ended and t is the slot, given back.
GivenBack(s, t) ==
    /\ IsSock(t)
    /\ t.type = "UNUSED" /\ t.state = "CLOSED" /\ t.ownedFlag = s.ownedFlag
    /\ t.resetFlag = (s.resetFlag \/ s.state \notin {"LAST_ACK", "TIME_WAIT"})
    /\ t.closedFlag = (s.closedFlag \/ s.state \in {"LAST_ACK", "TIME_WAIT"})
    /\ Released(t)

----------------------------------------------------------------------------
\* Steps that leave the contracted part alone compose.
LEMMA SteadyThen ==
    ASSUME NEW s, NEW t, NEW u, NEW newState,
           Steady(s, t), Shift(t, u, newState)
    PROVE  Shift(s, u, newState)
BY DEF Steady, Shift

\* A change of state followed by a steady step is the same change of state.
LEMMA ThenSteady ==
    ASSUME NEW s, NEW t, NEW u, NEW newState,
           Shift(s, t, newState), Steady(t, u)
    PROVE  Shift(s, u, newState)
BY DEF Steady, Shift

\* Doing nothing is a steady step.
LEMMA SteadySelf ==
    ASSUME NEW s, IsSock(s)
    PROVE  Steady(s, s)
BY DEF Steady, Shift

\* A connection that ends after a steady step ends from where it started.
LEMMA SteadyEnds ==
    ASSUME NEW s, NEW t, NEW u, Steady(s, t), Ends(t, u)
    PROVE  Ends(s, u)
BY DEF Steady, Shift, Ends

\* Assignments to fields other than those of the contracts and of the
\* retransmission queue
LEMMA OtherField ==
    ASSUME NEW s, IsSock(s), NEW v,
           NEW f \in SockField \
                   {"type", "state", "resetFlag", "closedFlag", "ownedFlag",
                    "retransmitQueue", "retransmitTimer", "txRoom", "n",
                    "sndUser", "sndUna", "sndNxt", "sndWnd", "cwnd", "ssthresh"}
    PROVE  Steady(s, [s EXCEPT ![f] = v])
BY DEF IsSock, SockField, Steady, Shift, Armed, Numeric

----------------------------------------------------------------------------
(* Events and state *)

\* tcpUpdateEvents only touches the events.
LEMMA UpdateEvents ==
    ASSUME NEW s, IsSock(s)
    PROVE  Steady(s, tcpUpdateEvents(s))
BY DEF IsSock, SockField, Steady, Shift, Armed, Numeric, tcpUpdateEvents

\* Beginning a wait only touches the events.
LEMMA WaitForEvents ==
    ASSUME NEW s, IsSock(s), NEW mask
    PROVE  Steady(s, tcpWaitForEvents(s, mask))
<1> DEFINE m == [s EXCEPT !.eventMask = mask]
           u == tcpUpdateEvents(m)
           r == [u EXCEPT !.event = FALSE]
<1>1. Steady(s, m)
      BY DEF IsSock, SockField, Steady, Shift, Armed, Numeric
<1>2. Steady(m, u)
      BY <1>1, UpdateEvents DEF Steady, Shift
<1>3. Steady(s, u)
      BY <1>1, <1>2, SteadyThen DEF Steady, Shift
<1> HIDE DEF m, u
<1>4. Steady(u, r)
      BY <1>3 DEF IsSock, SockField, Steady, Shift, Armed, Numeric
<1>5. Steady(s, r)
      BY <1>3, <1>4 DEF Steady, Shift
<1> QED BY <1>3, <1>5 DEF tcpWaitForEvents, u, m

\* tcpChangeState is a change of state; to CLOSED it ends the connection
\* with the reset flag the state that is left calls for.
LEMMA ChangeState ==
    ASSUME NEW s, IsSock(s), NEW newState
    PROVE  /\ newState # "CLOSED" =>
                Shift(s, tcpChangeState(s, newState), newState)
           /\ Ends(s, tcpChangeState(s, "CLOSED"))
<1> DEFINE orderly == s.state \in {"LAST_ACK", "TIME_WAIT"}
           c(st) == [s EXCEPT !.state = st,
                      !.closedFlag = @ \/ (st = "CLOSED" /\ orderly),
                      !.resetFlag = @ \/ (st = "CLOSED" /\ ~orderly)]
<1>1. ASSUME newState # "CLOSED" PROVE Shift(s, c(newState), newState)
      BY <1>1 DEF IsSock, SockField, Shift, Armed, Numeric
<1>2. Ends(s, c("CLOSED"))
      BY DEF IsSock, SockField, Ends, Numeric
<1>3. ASSUME NEW st PROVE tcpChangeState(s, st) = tcpUpdateEvents(c(st))
      BY DEF tcpChangeState
<1> HIDE DEF c
<1>4. ASSUME newState # "CLOSED"
      PROVE  Shift(s, tcpChangeState(s, newState), newState)
      BY <1>1, <1>3, <1>4, UpdateEvents, ThenSteady DEF Shift
<1>5. Steady(c("CLOSED"), tcpUpdateEvents(c("CLOSED")))
      BY <1>2, UpdateEvents DEF Ends
<1>6. Ends(s, tcpChangeState(s, "CLOSED"))
      BY <1>2, <1>3, <1>5 DEF Ends, Steady, Shift
<1> QED BY <1>4, <1>6

----------------------------------------------------------------------------
(* Sending *)

\* The arithmetic of the stack stays within the integers.
LEMMA SeqIntegral ==
    ASSUME NEW a \in Int, NEW b \in Int
    PROVE  SeqAdd(a, b) \in Int /\ SeqSub(a, b) \in Int
<1>1. SeqSpace \in Nat \ {0}
      BY SizeAssumption
<1>2. a + b \in Int /\ a - b \in Int
      OBVIOUS
<1> QED BY <1>1, <1>2, ModRange DEF SeqAdd, SeqSub

\* So do 16-bit numbers,
LEMMA U16Integral ==
    ASSUME NEW a \in Int
    PROVE  U16(a) \in Nat
BY DEF U16, U16Max

\* and the smaller and the greater of two numbers.
LEMMA MinMaxIntegral ==
    ASSUME NEW a \in Int, NEW b \in Int
    PROVE  MinOf(a, b) \in Int /\ MaxOf(a, b) \in Int
BY DEF MinOf, MaxOf

\* A queued segment starts the timer; a segment that is not queued, or that
\* could not be allocated, changes neither the queue nor the timer.
LEMMA RunSent ==
    ASSUME NEW s, IsSock(s), NEW items, NEW add
    PROVE  Steady(s, SendRun(s, items, add))
<1> DEFINE sent   == IF Len(items) \in 0 .. s.txRoom THEN Len(items) ELSE s.txRoom
           failed == sent < Len(items)
           stays  == IF failed /\ s.fault = "notSent" THEN sent + 1 ELSE sent
           queued == IF add THEN SubSeq(items, 1, stays) ELSE <<>>
           t      == SendRun(s, items, add)
<1>1. DOMAIN t = SockField
      BY DEF IsSock, SendRun
<1>2. t.retransmitQueue = s.retransmitQueue \o queued
      BY DEF IsSock, SockField, SendRun
<1>3. t.retransmitTimer = (s.retransmitTimer \/ queued # <<>>)
      BY DEF IsSock, SockField, SendRun
<1>4. /\ t.type = s.type /\ t.state = s.state
      /\ t.resetFlag = s.resetFlag /\ t.closedFlag = s.closedFlag
      /\ t.ownedFlag = s.ownedFlag
      BY DEF IsSock, SockField, SendRun
<1>5. <<>> \o <<>> = <<>>
      OBVIOUS
<1>6. /\ t.txRoom = s.txRoom - sent /\ t.n \in {0, s.n}
      /\ t.sndUser = s.sndUser /\ t.sndUna = s.sndUna /\ t.sndNxt = s.sndNxt
      /\ t.sndWnd = s.sndWnd /\ t.cwnd = s.cwnd /\ t.ssthresh = s.ssthresh
      BY DEF IsSock, SockField, SendRun
<1>7. s.txRoom - sent \in Nat
      BY DEF IsSock, Numeric
<1> HIDE DEF t, queued, sent
<1>8. Armed(s) => Armed(t)
      BY <1>2, <1>3, <1>5 DEF Armed
<1>9. Numeric(t)
      BY <1>6, <1>7 DEF IsSock, Numeric
<1> QED BY <1>1, <1>4, <1>8, <1>9 DEF Steady, Shift, IsSock, t

\* tcpSendSegment keeps the timer armed, whether or not the segment is
\* queued and whether or not it can be sent.
LEMMA SendSegment ==
    ASSUME NEW s, IsSock(s), NEW flags, NEW seqNum, NEW ackNum, NEW length,
           NEW add
    PROVE  Steady(s, tcpSendSegment(s, flags, seqNum, ackNum, length, add))
BY RunSent DEF tcpSendSegment

\* A segment that was queued and sent leaves the timer running, whatever it
\* was before.
LEMMA SendSegmentArms ==
    ASSUME NEW s, IsSock(s), NEW flags, NEW seqNum, NEW ackNum, NEW length,
           ~tcpSendSegment(s, flags, seqNum, ackNum, length, TRUE).err,
           s.txRoom \in Nat
    PROVE  Armed(tcpSendSegment(s, flags, seqNum, ackNum, length, TRUE))
<1> DEFINE item  == Item(flags, seqNum, ackNum, s.rcvWnd, length)
           items == <<item>>
           sent   == IF Len(items) \in 0 .. s.txRoom THEN Len(items) ELSE s.txRoom
           failed == sent < Len(items)
           stays  == IF failed /\ s.fault = "notSent" THEN sent + 1 ELSE sent
           t      == SendRun(s, items, TRUE)
<1>1. t.err = (sent < Len(items))
      BY DEF IsSock, SockField, SendRun
<1>2. t.retransmitTimer = (s.retransmitTimer \/ SubSeq(items, 1, stays) # <<>>)
      BY DEF IsSock, SockField, SendRun
<1>3. t = tcpSendSegment(s, flags, seqNum, ackNum, length, TRUE)
      BY DEF tcpSendSegment
<1>4. Len(items) = 1
      OBVIOUS
<1> HIDE DEF t, item
<1>5. sent = 1 /\ stays = 1
  <2>1. ~(sent < Len(items))
        BY <1>1, <1>3
  <2> QED BY <1>4, <2>1 DEF MinOf
<1>6. SubSeq(items, 1, 1) # <<>>
      OBVIOUS
<1> QED BY <1>2, <1>3, <1>5, <1>6 DEF Armed

\* Sending a pure acknowledgment is a steady step.
LEMMA Acknowledge ==
    ASSUME NEW s, IsSock(s)
    PROVE  Steady(s, SendAck(s))
BY SendSegment DEF SendAck

\* Answering with a reset is a steady step.
LEMMA SendReset ==
    ASSUME NEW s, IsSock(s), NEW seg, IsSeg(seg)
    PROVE  Steady(s, tcpSendResetSegment(s, seg))
BY RunSent DEF tcpSendResetSegment

\* Retransmitting the head of the queue is a steady step.
LEMMA RetransmitSegment ==
    ASSUME NEW s, IsSock(s)
    PROVE  Steady(s, tcpRetransmitSegment(s))
BY RunSent DEF tcpRetransmitSegment

\* A burst of whole segments and a shorter one moves bytes from those to be
\* sent to those in flight; when the IP layer refuses a segment, not all.
LEMMA BurstMoves ==
    ASSUME NEW s, IsSock(s), NEW full \in Nat, NEW tail \in Nat
    PROVE  \E bytes \in 0 .. full * Smss + tail :
               LET t == SendBurst(s, full, tail)
               IN  /\ t.sndNxt = SeqAdd(s.sndNxt, bytes)
                   /\ t.sndUser = s.sndUser - bytes
                   /\ t.err => bytes < full * Smss + tail
<1> DEFINE count == full + (IF tail > 0 THEN 1 ELSE 0)
           size(i) == IF i <= full THEN Smss ELSE tail
           items == [i \in 1 .. count |->
                       Item({"ACK"}, SeqAdd(s.sndNxt, (i - 1) * Smss), s.rcvNxt,
                            s.rcvWnd, size(i))]
           sent  == MinOf(count, s.txRoom)
           bytes == IF sent <= full THEN sent * Smss ELSE full * Smss + tail
           r     == SendRun(s, items, TRUE)
           t     == SendBurst(s, full, tail)
<1>1. s.txRoom \in Nat /\ count \in Nat /\ sent \in 0 .. count
      BY DEF MinOf, IsSock, Numeric
<1>2. Len(items) = count
      BY <1>1
<1>3. t = [r EXCEPT !.sndNxt = SeqAdd(@, bytes), !.sndUser = @ - bytes]
      BY DEF SendBurst
<1> HIDE DEF items, t
<1>4. /\ DOMAIN r = SockField /\ r.sndNxt = s.sndNxt /\ r.sndUser = s.sndUser
      /\ r.err = ((IF Len(items) \in 0 .. s.txRoom THEN Len(items) ELSE s.txRoom)
                    < Len(items))
      BY DEF IsSock, SockField, SendRun
<1> HIDE DEF r
<1>5. r.err => sent < count
  <2>1. (IF Len(items) \in 0 .. s.txRoom THEN Len(items) ELSE s.txRoom) = sent
        BY <1>1, <1>2 DEF MinOf
  <2> HIDE DEF sent
  <2>2. r.err = (sent < count)
        BY <1>2, <1>4, <2>1
  <2> QED BY <2>2
<1>6. t.sndNxt = SeqAdd(s.sndNxt, bytes) /\ t.sndUser = s.sndUser - bytes /\ t.err = r.err
      BY <1>3, <1>4 DEF SockField
<1>7. bytes \in 0 .. full * Smss + tail /\ (sent < count => bytes < full * Smss + tail)
  <2>1. Smss \in Nat \ {0}
        BY SizeAssumption
  <2>2. full * Smss \in Nat /\ sent * Smss \in Nat
        BY <1>1, <2>1, FewerSegments
  <2>3. (sent < full => sent * Smss + Smss =< full * Smss)
        /\ (sent =< full => sent * Smss =< full * Smss)
        BY <1>1, <2>1, FewerSegments
  <2> DEFINE a == sent * Smss
             b == full * Smss
  <2> HIDE DEF a, b, sent
  <2>4. a \in Nat /\ b \in Nat /\ (sent < full => a + Smss =< b) /\ (sent =< full => a =< b)
        BY <2>2, <2>3 DEF a, b
  <2>5. (IF sent <= full THEN a ELSE b + tail) \in 0 .. b + tail
        /\ (sent < count => (IF sent <= full THEN a ELSE b + tail) < b + tail)
        BY <1>1, <2>1, <2>4
  <2> QED BY <2>5 DEF a, b
<1> HIDE DEF bytes, sent, count
<1> QED BY <1>5, <1>6, <1>7 DEF t

\* What the window allows, in whole segments and a rest, is at most what
\* waits to be sent.
LEMMA WindowAllows ==
    ASSUME NEW s, IsSock(s)
    PROVE  LET u     == UsableWindow(s)
               burst == IF u <= 0 THEN 0 ELSE MinOf(s.sndUser, u)
           IN  /\ burst \div Smss \in Nat /\ burst % Smss \in Nat
               /\ (burst \div Smss) * Smss + (burst % Smss) =< s.sndUser
               /\ (burst \div Smss) * Smss =< s.sndUser
<1> DEFINE u     == UsableWindow(s)
           burst == IF u <= 0 THEN 0 ELSE MinOf(s.sndUser, u)
           full  == burst \div Smss
           rest  == burst % Smss
<1>1. Smss \in Nat \ {0} /\ TxBufferSize \in Nat
      BY SizeAssumption
<1>2. u \in Int
  <2> DEFINE wnd == MinOf(s.sndWnd, TxBufferSize)
             n   == IF CongestControl THEN MinOf(wnd, s.cwnd) ELSE wnd
  <2>0. /\ s.sndWnd \in Int /\ s.cwnd \in Int /\ TxBufferSize \in Int
        /\ s.sndNxt \in Int /\ s.sndUna \in Int
        BY <1>1 DEF IsSock, Numeric
  <2>1. wnd \in Int
        BY <2>0, MinMaxIntegral
  <2>2. MinOf(wnd, s.cwnd) \in Int
    <3> HIDE DEF wnd
    <3> QED BY <2>0, <2>1, MinMaxIntegral
  <2>3. n \in Int /\ SeqSub(s.sndNxt, s.sndUna) \in Int
    <3> HIDE DEF wnd
    <3> QED BY <2>0, <2>1, <2>2, SeqIntegral
  <2>4. u = n - SeqSub(s.sndNxt, s.sndUna)
        BY DEF UsableWindow
  <2> HIDE DEF n, u
  <2> QED BY <2>3, <2>4
<1> HIDE DEF u
<1>3. burst \in Nat /\ burst =< s.sndUser
      BY <1>2 DEF IsSock, Numeric, MinOf
<1> HIDE DEF burst
<1>4. full \in Int /\ rest \in 0 .. Smss - 1 /\ burst = Smss * full + rest
      BY <1>1, <1>3, DivRange, ModRange, DivMod
<1> HIDE DEF full, rest
<1>5. full \in Nat
  <2>1. ASSUME full =< -1 PROVE FALSE
    <3>1. Smss * full =< -Smss
          BY <1>1, <1>4, <2>1
    <3> QED BY <1>1, <1>3, <1>4, <3>1
  <2> QED BY <1>4, <2>1
<1>6. full * Smss = Smss * full /\ full * Smss \in Nat
      BY <1>1, <1>5, FewerSegments
<1>7. full * Smss + rest =< s.sndUser /\ full * Smss =< s.sndUser
      BY <1>3, <1>4, <1>6 DEF IsSock, Numeric
<1> QED BY <1>4, <1>5, <1>7 DEF full, rest, burst, u

\* Sending data in several segments, some of which may fail, is a steady
\* step.
LEMMA Burst ==
    ASSUME NEW s, IsSock(s), NEW full \in Nat, NEW tail \in Nat,
           full * Smss + tail =< s.sndUser
    PROVE  Steady(s, SendBurst(s, full, tail))
<1> DEFINE t == SendBurst(s, full, tail)
<1>1. ASSUME NEW r, Steady(s, r), NEW a, NEW b
      PROVE  /\ a \in Int /\ b \in Nat
                => Steady(s, [r EXCEPT !.sndNxt = a, !.sndUser = b])
             /\ [r EXCEPT !.sndNxt = a, !.sndUser = b].sndNxt = a
             /\ [r EXCEPT !.sndNxt = a, !.sndUser = b].sndUser = b
      BY <1>1 DEF IsSock, SockField, Steady, Shift, Armed, Numeric
<1>2. PICK r, a, b : Steady(s, r) /\ t = [r EXCEPT !.sndNxt = a, !.sndUser = b]
      BY RunSent DEF SendBurst
<1>3. t.sndNxt \in Int /\ t.sndUser \in Nat
  <2>1. PICK bytes \in 0 .. full * Smss + tail :
            t.sndNxt = SeqAdd(s.sndNxt, bytes) /\ t.sndUser = s.sndUser - bytes
        BY BurstMoves
  <2>2. full * Smss \in Nat
        BY SizeAssumption, FewerSegments
  <2>3. bytes \in Int /\ s.sndUser - bytes \in Nat
    <3> DEFINE f == full * Smss
    <3>1. f \in Nat /\ bytes \in 0 .. f + tail /\ f + tail =< s.sndUser
          BY <2>2
    <3> HIDE DEF f
    <3> QED BY <3>1 DEF IsSock, Numeric
  <2>4. SeqAdd(s.sndNxt, bytes) \in Int
    <3>1. s.sndNxt \in Int
          BY DEF IsSock, Numeric
    <3> QED BY <2>3, <3>1, SeqIntegral
  <2> QED BY <2>1, <2>3, <2>4
<1> HIDE DEF t
<1>4. t.sndNxt = a /\ t.sndUser = b
      BY <1>2 DEF Steady, Shift, IsSock, SockField
<1>5. Steady(s, t)
      BY <1>1, <1>2, <1>3, <1>4
<1> QED BY <1>5 DEF t

\* tcpNagleAlgo sends whole segments, and a rest or none, within what waits
\* to be sent; it updates the events unless a segment is refused.
LEMMA NagleBurst ==
    ASSUME NEW s, IsSock(s), NEW flags
    PROVE  \E full \in Nat, tail \in Nat :
               /\ full * Smss + tail =< s.sndUser
               /\ LET t == SendBurst([s EXCEPT !.err = FALSE], full, tail)
                  IN  tcpNagleAlgo(s, flags) = IF t.err THEN t ELSE tcpUpdateEvents(t)
<1> DEFINE u     == UsableWindow(s)
           burst == IF u <= 0 THEN 0 ELSE MinOf(s.sndUser, u)
           full  == burst \div Smss
           rest  == burst % Smss
           e     == [s EXCEPT !.err = FALSE]
<1>1. /\ full \in Nat /\ rest \in Nat /\ full * Smss + rest =< s.sndUser
      /\ full * Smss =< s.sndUser
      BY WindowAllows
<1>2. full * Smss \in Nat
      BY <1>1, SizeAssumption, FewerSegments
<1>3. PICK tail \in {rest, 0} :
        LET t == SendBurst(e, full, tail)
        IN  tcpNagleAlgo(s, flags) = IF t.err THEN t ELSE tcpUpdateEvents(t)
      BY DEF tcpNagleAlgo
<1> HIDE DEF full, rest, e
<1>4. tail \in Nat /\ full * Smss + tail =< s.sndUser
  <2>1. tail = rest \/ tail = 0
        BY <1>3
  <2> DEFINE f == full * Smss
  <2>2. f \in Nat /\ f + rest =< s.sndUser /\ f =< s.sndUser /\ rest \in Nat
        BY <1>1, <1>2
  <2>3. f \in Int /\ s.sndUser \in Int
        BY <2>2 DEF IsSock, Numeric
  <2> HIDE DEF f
  <2>4. CASE tail = rest
        BY <2>2, <2>4 DEF f
  <2>5. CASE tail = 0
    <3>1. f + tail =< s.sndUser
          BY <2>2, <2>3, <2>5
    <3> QED BY <2>5, <3>1 DEF f
  <2> QED BY <2>1, <2>4, <2>5
<1> HIDE DEF u, burst
<1> QED BY <1>1, <1>3, <1>4 DEF e

\* tcpNagleAlgo is a steady step.
LEMMA NagleAlgo ==
    ASSUME NEW s, IsSock(s), NEW flags
    PROVE  Steady(s, tcpNagleAlgo(s, flags))
<1> DEFINE e == [s EXCEPT !.err = FALSE]
<1>1. PICK full \in Nat, tail \in Nat :
        /\ full * Smss + tail =< s.sndUser
        /\ LET t == SendBurst(e, full, tail)
           IN  tcpNagleAlgo(s, flags) = IF t.err THEN t ELSE tcpUpdateEvents(t)
      BY NagleBurst
<1> DEFINE t == SendBurst(e, full, tail)
<1>2. Steady(s, e) /\ e.sndUser = s.sndUser
      BY DEF IsSock, SockField, Steady, Shift, Armed, Numeric
<1> HIDE DEF e
<1>3. Steady(e, t)
  <2>1. IsSock(e) /\ full * Smss + tail =< e.sndUser
        BY <1>1, <1>2 DEF Steady, Shift
  <2> QED BY <1>1, <2>1, Burst
<1> HIDE DEF t
<1>4. Steady(t, tcpUpdateEvents(t))
      BY <1>3, UpdateEvents DEF Steady, Shift
<1>5. tcpNagleAlgo(s, flags) \in {t, tcpUpdateEvents(t)}
      BY <1>1 DEF t
<1> QED BY <1>2, <1>3, <1>4, <1>5 DEF Steady, Shift

----------------------------------------------------------------------------
(* Acknowledgments *)

\* The timer is stopped only with the last item of the queue.
LEMMA UpdateRetransmitQueue ==
    ASSUME NEW s, IsSock(s)
    PROVE  Steady(s, tcpUpdateRetransmitQueue(s))
<1> DEFINE Kept(item) == TCP_CMP_SEQ(s.sndUna, ItemEnd(item)) < 0
           empty   == ~ \E i \in DOMAIN s.retransmitQueue :
                          Kept(s.retransmitQueue[i])
           left    == IF empty THEN <<>> ELSE SelectSeq(s.retransmitQueue, Kept)
           removed == left # s.retransmitQueue
           t       == tcpUpdateRetransmitQueue(s)
<1>1. /\ DOMAIN t = SockField
      /\ t.type = s.type /\ t.state = s.state
      /\ t.resetFlag = s.resetFlag /\ t.closedFlag = s.closedFlag
      /\ t.ownedFlag = s.ownedFlag
      /\ Numeric(t)
      BY DEF IsSock, SockField, Numeric, tcpUpdateRetransmitQueue
<1>2. t.retransmitQueue = left
      BY DEF IsSock, SockField, tcpUpdateRetransmitQueue
<1>3. t.retransmitTimer = (~empty /\ (s.retransmitTimer \/ removed))
      BY DEF IsSock, SockField, tcpUpdateRetransmitQueue
<1>4. empty => left = <<>>
      OBVIOUS
<1>5. s.retransmitQueue = <<>> => empty
      OBVIOUS
<1> HIDE DEF t, left, empty
<1>6. Armed(s) => Armed(t)
      BY <1>2, <1>3, <1>4, <1>5 DEF Armed
<1> QED BY <1>1, <1>6 DEF Steady, Shift, IsSock, t

\* tcpDeleteControlBlock leaves neither queue nor buffers, and stops the
\* timer only with the queue.
LEMMA DeleteControlBlock ==
    ASSUME NEW s, IsSock(s)
    PROVE  Steady(s, tcpDeleteControlBlock(s)) /\ Released(tcpDeleteControlBlock(s))
BY DEF IsSock, SockField, Steady, Shift, Armed, Numeric, Released, tcpDeleteControlBlock,
       tcpFlushSynQueue, tcpFlushRetransmitQueue

\* tcpComputeRto is a steady step.
LEMMA ComputeRto ==
    ASSUME NEW s, IsSock(s)
    PROVE  Steady(s, tcpComputeRto(s))
BY OtherField DEF SockField, tcpComputeRto

\* tcpUpdateSendWindow is a steady step.
LEMMA UpdateSendWindow ==
    ASSUME NEW s, IsSock(s), NEW seg, IsSeg(seg)
    PROVE  Steady(s, tcpUpdateSendWindow(s, seg))
BY DEF IsSock, SockField, Steady, Shift, Armed, Numeric, IsSeg, tcpUpdateSendWindow

\* A retransmission followed by assignments to the congestion state
LEMMA Congestion ==
    ASSUME NEW s, NEW t, Steady(s, t), NEW a \in Int, NEW b, NEW c \in Int,
           NEW d, NEW e
    PROVE  /\ Steady(s, [t EXCEPT !.ssthresh = a, !.recover = b, !.cwnd = c,
                                 !.congestState = d])
           /\ Steady(s, [t EXCEPT !.cwnd = c, !.congestState = d])
           /\ Steady(s, [t EXCEPT !.cwnd = c])
           /\ Steady(s, [t EXCEPT !.congestState = d])
           /\ Steady(s, [t EXCEPT !.dupAckCount = e])
BY DEF IsSock, SockField, Steady, Shift, Armed, Numeric

\* The threshold a loss leaves is a number.
LEMMA Threshold ==
    ASSUME NEW s, IsSock(s)
    PROVE  FlightSsthresh(s) \in Int /\ U16(FlightSsthresh(s) + 3 * Smss) \in Int
<1> DEFINE flight == SeqSub(s.sndNxt, s.sndUna)
<1>1. flight \in Int /\ Smss \in Int
  <2>1. s.sndNxt \in Int /\ s.sndUna \in Int
        BY DEF IsSock, Numeric
  <2>2. flight \in Int
        BY <2>1, SeqIntegral
  <2>3. Smss \in Int
        BY SizeAssumption
  <2> QED BY <2>2, <2>3
<1> HIDE DEF flight
<1>2. flight \div 2 \in Int /\ 2 * Smss \in Int
      BY <1>1
<1>3. FlightSsthresh(s) \in Int
      BY <1>2, MinMaxIntegral DEF FlightSsthresh, flight
<1>4. FlightSsthresh(s) + 3 * Smss \in Int
      BY <1>1, <1>3
<1> QED BY <1>3, <1>4, U16Integral

\* tcpFastRetransmit is a steady step.
LEMMA FastRetransmit ==
    ASSUME NEW s, IsSock(s)
    PROVE  Steady(s, tcpFastRetransmit(s))
BY RetransmitSegment, Congestion, Threshold DEF tcpFastRetransmit

\* tcpFastRecovery is a steady step.
LEMMA FastRecovery ==
    ASSUME NEW s, IsSock(s), NEW seg, IsSeg(seg), NEW n \in Int
    PROVE  Steady(s, tcpFastRecovery(s, seg, n))
<1> DEFINE left == IF s.cwnd > n THEN s.cwnd - n ELSE s.cwnd
           back == IF n >= Smss THEN Smss ELSE 0
<1>1. U16(left + back) \in Int /\ s.ssthresh \in Int
  <2>1. left + back \in Int /\ s.ssthresh \in Int
        BY SizeAssumption DEF IsSock, Numeric
  <2> HIDE DEF left, back
  <2> QED BY <2>1, U16Integral
<1>2. Steady(s, tcpRetransmitSegment(s)) /\ Steady(s, s)
      BY RetransmitSegment, SteadySelf
<1> DEFINE w == U16(left + back)
<1> HIDE DEF left, back
<1>3. Steady(s, [tcpRetransmitSegment(s) EXCEPT !.cwnd = w])
  <2> HIDE DEF w
  <2> QED BY <1>1, <1>2, Congestion DEF w
<1>4. Steady(s, [s EXCEPT !.cwnd = s.ssthresh, !.congestState = "IDLE"])
      BY <1>1, <1>2, Congestion
<1> QED BY <1>3, <1>4 DEF tcpFastRecovery, w, left, back

\* tcpFastLossRecovery is a steady step.
LEMMA FastLossRecovery ==
    ASSUME NEW s, IsSock(s), NEW seg, IsSeg(seg)
    PROVE  Steady(s, tcpFastLossRecovery(s, seg))
<1>1. Steady(s, tcpRetransmitSegment(s)) /\ Steady(s, s)
      BY RetransmitSegment, SteadySelf
<1>2. Steady(s, [s EXCEPT !.congestState = "IDLE"])
      BY OtherField DEF SockField
<1> QED BY <1>1, <1>2 DEF tcpFastLossRecovery

\* Limiting the congestion window is a steady step.
LEMMA Limited ==
    ASSUME NEW s, NEW t, Steady(s, t)
    PROVE  Steady(s, LimitCwnd(t))
<1>1. MinOf(t.cwnd, TxBufferSize) \in Int
  <2>1. t.cwnd \in Int /\ TxBufferSize \in Int
        BY SizeAssumption DEF Steady, Shift, IsSock, Numeric
  <2> QED BY <2>1, MinMaxIntegral
<1>2. Steady(s, [t EXCEPT !.cwnd = MinOf(t.cwnd, TxBufferSize)])
      BY <1>1, Congestion
<1> QED BY <1>2 DEF LimitCwnd

\* Congestion control on new data acknowledged is a steady step.
LEMMA CongestionNewAck ==
    ASSUME NEW s, IsSock(s), NEW seg, IsSeg(seg), NEW n \in Int,
           NEW rttDone
    PROVE  Steady(s, CongestNewAck(s, seg, n, rttDone))
<1> DEFINE r == [s EXCEPT !.dupAckCount = 0]
           l == IF s.congestState = "LOSS_RECOVERY"
                THEN tcpFastLossRecovery(r, seg) ELSE r
           grow == IF s.cwnd < s.ssthresh THEN MinOf(n, Smss)
                   ELSE IF rttDone THEN MinOf(s.n, Smss) ELSE 0
<1>1. Steady(s, r)
      BY OtherField DEF SockField
<1>2. Steady(s, l)
  <2>1. Steady(r, tcpFastLossRecovery(r, seg))
        BY <1>1, FastLossRecovery DEF Steady, Shift
  <2> HIDE DEF r
  <2>2. Steady(s, tcpFastLossRecovery(r, seg))
        BY <1>1, <2>1 DEF Steady, Shift
  <2> QED BY <1>1, <2>2
<1>3. Steady(s, tcpFastRecovery(s, seg, n))
      BY FastRecovery
<1>4. grow \in Int
  <2>1. Smss \in Int /\ s.n \in Int /\ n \in Int
        BY SizeAssumption DEF IsSock, Numeric
  <2>2. MinOf(n, Smss) \in Int /\ MinOf(s.n, Smss) \in Int
        BY <2>1, MinMaxIntegral
  <2> QED BY <2>2
<1> HIDE DEF l, grow
<1> DEFINE c == U16(l.cwnd + grow)
<1>5. c \in Int
  <2>1. l.cwnd \in Int
        BY <1>2 DEF Steady, Shift, IsSock, Numeric
  <2>2. l.cwnd + grow \in Int
        BY <1>4, <2>1
  <2> QED BY <2>2, U16Integral
<1> HIDE DEF c
<1>6. Steady(s, LimitCwnd([l EXCEPT !.cwnd = c]))
  <2>1. Steady(s, [l EXCEPT !.cwnd = c])
        BY <1>2, <1>5, Congestion
  <2> QED BY <2>1, Limited
<1>7. Steady(s, LimitCwnd(tcpFastRecovery(s, seg, n)))
      BY <1>3, Limited
<1>8. CongestNewAck(s, seg, n, rttDone) \in
        {LimitCwnd(tcpFastRecovery(s, seg, n)), LimitCwnd([l EXCEPT !.cwnd = c])}
      BY DEF CongestNewAck, l, grow, c
<1> QED BY <1>6, <1>7, <1>8

\* Congestion control on a repeated acknowledgment is a steady step.
LEMMA CongestionSameAck ==
    ASSUME NEW s, IsSock(s), NEW seg, IsSeg(seg), NEW duplicate
    PROVE  Steady(s, CongestSameAck(s, seg, duplicate))
<1> DEFINE c == [s EXCEPT !.dupAckCount = IF duplicate THEN @ + 1 ELSE 0]
<1>1. Steady(s, c)
      BY OtherField DEF SockField
<1>2. Steady(s, LimitCwnd(c))
      BY <1>1, Limited
<1>3. Steady(s, LimitCwnd(tcpFastRetransmit(c)))
  <2>1. Steady(c, tcpFastRetransmit(c))
        BY <1>1, FastRetransmit DEF Steady, Shift
  <2> HIDE DEF c
  <2> QED BY <1>1, <2>1, Limited DEF Steady, Shift
<1> HIDE DEF c
<1> DEFINE w == U16(c.cwnd + Smss)
<1>4. w \in Int
  <2>1. c.cwnd \in Int /\ Smss \in Int
        BY <1>1, SizeAssumption DEF Steady, Shift, IsSock, Numeric
  <2>2. c.cwnd + Smss \in Int
        BY <2>1
  <2> QED BY <2>2, U16Integral
<1> HIDE DEF w
<1>5. Steady(s, LimitCwnd([c EXCEPT !.cwnd = w]))
  <2>1. Steady(s, [c EXCEPT !.cwnd = w])
        BY <1>1, <1>4, Congestion
  <2> QED BY <2>1, Limited
<1>6. CongestSameAck(s, seg, duplicate) \in
        {LimitCwnd(c), LimitCwnd(tcpFastRetransmit(c)), LimitCwnd([c EXCEPT !.cwnd = w])}
      BY DEF CongestSameAck, c, w
<1> QED BY <1>2, <1>3, <1>5, <1>6

\* Taking an acknowledgment of new data is a steady step: the timer stops
\* only with the last item of the queue.
LEMMA AckOfNewData ==
    ASSUME NEW s, IsSock(s), NEW seg, IsSeg(seg)
    PROVE  Steady(s, NewAck(s, seg))
<1> DEFINE acked == SeqSub(seg.ackNum, s.sndUna)
           n == IF s.sndUna = s.iss THEN acked - 1 ELSE acked
           a == [s EXCEPT !.sndUna = seg.ackNum,
                          !.n = IF CongestControl THEN @ + n ELSE @]
           q == tcpUpdateRetransmitQueue(tcpComputeRto(a))
<1>1. n \in Int
  <2>1. acked \in Int
    <3>1. seg.ackNum \in Int /\ s.sndUna \in Int
          BY DEF IsSock, Numeric, IsSeg
    <3> QED BY <3>1, SeqIntegral
  <2> HIDE DEF acked
  <2> QED BY <2>1
<1> HIDE DEF n
<1>2. Steady(s, q)
  <2>1. Steady(s, a)
        BY <1>1 DEF IsSock, SockField, Steady, Shift, Armed, Numeric, IsSeg
  <2> HIDE DEF a
  <2>2. Steady(a, tcpComputeRto(a))
        BY <2>1, ComputeRto DEF Steady, Shift
  <2>3. Steady(tcpComputeRto(a), q)
        BY <2>2, UpdateRetransmitQueue DEF Steady, Shift
  <2> HIDE DEF q
  <2> QED BY <2>1, <2>2, <2>3 DEF Steady, Shift
<1> HIDE DEF q
<1>3. ASSUME NEW done PROVE Steady(s, CongestNewAck(q, seg, n, done))
  <2>1. Steady(q, CongestNewAck(q, seg, n, done))
        BY <1>1, <1>2, CongestionNewAck DEF Steady, Shift
  <2> QED BY <1>2, <2>1 DEF Steady, Shift
<1>4. NewAck(s, seg) = IF CongestControl THEN CongestNewAck(q, seg, n, RttMeasured(a)) ELSE q
      BY DEF NewAck, q, a, n
<1> HIDE DEF a
<1> QED BY <1>2, <1>3, <1>4

\* tcpCheckAck is a steady step, whatever the acknowledgment.
LEMMA CheckAck ==
    ASSUME NEW s, IsSock(s), NEW seg, IsSeg(seg)
    PROVE  Steady(s, tcpCheckAck(s, seg))
<1> DEFINE w == tcpUpdateSendWindow(s, seg)
<1>1. Steady(s, w)
      BY UpdateSendWindow
<1> HIDE DEF w
<1>2. Steady(w, NewAck(w, seg))
      BY <1>1, AckOfNewData DEF Steady, Shift
<1>3. ASSUME NEW d PROVE Steady(w, CongestSameAck(w, seg, d))
      BY <1>1, CongestionSameAck DEF Steady, Shift
<1>4. ASSUME NEW t, Steady(w, t) PROVE Steady(s, tcpUpdateEvents(t))
  <2>1. Steady(t, tcpUpdateEvents(t))
        BY <1>4, UpdateEvents DEF Steady, Shift
  <2> QED BY <1>1, <1>4, <2>1 DEF Steady, Shift
<1>5. /\ Steady(s, tcpUpdateEvents(NewAck(w, seg)))
      /\ Steady(s, tcpUpdateEvents(w))
      /\ \A d : Steady(s, tcpUpdateEvents(CongestSameAck(w, seg, d)))
      BY <1>1, <1>2, <1>3, <1>4, SteadySelf DEF Steady, Shift
<1>6. Steady(s, s) /\ Steady(s, SendAck(s))
      BY SteadySelf, Acknowledge
<1> QED BY <1>5, <1>6 DEF tcpCheckAck, w

----------------------------------------------------------------------------
(* Incoming segments *)

\* Rejecting an unacceptable segment is a steady step.
LEMMA CheckSequenceNumber ==
    ASSUME NEW s, IsSock(s), NEW seg, IsSeg(seg)
    PROVE  Steady(s, tcpCheckSequenceNumber(s, seg))
BY SteadySelf, Acknowledge DEF tcpCheckSequenceNumber

\* Rejecting a misplaced SYN is a steady step.
LEMMA CheckSyn ==
    ASSUME NEW s, IsSock(s), NEW seg, IsSeg(seg)
    PROVE  Steady(s, tcpCheckSyn(s, seg))
BY SendSegment DEF tcpCheckSyn

\* tcpUpdateSackBlocks is a steady step.
LEMMA UpdateSackBlocks ==
    ASSUME NEW s, IsSock(s), NEW left, NEW right
    PROVE  Steady(s, tcpUpdateSackBlocks(s, left, right))
BY OtherField DEF SockField, tcpUpdateSackBlocks

\* tcpProcessSegmentData is a steady step, in order or not.
LEMMA ProcessSegmentData ==
    ASSUME NEW s, IsSock(s), NEW seg, IsSeg(seg)
    PROVE  Steady(s, tcpProcessSegmentData(s, seg))
<1>1. ASSUME NEW left, NEW right, NEW data, NEW x, NEW y, NEW z
      PROVE  LET b == tcpUpdateSackBlocks(tcpWriteRxBuffer(s, left, data),
                                          left, right)
                 r == [b EXCEPT !.rcvNxt = x, !.rcvUser = y, !.rcvWnd = z]
             IN  /\ Steady(s, SendAck(b))
                 /\ Steady(s, tcpUpdateEvents(SendAck(r)))
  <2> DEFINE w == tcpWriteRxBuffer(s, left, data)
             b == tcpUpdateSackBlocks(w, left, right)
             r == [b EXCEPT !.rcvNxt = x, !.rcvUser = y, !.rcvWnd = z]
  <2>1. Steady(s, w)
        BY OtherField DEF SockField, tcpWriteRxBuffer
  <2>2. Steady(w, b)
        BY <2>1, UpdateSackBlocks DEF Steady, Shift
  <2> HIDE DEF b, w
  <2>3. Steady(s, b)
        BY <2>1, <2>2 DEF Steady, Shift
  <2>4. Steady(s, r)
        BY <2>3 DEF IsSock, SockField, Steady, Shift, Armed, Numeric
  <2> HIDE DEF r
  <2>5. Steady(b, SendAck(b)) /\ Steady(r, SendAck(r))
        BY <2>3, <2>4, Acknowledge DEF Steady, Shift
  <2>6. Steady(SendAck(r), tcpUpdateEvents(SendAck(r)))
        BY <2>5, UpdateEvents DEF Steady, Shift
  <2>7. Steady(s, SendAck(b)) /\ Steady(s, tcpUpdateEvents(SendAck(r)))
        BY <2>3, <2>4, <2>5, <2>6 DEF Steady, Shift
  <2> QED BY <2>7 DEF r, b, w
<1> DEFINE end   == SeqAdd(s.rcvNxt, s.rcvWnd)
           stop  == SeqAdd(seg.seqNum, SegLen(seg))
           left  == IF TCP_CMP_SEQ(seg.seqNum, s.rcvNxt) < 0
                    THEN s.rcvNxt ELSE seg.seqNum
           right == IF TCP_CMP_SEQ(stop, end) > 0 THEN end ELSE stop
           skip  == SeqSub(left, seg.seqNum)
           data  == SubSeq(seg.data, skip + 1, skip + SeqSub(right, left))
           m     == AbsorbBlocks(s.sackBlock, left, right)
           b     == tcpUpdateSackBlocks(tcpWriteRxBuffer(s, left, data),
                                        left, right)
           more  == SeqSub(m.right, m.left)
           r     == [b EXCEPT !.rcvNxt = SeqAdd(@, more),
                              !.rcvUser = U16(@ + more),
                              !.rcvWnd = U16(@ - more)]
<1>2. Steady(s, SendAck(b)) /\ Steady(s, tcpUpdateEvents(SendAck(r)))
  <2> HIDE DEF left, right, data, more
  <2> QED BY <1>1
<1>3. tcpProcessSegmentData(s, seg) =
        IF TCP_CMP_SEQ(m.left, s.rcvNxt) > 0
        THEN SendAck(b) ELSE tcpUpdateEvents(SendAck(r))
      BY DEF tcpProcessSegmentData
<1> HIDE DEF b, r, m
<1> QED BY <1>2, <1>3

\* tcpUpdateReceiveWindow is a steady step.
LEMMA UpdateReceiveWindow ==
    ASSUME NEW s, IsSock(s)
    PROVE  Steady(s, tcpUpdateReceiveWindow(s))
<1>1. ASSUME NEW v
      PROVE  /\ Steady(s, [s EXCEPT !.rcvWnd = v])
             /\ Steady(s, SendAck([s EXCEPT !.rcvWnd = v]))
  <2> DEFINE w == [s EXCEPT !.rcvWnd = v]
  <2>1. Steady(s, w)
        BY OtherField DEF SockField
  <2> HIDE DEF w
  <2>2. Steady(w, SendAck(w))
        BY <2>1, Acknowledge DEF Steady, Shift
  <2>3. Steady(s, SendAck(w))
        BY <2>1, <2>2 DEF Steady, Shift
  <2> QED BY <2>1, <2>3 DEF w
<1> QED BY <1>1, SteadySelf DEF tcpUpdateReceiveWindow

----------------------------------------------------------------------------
(* The finite state machine *)

\* A segment that does not pass the checks ends the connection if it is an
\* acceptable reset, and changes nothing of note otherwise.
LEMMA Screening ==
    ASSUME NEW s, IsSock(s), NEW seg, IsSeg(seg), ~Passes(s, seg)
    PROVE  IF Resets(s, seg) THEN Ends(s, Screened(s, seg))
                             ELSE Steady(s, Screened(s, seg))
<1>1. /\ Steady(s, tcpCheckSequenceNumber(s, seg))
      /\ Steady(s, tcpCheckSyn(s, seg))
      /\ Ends(s, tcpChangeState(s, "CLOSED"))
      BY CheckSequenceNumber, CheckSyn, ChangeState
<1> QED BY <1>1 DEF Screened, Passes, Unacceptable, Resets, Misplaced

\* Taking a segment's data is a steady step.
LEMMA Text ==
    ASSUME NEW s, IsSock(s), NEW seg, IsSeg(seg)
    PROVE  Steady(s, SegmentText(s, seg))
BY ProcessSegmentData, SteadySelf DEF SegmentText

\* Acknowledging the peer's FIN is a steady step.
LEMMA Fin ==
    ASSUME NEW s, IsSock(s)
    PROVE  Steady(s, AcceptFin(s))
<1> DEFINE r == [s EXCEPT !.rcvNxt = SeqAdd(@, 1)]
<1>1. Steady(s, r)
      BY OtherField DEF SockField
<1> HIDE DEF r
<1>2. Steady(r, SendAck(r))
      BY <1>1, Acknowledge DEF Steady, Shift
<1>3. Steady(s, SendAck(r))
      BY <1>1, <1>2 DEF Steady, Shift
<1> QED BY <1>3 DEF AcceptFin, r

\* Entering TIME-WAIT is a change of state that leaves the timer armed for
\* what is queued: nothing.
LEMMA TimeWaitEntered ==
    ASSUME NEW s, IsSock(s)
    PROVE  Shift(s, EnterTimeWait(s), "TIME_WAIT")
<1> DEFINE d == tcpDeleteControlBlock(s)
           t == [d EXCEPT !.timeWaitTimer = TRUE]
<1>1. Steady(s, d)
      BY DeleteControlBlock
<1> HIDE DEF d
<1>2. Steady(s, t)
      BY <1>1 DEF IsSock, SockField, Steady, Shift, Armed, Numeric
<1> HIDE DEF t
<1>3. Shift(t, tcpChangeState(t, "TIME_WAIT"), "TIME_WAIT")
      BY <1>2, ChangeState DEF Steady, Shift
<1>4. Shift(s, tcpChangeState(t, "TIME_WAIT"), "TIME_WAIT")
      BY <1>2, <1>3 DEF Steady, Shift
<1> QED BY <1>4 DEF EnterTimeWait, t, d

\* Sending what the window now allows is a steady step.
LEMMA Transmission ==
    ASSUME NEW s, IsSock(s)
    PROVE  Steady(s, Transmit(s))
BY NagleAlgo DEF Transmit

\* A closed socket stays as it is.
LEMMA StateClosed ==
    ASSUME NEW s, IsSock(s), NEW seg, IsSeg(seg)
    PROVE  Steady(s, tcpStateClosed(s, seg))
BY SendReset, SteadySelf DEF tcpStateClosed

\* From SYN-SENT a segment leads to ESTABLISHED, to SYN-RECEIVED or to the
\* end.
LEMMA StateSynSent ==
    ASSUME NEW s, IsSock(s), NEW seg, IsSeg(seg)
    PROVE  LET t == tcpStateSynSent(s, seg)
           IN  \/ Steady(s, t) \/ Ends(s, t)
               \/ Shift(s, t, "ESTABLISHED") \/ Shift(s, t, "SYN_RECEIVED")
<1> DEFINE i == [s EXCEPT !.irs = seg.seqNum,
                          !.rcvNxt = SeqAdd(seg.seqNum, 1),
                          !.sndUna = IF Has(seg, "ACK") THEN seg.ackNum ELSE @]
           r == tcpUpdateRetransmitQueue(tcpComputeRto(i))
           q == [r EXCEPT !.cwnd = IF CongestControl
                                   THEN MinOf(3 * Smss, TxBufferSize) ELSE @]
           w == [q EXCEPT !.sndWnd = seg.window, !.sndWl1 = seg.seqNum,
                          !.sndWl2 = seg.ackNum, !.maxSndWnd = seg.window]
           y == tcpSendSegment(q, {"SYN", "ACK"}, q.iss, q.rcvNxt, 0, TRUE)
           e == tcpSendSegment(s, {"RST"}, seg.ackNum, 0, 0, FALSE)
           badAck == Has(seg, "ACK") /\ seg.ackNum # s.sndNxt
<1>1. Steady(s, i)
      BY DEF IsSock, SockField, Steady, Shift, Armed, Numeric, IsSeg
<1> HIDE DEF i
<1>2. Steady(i, tcpComputeRto(i))
      BY <1>1, ComputeRto DEF Steady, Shift
<1>3. Steady(tcpComputeRto(i), r)
      BY <1>2, UpdateRetransmitQueue DEF Steady, Shift
<1> HIDE DEF r
<1>4. Steady(s, r)
      BY <1>1, <1>2, <1>3 DEF Steady, Shift
<1>5. Steady(s, q)
  <2>1. MinOf(3 * Smss, TxBufferSize) \in Int
        BY SizeAssumption DEF MinOf
  <2> QED BY <1>4, <2>1 DEF IsSock, SockField, Steady, Shift, Armed, Numeric
<1> HIDE DEF q
<1>6. Steady(s, w)
      BY <1>5 DEF IsSock, SockField, Steady, Shift, Armed, Numeric, IsSeg
<1> HIDE DEF w
<1>7. Shift(s, tcpChangeState(SendAck(w), "ESTABLISHED"), "ESTABLISHED")
  <2>1. Steady(w, SendAck(w))
        BY <1>6, Acknowledge DEF Steady, Shift
  <2>2. Shift(SendAck(w), tcpChangeState(SendAck(w), "ESTABLISHED"), "ESTABLISHED")
        BY <2>1, ChangeState DEF Steady, Shift
  <2> QED BY <1>6, <2>1, <2>2 DEF Steady, Shift
<1>8. Shift(s, tcpChangeState(y, "SYN_RECEIVED"), "SYN_RECEIVED")
  <2>1. Steady(q, y)
        BY <1>5, SendSegment DEF Steady, Shift
  <2> HIDE DEF y
  <2>2. Shift(y, tcpChangeState(y, "SYN_RECEIVED"), "SYN_RECEIVED")
        BY <2>1, ChangeState DEF Steady, Shift
  <2> QED BY <1>5, <2>1, <2>2 DEF Steady, Shift
<1>9. Steady(s, e) /\ Steady(s, s) /\ Ends(s, tcpChangeState(s, "CLOSED"))
      BY SendSegment, SteadySelf, ChangeState
<1>10. tcpStateSynSent(s, seg) \in
        {s, e, tcpChangeState(s, "CLOSED"),
         tcpChangeState(SendAck(w), "ESTABLISHED"),
         tcpChangeState(y, "SYN_RECEIVED")}
  <2>1. CASE badAck
        BY <2>1 DEF tcpStateSynSent
  <2>2. CASE ~badAck /\ Has(seg, "RST")
        BY <2>2 DEF tcpStateSynSent
  <2>3. CASE ~badAck /\ ~Has(seg, "RST") /\ Has(seg, "SYN")
        BY <2>3 DEF tcpStateSynSent, w, q, r, i
  <2>4. CASE ~badAck /\ ~Has(seg, "RST") /\ ~Has(seg, "SYN")
        BY <2>4 DEF tcpStateSynSent
  <2> QED BY <2>1, <2>2, <2>3, <2>4
<1> QED BY <1>7, <1>8, <1>9, <1>10

\* From ESTABLISHED a segment leads to CLOSE-WAIT or to the end.
LEMMA StateEstablished ==
    ASSUME NEW s, IsSock(s), NEW seg, IsSeg(seg)
    PROVE  LET t == tcpStateEstablished(s, seg)
           IN  Steady(s, t) \/ Ends(s, t) \/ Shift(s, t, "CLOSE_WAIT")
<1> DEFINE a == tcpCheckAck(s, seg)
           d == SegmentText(a, seg)
           f == tcpChangeState(AcceptFin(d), "CLOSE_WAIT")
<1>1. Steady(s, a)
      BY CheckAck
<1> HIDE DEF a
<1>2. Steady(a, d)
      BY <1>1, Text DEF Steady, Shift
<1> HIDE DEF d
<1>3. Steady(s, d)
      BY <1>1, <1>2 DEF Steady, Shift
<1>4. Shift(s, f, "CLOSE_WAIT")
  <2>1. Steady(d, AcceptFin(d))
        BY <1>3, Fin DEF Steady, Shift
  <2>2. Shift(AcceptFin(d), f, "CLOSE_WAIT")
        BY <2>1, ChangeState DEF Steady, Shift
  <2> HIDE DEF f
  <2> QED BY <1>3, <2>1, <2>2 DEF Steady, Shift
<1> HIDE DEF f
<1>5. Steady(s, Transmit(d)) /\ Shift(s, Transmit(f), "CLOSE_WAIT")
  <2>1. Steady(d, Transmit(d)) /\ Steady(f, Transmit(f))
        BY <1>3, <1>4, Transmission DEF Steady, Shift
  <2> QED BY <1>3, <1>4, <2>1 DEF Steady, Shift
<1>6. tcpStateEstablished(s, seg) =
        IF ~Passes(s, seg) THEN Screened(s, seg)
        ELSE IF AckRejected(s, seg) THEN a
        ELSE IF FinInOrder(d, seg) THEN Transmit(f) ELSE Transmit(d)
      BY DEF tcpStateEstablished, EstablishedFin, a, d, f
<1> QED BY <1>1, <1>5, <1>6, Screening

\* From SYN-RECEIVED a segment leads to ESTABLISHED, with a FIN at once to
\* CLOSE-WAIT, or to the end.
LEMMA StateSynReceived ==
    ASSUME NEW s, IsSock(s), NEW seg, IsSeg(seg), s.state = "SYN_RECEIVED"
    PROVE  LET t == tcpStateSynReceived(s, seg)
           IN  \/ Steady(s, t) \/ Ends(s, t)
               \/ Shift(s, t, "ESTABLISHED") \/ Shift(s, t, "CLOSE_WAIT")
<1> DEFINE w == [s EXCEPT !.sndWnd = seg.window, !.sndWl1 = seg.seqNum,
                          !.sndWl2 = seg.ackNum, !.maxSndWnd = seg.window]
           e == tcpChangeState(w, "ESTABLISHED")
           r == tcpSendSegment(s, {"RST"}, seg.ackNum, 0, 0, FALSE)
           t == tcpStateEstablished(e, seg)
<1>1. Steady(s, w)
      BY DEF IsSock, SockField, Steady, Shift, Armed, Numeric, IsSeg
<1> HIDE DEF w
<1>2. Shift(w, e, "ESTABLISHED")
      BY <1>1, ChangeState DEF Steady, Shift
<1> HIDE DEF e
<1>3. Shift(s, e, "ESTABLISHED")
      BY <1>1, <1>2, SteadyThen
<1>4. Steady(e, t) \/ Ends(e, t) \/ Shift(e, t, "CLOSE_WAIT")
      BY <1>3, StateEstablished DEF Shift
<1> HIDE DEF t
<1>5. Steady(e, t) => Shift(s, t, "ESTABLISHED")
      BY <1>3, ThenSteady
<1>6. Ends(e, t) => Ends(s, t)
      BY <1>3 DEF Shift, Ends
<1>7. Shift(e, t, "CLOSE_WAIT") => Shift(s, t, "CLOSE_WAIT")
      BY <1>3 DEF Shift
<1>8. Steady(s, r) /\ Steady(s, s)
      BY SendSegment, SteadySelf
<1>9. tcpStateSynReceived(s, seg) =
        IF ~Passes(s, seg) THEN Screened(s, seg)
        ELSE IF ~Has(seg, "ACK") THEN s
        ELSE IF seg.ackNum # s.sndNxt THEN r ELSE t
      BY DEF tcpStateSynReceived, t, e, w
<1> HIDE DEF r
<1> QED BY <1>4, <1>5, <1>6, <1>7, <1>8, <1>9, Screening

\* From CLOSE-WAIT a segment leads only to the end.
LEMMA StateCloseWait ==
    ASSUME NEW s, IsSock(s), NEW seg, IsSeg(seg)
    PROVE  LET t == tcpStateCloseWait(s, seg) IN Steady(s, t) \/ Ends(s, t)
<1> DEFINE a == tcpCheckAck(s, seg)
<1>1. Steady(s, a)
      BY CheckAck
<1> HIDE DEF a
<1>2. Steady(a, Transmit(a))
      BY <1>1, Transmission DEF Steady, Shift
<1>3. Steady(s, Transmit(a))
      BY <1>1, <1>2 DEF Steady, Shift
<1> QED BY <1>1, <1>3, Screening DEF tcpStateCloseWait, a

\* From LAST-ACK a segment leads only to the end.
LEMMA StateLastAck ==
    ASSUME NEW s, IsSock(s), NEW seg, IsSeg(seg)
    PROVE  LET t == tcpStateLastAck(s, seg) IN Steady(s, t) \/ Ends(s, t)
BY Screening, SteadySelf, ChangeState DEF tcpStateLastAck

\* From FIN-WAIT-1 a segment leads to FIN-WAIT-2, to TIME-WAIT, to CLOSING
\* or to the end: never past FIN-WAIT-2 without taking its place.
LEMMA StateFinWait1 ==
    ASSUME NEW s, IsSock(s), NEW seg, IsSeg(seg)
    PROVE  LET t == tcpStateFinWait1(s, seg)
           IN  \/ Steady(s, t) \/ Ends(s, t)
               \/ \E new \in {"FIN_WAIT_2", "TIME_WAIT", "CLOSING"} : Shift(s, t, new)
<1> DEFINE a     == tcpCheckAck(s, seg)
           acked == seg.ackNum = a.sndNxt
           b     == [a EXCEPT !.finWait2Timer = TRUE]
           w     == FinAcked(a, seg)
           d     == SegmentText(w, seg)
           new   == IF acked THEN "FIN_WAIT_2" ELSE s.state
<1>1. Steady(s, a)
      BY CheckAck
<1> HIDE DEF a
<1>2. Shift(s, w, new)
  <2>1. Steady(s, b)
        BY <1>1 DEF IsSock, SockField, Steady, Shift, Armed, Numeric
  <2> HIDE DEF b
  <2>2. Shift(b, tcpChangeState(b, "FIN_WAIT_2"), "FIN_WAIT_2")
        BY <2>1, ChangeState DEF Steady, Shift
  <2>3. Shift(s, tcpChangeState(b, "FIN_WAIT_2"), "FIN_WAIT_2")
        BY <2>1, <2>2, SteadyThen
  <2>4. w = IF acked THEN tcpChangeState(b, "FIN_WAIT_2") ELSE a
        BY DEF FinAcked, b
  <2> HIDE DEF w
  <2> QED BY <1>1, <2>3, <2>4 DEF Steady
<1> HIDE DEF w
<1>3. Shift(s, d, new)
  <2>1. Steady(w, d)
        BY <1>2, Text DEF Shift
  <2> HIDE DEF d
  <2> QED BY <1>2, <2>1, ThenSteady
<1> HIDE DEF d
<1>4. Shift(s, AcceptFin(d), new)
  <2>1. Steady(d, AcceptFin(d))
        BY <1>3, Fin DEF Shift
  <2> QED BY <1>3, <2>1, ThenSteady
<1>5. Shift(s, EnterTimeWait(AcceptFin(d)), "TIME_WAIT")
  <2>1. Shift(AcceptFin(d), EnterTimeWait(AcceptFin(d)), "TIME_WAIT")
        BY <1>4, TimeWaitEntered DEF Shift
  <2> QED BY <1>4, <2>1 DEF Shift
<1>6. Shift(s, tcpChangeState(AcceptFin(d), "CLOSING"), "CLOSING")
  <2>1. Shift(AcceptFin(d), tcpChangeState(AcceptFin(d), "CLOSING"), "CLOSING")
        BY <1>4, ChangeState DEF Shift
  <2> QED BY <1>4, <2>1 DEF Shift
<1>7. Steady(s, d) \/ Shift(s, d, "FIN_WAIT_2")
      BY <1>3 DEF Steady
<1>8. tcpStateFinWait1(s, seg) =
        IF ~Passes(s, seg) THEN Screened(s, seg)
        ELSE IF AckRejected(s, seg) THEN a
        ELSE IF ~FinInOrder(d, seg) THEN d
        ELSE IF seg.ackNum = d.sndNxt THEN EnterTimeWait(AcceptFin(d))
        ELSE tcpChangeState(AcceptFin(d), "CLOSING")
      BY DEF tcpStateFinWait1, FinWait1Fin, a, d, w
<1> QED BY <1>1, <1>5, <1>6, <1>7, <1>8, Screening

\* From FIN-WAIT-2 a segment leads to TIME-WAIT or to the end.
LEMMA StateFinWait2 ==
    ASSUME NEW s, IsSock(s), NEW seg, IsSeg(seg)
    PROVE  LET t == tcpStateFinWait2(s, seg)
           IN  Steady(s, t) \/ Ends(s, t) \/ Shift(s, t, "TIME_WAIT")
<1> DEFINE a == tcpCheckAck(s, seg)
           d == SegmentText(a, seg)
<1>1. Steady(s, a)
      BY CheckAck
<1> HIDE DEF a
<1>2. Steady(a, d)
      BY <1>1, Text DEF Steady, Shift
<1> HIDE DEF d
<1>3. Steady(s, d)
      BY <1>1, <1>2 DEF Steady, Shift
<1>4. Steady(d, AcceptFin(d))
      BY <1>3, Fin DEF Steady, Shift
<1>5. Shift(AcceptFin(d), EnterTimeWait(AcceptFin(d)), "TIME_WAIT")
      BY <1>4, TimeWaitEntered DEF Steady, Shift
<1>6. Shift(s, EnterTimeWait(AcceptFin(d)), "TIME_WAIT")
      BY <1>3, <1>4, <1>5 DEF Steady, Shift
<1> QED BY <1>1, <1>3, <1>6, Screening DEF tcpStateFinWait2, FinWait2Fin, a, d

\* From CLOSING a segment leads to TIME-WAIT or to the end.
LEMMA StateClosing ==
    ASSUME NEW s, IsSock(s), NEW seg, IsSeg(seg)
    PROVE  LET t == tcpStateClosing(s, seg)
           IN  Steady(s, t) \/ Ends(s, t) \/ Shift(s, t, "TIME_WAIT")
<1> DEFINE a == tcpCheckAck(s, seg)
<1>1. Steady(s, a)
      BY CheckAck
<1> HIDE DEF a
<1>2. Shift(a, EnterTimeWait(a), "TIME_WAIT")
      BY <1>1, TimeWaitEntered DEF Steady, Shift
<1>3. Shift(s, EnterTimeWait(a), "TIME_WAIT")
      BY <1>1, <1>2 DEF Steady, Shift
<1> QED BY <1>1, <1>3, Screening DEF tcpStateClosing, ClosingAck, a

\* Disposing of a socket whose connection has ended gives the slot back with
\* nothing left in it.
LEMMA Disposal ==
    ASSUME NEW s, NEW t, Ends(s, t)
    PROVE  GivenBack(s, Dispose(t))
<1> DEFINE d == tcpDeleteControlBlock(t)
<1>1. Steady(t, d) /\ Released(d)
      BY DeleteControlBlock DEF Ends
<1> HIDE DEF d
<1> DEFINE u == [d EXCEPT !.type = "UNUSED"]
<1>2. IsSock(u)
      BY <1>1 DEF IsSock, SockField, Numeric, Steady, Shift
<1>3. /\ u.type = "UNUSED" /\ u.state = d.state /\ u.ownedFlag = d.ownedFlag
      /\ u.resetFlag = d.resetFlag /\ u.closedFlag = d.closedFlag
      /\ Released(u)
      BY <1>1 DEF IsSock, SockField, Steady, Shift, Released
<1> HIDE DEF u
<1>4. GivenBack(s, u)
      BY <1>1, <1>2, <1>3 DEF Steady, Shift, Ends, GivenBack
<1> QED BY <1>4 DEF Dispose, d, u

\* In TIME-WAIT a segment ends the connection at most, and gives back only a
\* slot nobody owns.
LEMMA StateTimeWait ==
    ASSUME NEW s, IsSock(s), NEW seg, IsSeg(seg)
    PROVE  LET t == tcpStateTimeWait(s, seg)
           IN  Steady(s, t) \/ Ends(s, t) \/ (~s.ownedFlag /\ GivenBack(s, t))
<1> DEFINE c == Screened(s, seg)
           r == [SendAck(s) EXCEPT !.timeWaitTimer = TRUE]
<1>1. Steady(s, r)
  <2>1. Steady(s, SendAck(s))
        BY Acknowledge
  <2> QED BY <2>1 DEF IsSock, SockField, Steady, Shift, Armed, Numeric
<1>2. Resets(s, seg) => ~Passes(s, seg)
      BY DEF Resets, Passes
<1>3. Resets(s, seg) => Ends(s, c) /\ GivenBack(s, Dispose(c))
      BY <1>2, Screening, Disposal
<1>4. ~Resets(s, seg) /\ ~Passes(s, seg) => Steady(s, c)
      BY Screening
<1> HIDE DEF c, r
<1>5. Steady(s, s)
      BY SteadySelf
<1> QED BY <1>1, <1>3, <1>4, <1>5 DEF tcpStateTimeWait, c, r

\* The state changes an acceptable segment without RST may cause
Advances ==
    {<<"SYN_SENT", "ESTABLISHED">>, <<"SYN_SENT", "SYN_RECEIVED">>,
     <<"SYN_RECEIVED", "ESTABLISHED">>, <<"SYN_RECEIVED", "CLOSE_WAIT">>,
     <<"ESTABLISHED", "CLOSE_WAIT">>, <<"FIN_WAIT_1", "FIN_WAIT_2">>,
     <<"FIN_WAIT_1", "TIME_WAIT">>, <<"FIN_WAIT_1", "CLOSING">>,
     <<"FIN_WAIT_2", "TIME_WAIT">>, <<"CLOSING", "TIME_WAIT">>}

\* The whole of tcpProcessSegment, whatever the segment
LEMMA SegmentStep ==
    ASSUME NEW s, IsSock(s), NEW seg, IsSeg(seg), s.state \in TcpState \ {"LISTEN"}
    PROVE  LET t == tcpProcessSegment(s, seg)
           IN  \/ Steady(s, t)
               \/ s.state # "CLOSED" /\ Ends(s, t)
               \/ s.state = "TIME_WAIT" /\ ~s.ownedFlag /\ GivenBack(s, t)
               \/ \E new \in TcpState : <<s.state, new>> \in Advances
                                        /\ Shift(s, t, new)
<1>1. CASE s.state = "CLOSED"
      BY <1>1, StateClosed DEF tcpProcessSegment
<1>2. CASE s.state = "SYN_SENT"
      BY <1>2, StateSynSent DEF tcpProcessSegment, Advances, TcpState
<1>3. CASE s.state = "SYN_RECEIVED"
      BY <1>3, StateSynReceived DEF tcpProcessSegment, Advances, TcpState
<1>4. CASE s.state = "ESTABLISHED"
      BY <1>4, StateEstablished DEF tcpProcessSegment, Advances, TcpState
<1>5. CASE s.state = "CLOSE_WAIT"
      BY <1>5, StateCloseWait DEF tcpProcessSegment
<1>6. CASE s.state = "LAST_ACK"
      BY <1>6, StateLastAck DEF tcpProcessSegment
<1>7. CASE s.state = "FIN_WAIT_1"
      BY <1>7, StateFinWait1 DEF tcpProcessSegment, Advances, TcpState
<1>8. CASE s.state = "FIN_WAIT_2"
      BY <1>8, StateFinWait2 DEF tcpProcessSegment, Advances, TcpState
<1>9. CASE s.state = "CLOSING"
      BY <1>9, StateClosing DEF tcpProcessSegment, Advances, TcpState
<1>10. CASE s.state = "TIME_WAIT"
      BY <1>10, StateTimeWait DEF tcpProcessSegment
<1> QED BY <1>1, <1>2, <1>3, <1>4, <1>5, <1>6, <1>7, <1>8, <1>9, <1>10
        DEF TcpState

----------------------------------------------------------------------------
(* The timer handler *)

\* A retransmission timeout retransmits or ends the connection.
LEMMA RetransmissionTimeout ==
    ASSUME NEW s, IsSock(s)
    PROVE  LET t == RetransmitTimeout(s) IN Steady(s, t) \/ Ends(s, t)
<1> DEFINE l == LossRecovery(s)
           again == [tcpRetransmitSegment(l) EXCEPT !.retransmitCount = @ + 1]
           over  == [tcpChangeState(l, "CLOSED") EXCEPT !.retransmitTimer = FALSE]
<1>1. Steady(s, l)
  <2>1. FlightSsthresh(s) \in Int
        BY Threshold
  <2>2. MinOf(Smss, TxBufferSize) \in Int
        BY SizeAssumption DEF MinOf
  <2> QED BY <2>1, <2>2
          DEF IsSock, SockField, Steady, Shift, Armed, Numeric, LossRecovery
<1> HIDE DEF l
<1>2. Steady(l, tcpRetransmitSegment(l)) /\ Ends(l, tcpChangeState(l, "CLOSED"))
      BY <1>1, RetransmitSegment, ChangeState DEF Steady, Shift
<1>3. Steady(s, tcpRetransmitSegment(l)) /\ Ends(s, tcpChangeState(l, "CLOSED"))
      BY <1>1, <1>2 DEF Steady, Shift, Ends
<1>4. Steady(s, [again EXCEPT !.rttBusy = FALSE])
      BY <1>3 DEF IsSock, SockField, Steady, Shift, Armed, Numeric
<1>5. Ends(s, [over EXCEPT !.rttBusy = FALSE])
      BY <1>3 DEF IsSock, SockField, Numeric, Ends
<1> HIDE DEF again, over
<1>6. RetransmitTimeout(s) \in
        {[again EXCEPT !.rttBusy = FALSE], [over EXCEPT !.rttBusy = FALSE]}
      BY DEF RetransmitTimeout, again, over, l
<1> QED BY <1>4, <1>5, <1>6

\* A persist timeout probes or ends the connection.
LEMMA PersistenceTimeout ==
    ASSUME NEW s, IsSock(s)
    PROVE  LET t == PersistTimeout(s) IN Steady(s, t) \/ Ends(s, t)
<1> DEFINE p == tcpSendSegment(s, {"ACK"}, SeqSub(s.sndNxt, 1), s.rcvNxt, 0, FALSE)
<1>1. Steady(s, p)
      BY SendSegment
<1> HIDE DEF p
<1>2. Steady(s, [p EXCEPT !.wndProbeCount = @ + 1])
      BY <1>1 DEF IsSock, SockField, Steady, Shift, Armed, Numeric
<1> QED BY <1>2, ChangeState DEF PersistTimeout, p

\* The override timer only sends.
LEMMA OverridingTimeout ==
    ASSUME NEW s, IsSock(s)
    PROVE  Steady(s, OverrideTimeout(s))
<1>1. ASSUME NEW full \in Nat, NEW tail \in Nat, full * Smss + tail =< s.sndUser
      PROVE  Steady(s, tcpUpdateEvents(SendBurst(s, full, tail)))
  <2>1. Steady(s, SendBurst(s, full, tail))
        BY <1>1, Burst
  <2>2. Steady(SendBurst(s, full, tail),
               tcpUpdateEvents(SendBurst(s, full, tail)))
        BY <2>1, UpdateEvents DEF Steady, Shift
  <2> QED BY <2>1, <2>2 DEF Steady, Shift
<1> DEFINE u     == UsableWindow(s)
           burst == IF u <= 0 THEN 0 ELSE MinOf(s.sndUser, u)
           full  == burst \div Smss
           rest  == burst % Smss
<1>2. full \in Nat /\ rest \in Nat /\ full * Smss + rest =< s.sndUser
      BY WindowAllows
<1>3. OverrideTimeout(s) = tcpUpdateEvents(SendBurst(s, full, rest))
      BY DEF OverrideTimeout
<1> HIDE DEF full, rest
<1> QED BY <1>1, <1>2, <1>3

\* The 2MSL timer ends the connection and gives the slot back exactly when
\* nobody owns it.
LEMMA Tick2MSL ==
    ASSUME NEW s, IsSock(s)
    PROVE  LET t == TimeWaitTimeout(s)
           IN  IF s.ownedFlag THEN Ends(s, t) ELSE GivenBack(s, t)
BY ChangeState, Disposal DEF TimeWaitTimeout

\* One run of the timer handler over a live socket, whichever timers elapsed
LEMMA TimerStep ==
    ASSUME NEW s, IsSock(s), NEW elapsed, s.state # "CLOSED"
    PROVE  LET t == tcpTick(s, elapsed)
           IN  \/ Steady(s, t) \/ Ends(s, t)
               \/ s.state = "TIME_WAIT" /\ ~s.ownedFlag /\ GivenBack(s, t)
<1> DEFINE r == TickRetransmit(s, elapsed)
           p == TickPersist(r, elapsed)
           o == TickOverride(p, elapsed)
           f == TickFinWait2(o, elapsed)
           t == TickTimeWait(f, elapsed)
<1>1. Steady(s, r) \/ Ends(s, r)
      BY RetransmissionTimeout, SteadySelf DEF TickRetransmit
<1>2. tcpTick(s, elapsed) = IF r.state = "CLOSED" THEN r ELSE t
      BY DEF tcpTick, TickOthers
<1> HIDE DEF r
<1>3. SUFFICES ASSUME Steady(s, r) PROVE
                 \/ Steady(s, t) \/ Ends(s, t)
                 \/ s.state = "TIME_WAIT" /\ ~s.ownedFlag /\ GivenBack(s, t)
  <2> HIDE DEF t
  <2> QED BY <1>1, <1>2 DEF Ends, Steady, Shift
<1>4. Steady(s, p) \/ Ends(s, p)
  <2>1. Steady(r, p) \/ Ends(r, p)
        BY <1>3, PersistenceTimeout, SteadySelf
        DEF Steady, Shift, TickPersist
  <2> HIDE DEF p
  <2> QED BY <1>3, <2>1, SteadyEnds DEF Steady, Shift
<1> HIDE DEF p
<1>5. Steady(s, o) \/ Ends(s, o)
  <2>1. Steady(p, o)
        BY <1>4, OverridingTimeout, SteadySelf
        DEF Steady, Shift, Ends, TickOverride
  <2> HIDE DEF o
  <2> QED BY <1>4, <2>1 DEF Steady, Shift, Ends
<1> HIDE DEF o
<1>6. Steady(s, f) \/ Ends(s, f)
  <2>1. CASE Steady(s, o)
    <3>1. Steady(o, f) \/ Ends(o, f)
          BY <2>1, ChangeState, SteadySelf DEF Steady, Shift, TickFinWait2
    <3> HIDE DEF f
    <3> QED BY <2>1, <3>1, SteadyEnds DEF Steady, Shift
  <2>2. CASE Ends(s, o)
        BY <2>2 DEF Ends, TickFinWait2
  <2> QED BY <1>5, <2>1, <2>2
<1> HIDE DEF f
<1>7. CASE Ends(s, f)
      BY <1>7 DEF Ends, TickTimeWait
<1>8. CASE Steady(s, f)
  <2>1. CASE "timeWait" \in elapsed /\ f.state = "TIME_WAIT"
    <3>1. IF f.ownedFlag THEN Ends(f, t) ELSE GivenBack(f, t)
          BY <1>8, <2>1, Tick2MSL DEF Steady, Shift, TickTimeWait
    <3> HIDE DEF t
    <3> QED BY <1>8, <2>1, <3>1 DEF Steady, Shift, Ends, GivenBack
  <2>2. CASE ~("timeWait" \in elapsed /\ f.state = "TIME_WAIT")
        BY <1>8, <2>2 DEF TickTimeWait
  <2> QED BY <2>1, <2>2
<1> QED BY <1>6, <1>7, <1>8

----------------------------------------------------------------------------
(* The socket operations *)

IsTask(t) == DOMAIN t = {"pc", "flags", "data", "left", "error", "before"}

\* A stretch of a call of the user: the socket stays as it is, or the FIN
\* goes out; the task is blocked or has returned.
UserStep(s, o) ==
    /\ IsTask(o.task) /\ o.task.pc \in TaskPc \ {"free"}
    /\ \/ Steady(s, o.sock)
       \/ s.state = "ESTABLISHED" /\ Shift(s, o.sock, "FIN_WAIT_1")
       \/ s.state = "CLOSE_WAIT" /\ Shift(s, o.sock, "LAST_ACK")

\* A call that returns after a steady step is a user step.
LEMMA Returning ==
    ASSUME NEW s, NEW u, Steady(s, u), NEW error
    PROVE  UserStep(s, Return(u, error))
BY DEF UserStep, Return, Outcome, Returned, Call, IsTask, TaskPc

\* A call that blocks after a steady step is a user step.
LEMMA BlockingOn ==
    ASSUME NEW s, NEW u, Steady(s, u), NEW t, IsTask(t), NEW pc \in Blocked
    PROVE  UserStep(s, Blocks(u, t, pc))
BY DEF UserStep, Blocks, Outcome, IsTask, TaskPc, Blocked

\* Blocking in Tcp_Wait_For_Events is a user step.
LEMMA Blocking ==
    ASSUME NEW s, IsSock(s), NEW t, IsTask(t), NEW event, NEW pc \in Blocked
    PROVE  UserStep(s, Block(s, t, event, pc))
BY WaitForEvents, BlockingOn DEF Block

\* A user step that follows a steady step is one from where that started.
LEMMA UserStepAfter ==
    ASSUME NEW s, NEW u, Steady(s, u), NEW o, UserStep(u, o)
    PROVE  UserStep(s, o)
BY DEF UserStep, Steady, Shift

\* A call is a task.
LEMMA Calls ==
    ASSUME NEW pc, NEW flags, NEW data, NEW left
    PROVE  IsTask(Call(pc, flags, data, left)) /\ Call(pc, flags, data, left).pc = pc
BY DEF IsTask, Call

\* The receive half of Tcp_Shutdown is a user step.
LEMMA ReceiveShutdown ==
    ASSUME NEW s, IsSock(s), NEW t, IsTask(t)
    PROVE  UserStep(s, ShutdownReceive(s, t))
<1>1. UserStep(s, Block(s, t, "RX_SHUTDOWN", "rxShutdown"))
      BY Blocking DEF Blocked
<1>2. /\ UserStep(s, Return(s, "NO_ERROR"))
      /\ UserStep(s, Return(s, "NOT_CONNECTED"))
      BY Returning, SteadySelf
<1> QED BY <1>1, <1>2 DEF ShutdownReceive

\* The send half of Tcp_Shutdown is a user step: its only changes of state
\* are to FIN-WAIT-1 and LAST-ACK.
LEMMA SendShutdown ==
    ASSUME NEW s, IsSock(s), NEW t, IsTask(t)
    PROVE  UserStep(s, ShutdownSend(s, t))
<1> DEFINE f == tcpSendSegment(s, {"FIN", "ACK"}, s.sndNxt, s.rcvNxt, 0, TRUE)
           n == [f EXCEPT !.sndNxt = SeqAdd(@, 1)]
           new == IF s.state = "ESTABLISHED" THEN "FIN_WAIT_1" ELSE "LAST_ACK"
           g == tcpChangeState(n, new)
<1>1. Steady(s, f)
      BY SendSegment
<1> HIDE DEF f
<1>2. Steady(s, n)
  <2>1. f.sndNxt \in Int /\ 1 \in Int
        BY <1>1 DEF Steady, Shift, IsSock, Numeric
  <2>2. SeqAdd(f.sndNxt, 1) \in Int
        BY <2>1, SeqIntegral
  <2> DEFINE k == SeqAdd(f.sndNxt, 1)
  <2>3. k \in Int
        BY <2>2
  <2> HIDE DEF k
  <2>4. Steady(s, [f EXCEPT !.sndNxt = k])
        BY <1>1, <2>3 DEF IsSock, SockField, Steady, Shift, Armed, Numeric
  <2> QED BY <2>4 DEF k
<1> HIDE DEF n
<1>3. Shift(n, g, new)
      BY <1>2, ChangeState DEF Steady, Shift
<1> HIDE DEF g
<1>4. Shift(s, g, new)
      BY <1>2, <1>3, SteadyThen
<1>5. s.state \in {"ESTABLISHED", "CLOSE_WAIT"}
        => UserStep(s, Block(g, t, "TX_SHUTDOWN", "txShutdown"))
  <2>1. Steady(g, Block(g, t, "TX_SHUTDOWN", "txShutdown").sock)
        BY <1>4, WaitForEvents DEF Block, Blocks, Outcome, Shift
  <2>2. UserStep(g, Block(g, t, "TX_SHUTDOWN", "txShutdown"))
        BY <1>4, Blocking DEF Blocked, Shift
  <2>3. Shift(s, Block(g, t, "TX_SHUTDOWN", "txShutdown").sock, new)
        BY <1>4, <2>1, ThenSteady
  <2> QED BY <2>2, <2>3 DEF UserStep
<1>6. /\ UserStep(s, Return(f, "FAILURE"))
      /\ UserStep(s, Return(s, "NOT_CONNECTED"))
      /\ UserStep(s, Block(s, t, "TX_SHUTDOWN", "txShutdown"))
      /\ UserStep(s, ShutdownReceive(s, t))
      BY <1>1, Returning, SteadySelf, Blocking, ReceiveShutdown DEF Blocked
<1>7. ShutdownSend(s, t) \in
        {Return(s, "NOT_CONNECTED"), Return(f, "FAILURE"),
         Block(s, t, "TX_SHUTDOWN", "txShutdown"), ShutdownReceive(s, t)}
        \cup (IF s.state \in {"ESTABLISHED", "CLOSE_WAIT"}
              THEN {Block(g, t, "TX_SHUTDOWN", "txShutdown")} ELSE {})
      BY DEF ShutdownSend, g, n, f
<1> QED BY <1>5, <1>6, <1>7

\* The end of Tcp_Send is a user step.
LEMMA SendingDone ==
    ASSUME NEW s, IsSock(s), NEW t, IsTask(t)
    PROVE  UserStep(s, SendDone(s, t))
<1> DEFINE d == tcpWaitForEvents(s, {"TX_DONE"})
           a == tcpWaitForEvents(s, {"TX_ACKED"})
<1>1. Steady(s, d) /\ Steady(s, a)
      BY WaitForEvents
<1> HIDE DEF d, a
<1>2. UserStep(s, ShutdownSend(d, t))
  <2>1. UserStep(d, ShutdownSend(d, t))
        BY <1>1, SendShutdown DEF Steady, Shift
  <2> QED BY <1>1, <2>1, UserStepAfter
<1>3. /\ UserStep(s, Blocks(d, t, "txDone")) /\ UserStep(s, Blocks(a, t, "txAcked"))
      /\ UserStep(s, Return(a, "NO_ERROR")) /\ UserStep(s, Return(s, "NO_ERROR"))
      BY <1>1, BlockingOn, Returning, SteadySelf DEF Blocked
<1> QED BY <1>2, <1>3 DEF SendDone, d, a

\* The loop body of Tcp_Send writes and sends in a steady step, then waits or
\* ends.
LEMMA Sending ==
    ASSUME NEW s, IsSock(s), NEW t, IsTask(t)
    PROVE  \E g, r : /\ Steady(s, g) /\ IsTask(r)
                     /\ SendData(s, t) \in {SendDone(g, r),
                                            Block(g, r, "TX_READY", t.pc)}
<1> DEFINE room == TxBufferSize - Buffered(s)
           n == IF Len(t.data) \in 0 .. room THEN Len(t.data) ELSE room
           x == tcpWriteTxBuffer(s, SeqAdd(s.sndNxt, s.sndUser),
                                 SubSeq(t.data, 1, n))
           w == [x EXCEPT !.sndUser = U16(@ + n)]
           u == [tcpUpdateEvents(w) EXCEPT !.overrideTimer = @ \/ s.sndUser = 0]
           v == IF n > 0 THEN u ELSE s
           g == tcpNagleAlgo(v, NagleFlags(t))
           r == [t EXCEPT !.data = SubSeq(@, n + 1, Len(@))]
<1>0. U16(s.sndUser + n) \in Nat
  <2>1. s.sndUser \in Nat /\ s.sndNxt \in Int /\ s.sndUna \in Int
        BY DEF IsSock, Numeric
  <2>2. SeqSub(s.sndNxt, s.sndUna) \in Int
        BY <2>1, SeqIntegral
  <2>3. Buffered(s) \in Int
    <3> DEFINE k == SeqSub(s.sndNxt, s.sndUna)
    <3>1. k \in Int /\ s.sndUser \in Int
          BY <2>1, <2>2
    <3> HIDE DEF k
    <3>2. SeqAdd(s.sndUser, k) \in Int
          BY <3>1, SeqIntegral
    <3> QED BY <3>2 DEF Buffered, k
  <2>4. room \in Int
        BY <2>3, SizeAssumption
  <2> HIDE DEF room
  <2>5. s.sndUser + n \in Int
        BY <2>1, <2>4
  <2> HIDE DEF n
  <2> QED BY <2>5, U16Integral
<1> HIDE DEF n
<1>1. Steady(s, w)
      BY <1>0 DEF IsSock, SockField, Steady, Shift, Armed, Numeric, tcpWriteTxBuffer
<1> HIDE DEF x, w
<1>2. Steady(w, tcpUpdateEvents(w))
      BY <1>1, UpdateEvents DEF Steady, Shift
<1>3. Steady(s, u)
      BY <1>1, <1>2 DEF IsSock, SockField, Steady, Shift, Armed, Numeric
<1> HIDE DEF u
<1>4. Steady(s, v)
      BY <1>3, SteadySelf
<1> HIDE DEF v
<1>5. Steady(v, g)
      BY <1>4, NagleAlgo DEF Steady, Shift
<1> HIDE DEF g
<1>6. Steady(s, g)
      BY <1>4, <1>5 DEF Steady, Shift
<1>7. IsTask(r)
      BY DEF IsTask
<1>8. SendData(s, t) = IF r.data = <<>> THEN SendDone(g, r)
                       ELSE Block(g, r, "TX_READY", t.pc)
      BY DEF SendData, g, v, u, w, x, n
<1> HIDE DEF r
<1> QED BY <1>6, <1>7, <1>8

\* It is a user step.
LEMMA SendingData ==
    ASSUME NEW s, IsSock(s), NEW t, IsTask(t), t.pc \in Blocked
    PROVE  UserStep(s, SendData(s, t))
<1>1. PICK g, r : /\ Steady(s, g) /\ IsTask(r)
                  /\ SendData(s, t) \in {SendDone(g, r),
                                         Block(g, r, "TX_READY", t.pc)}
      BY Sending
<1>2. UserStep(g, SendDone(g, r)) /\ UserStep(g, Block(g, r, "TX_READY", t.pc))
      BY <1>1, SendingDone, Blocking DEF Steady, Shift
<1>3. UserStep(s, SendDone(g, r)) /\ UserStep(s, Block(g, r, "TX_READY", t.pc))
      BY <1>1, <1>2, UserStepAfter
<1> QED BY <1>1, <1>3

\* Tcp_Send after its wait is a user step.
LEMMA SendingReady ==
    ASSUME NEW s, IsSock(s), NEW t, IsTask(t), t.pc \in Blocked
    PROVE  UserStep(s, SendReady(s, t))
<1>1. \A e : UserStep(s, Return(s, e))
      BY Returning, SteadySelf
<1>2. UserStep(s, SendData(s, t))
      BY SendingData
<1> QED BY <1>1, <1>2 DEF SendReady

\* The wait of Tcp_Send is a user step.
LEMMA SendingWait ==
    ASSUME NEW s, IsSock(s), NEW t, IsTask(t), t.pc \in Blocked
    PROVE  UserStep(s, SendWait(s, t))
<1> DEFINE u == tcpWaitForEvents(s, {"TX_READY"})
<1>1. Steady(s, u)
      BY WaitForEvents
<1> HIDE DEF u
<1>2. UserStep(u, SendReady(u, t))
      BY <1>1, SendingReady DEF Steady, Shift
<1>3. UserStep(s, SendReady(u, t)) /\ UserStep(s, Blocks(u, t, t.pc))
      BY <1>1, <1>2, UserStepAfter, BlockingOn
<1> QED BY <1>3 DEF SendWait, u

\* Tcp_Send is a user step.
LEMMA SendStep ==
    ASSUME NEW s, IsSock(s), NEW data, NEW flags
    PROVE  UserStep(s, Tcp_Send(s, data, flags))
BY SendingWait, Calls DEF Tcp_Send, Blocked

\* Tcp_Shutdown is a user step.
LEMMA ShutdownStep ==
    ASSUME NEW s, IsSock(s), NEW flags
    PROVE  UserStep(s, Tcp_Shutdown(s, flags))
<1> DEFINE t == Call("flush", flags, <<>>, 0)
<1>1. IsTask(t) /\ t.pc \in Blocked
      BY Calls DEF Blocked
<1> HIDE DEF t
<1>2. /\ UserStep(s, ShutdownReceive(s, t)) /\ UserStep(s, SendWait(s, t))
      /\ UserStep(s, ShutdownSend(s, t))
      BY <1>1, ReceiveShutdown, SendingWait, SendShutdown
<1> QED BY <1>2 DEF Tcp_Shutdown, t

\* The loop body of Tcp_Receive is a user step.
LEMMA ReceivingData ==
    ASSUME NEW s, IsSock(s), NEW t, IsTask(t), t.pc \in Blocked
    PROVE  UserStep(s, ReceiveData(s, t))
<1> DEFINE n   == MinOf(s.rcvUser, t.left)
           seq == SeqSub(s.rcvNxt, s.rcvUser + IF FinReceived(s) THEN 1 ELSE 0)
           got == tcpReadRxBuffer(s, seq, n)
           c   == [s EXCEPT !.rcvUser = @ - n]
           d   == tcpUpdateReceiveWindow(c)
           u   == tcpUpdateEvents(d)
           r   == [t EXCEPT !.data = @ \o got, !.left = @ - n]
           w   == tcpWaitForEvents(u, {"RX_READY"})
           o   == CASE r.left = 0 \/ "WAIT_ALL" \notin t.flags ->
                         Return(u, "NO_ERROR")
                    [] r.left # 0 /\ "WAIT_ALL" \in t.flags /\ w.eventFlags = {} ->
                         Blocks(w, r, t.pc)
                    [] OTHER -> EndOfStream(w, r)
<1>1. Steady(s, c)
      BY OtherField DEF SockField
<1> HIDE DEF c
<1>2. Steady(c, d)
      BY <1>1, UpdateReceiveWindow DEF Steady, Shift
<1> HIDE DEF d
<1>3. Steady(d, u)
      BY <1>2, UpdateEvents DEF Steady, Shift
<1> HIDE DEF u
<1>4. Steady(s, u)
      BY <1>1, <1>2, <1>3 DEF Steady, Shift
<1>5. Steady(u, w)
      BY <1>4, WaitForEvents DEF Steady, Shift
<1> HIDE DEF w, got
<1>6. Steady(s, w)
      BY <1>4, <1>5 DEF Steady, Shift
<1>7. IsTask(r)
      BY DEF IsTask
<1> HIDE DEF r
<1>8. /\ UserStep(s, Return(u, "NO_ERROR")) /\ UserStep(s, Blocks(w, r, t.pc))
      /\ UserStep(s, EndOfStream(w, r))
      BY <1>4, <1>6, <1>7, Returning, BlockingOn DEF EndOfStream
<1>9. UserStep(s, o) /\ DOMAIN o = {"sock", "task", "got"}
      BY <1>8 DEF Return, Blocks, EndOfStream, Outcome
<1> HIDE DEF o
<1>10. UserStep(s, [o EXCEPT !.got = got])
      BY <1>9 DEF UserStep
<1> QED BY <1>10 DEF ReceiveData, o, w, u, d, c, r, got

\* Tcp_Receive after its wait is a user step.
LEMMA ReceivingReady ==
    ASSUME NEW s, IsSock(s), NEW t, IsTask(t), t.pc \in Blocked
    PROVE  UserStep(s, ReceiveReady(s, t))
<1>1. \A e : UserStep(s, Return(s, e))
      BY Returning, SteadySelf
<1>2. UserStep(s, ReceiveData(s, t)) /\ UserStep(s, EndOfStream(s, t))
      BY <1>1, ReceivingData DEF EndOfStream
<1> QED BY <1>1, <1>2 DEF ReceiveReady

\* Tcp_Receive is a user step.
LEMMA ReceiveStep ==
    ASSUME NEW s, IsSock(s), NEW length, NEW flags
    PROVE  UserStep(s, Tcp_Receive(s, length, flags))
<1> DEFINE t == Call("receive", flags, <<>>, length)
           u == tcpWaitForEvents(s, {"RX_READY"})
<1>1. IsTask(t) /\ t.pc \in Blocked
      BY Calls DEF Blocked
<1>2. Steady(s, u)
      BY WaitForEvents
<1> HIDE DEF t, u
<1>3. UserStep(u, ReceiveReady(u, t))
      BY <1>1, <1>2, ReceivingReady DEF Steady, Shift
<1>4. UserStep(s, ReceiveReady(u, t)) /\ UserStep(s, Blocks(u, t, t.pc))
      BY <1>1, <1>2, <1>3, UserStepAfter, BlockingOn
<1> QED BY <1>4 DEF Tcp_Receive, t, u

\* Whatever a blocked call does when it wakes up is a user step.
LEMMA ResumeStep ==
    ASSUME NEW s, IsSock(s), NEW t, IsTask(t), t.pc \in Blocked
    PROVE  UserStep(s, Resume(s, t))
<1>1. \A e : UserStep(s, Return(s, e))
      BY Returning, SteadySelf
<1>2. /\ UserStep(s, SendReady(s, t)) /\ UserStep(s, ReceiveReady(s, t))
      /\ UserStep(s, ShutdownSend(s, t)) /\ UserStep(s, ShutdownReceive(s, t))
      BY SendingReady, ReceivingReady, SendShutdown, ReceiveShutdown
<1>3. UserStep(s, ConnectDone(s))
      BY <1>1 DEF ConnectDone
<1> QED BY <1>1, <1>2, <1>3 DEF Resume, Blocked

\* Socket_Open yields a closed stream socket without owner or reset flag.
LEMMA OpenStep ==
    ASSUME NEW s, IsSock(s)
    PROVE  LET t == Socket_Open(s)
           IN  /\ IsSock(t)
               /\ t.type = "STREAM" /\ t.state = "CLOSED"
               /\ t.resetFlag = FALSE /\ t.closedFlag = FALSE
               /\ t.ownedFlag = FALSE
<1> DEFINE t == Socket_Open(s)
<1>1. /\ DOMAIN t = SockField
      /\ t.type = "STREAM" /\ t.state = "CLOSED"
      /\ t.resetFlag = FALSE /\ t.closedFlag = FALSE /\ t.ownedFlag = FALSE
      BY DEF IsSock, SockField, Socket_Open
<1>2. /\ t.sndUser = 0 /\ t.txRoom = s.txRoom /\ t.sndUna = 0 /\ t.sndNxt = 0
      /\ t.sndWnd = 0 /\ t.cwnd = 0 /\ t.ssthresh = 0 /\ t.n = 0
      BY DEF IsSock, SockField, Socket_Open
<1> HIDE DEF t
<1>3. Numeric(t)
      BY <1>2 DEF IsSock, Numeric
<1>4. IsSock(t)
      BY <1>1, <1>3 DEF IsSock
<1> QED BY <1>1, <1>4 DEF t

\* Initializing the control block makes the user the owner and leaves type,
\* state and reset flag alone.
LEMMA ControlBlock ==
    ASSUME NEW s, IsSock(s), NEW iss \in Int
    PROVE  LET t == InitControlBlock(s, iss)
           IN  /\ IsSock(t) /\ t.type = s.type /\ t.state = s.state
               /\ t.resetFlag = s.resetFlag /\ t.closedFlag = s.closedFlag
               /\ t.ownedFlag = TRUE /\ t.txRoom = s.txRoom
<1>1. SeqAdd(iss, 1) \in Int
      BY SeqIntegral
<1>2. MinOf(3 * Smss, TxBufferSize) \in Int
      BY SizeAssumption DEF MinOf
<1>3. U16Max \in Int
      BY DEF U16Max
<1> DEFINE t == InitControlBlock(s, iss)
<1>4. /\ DOMAIN t = SockField /\ t.type = s.type /\ t.state = s.state
      /\ t.resetFlag = s.resetFlag /\ t.closedFlag = s.closedFlag
      /\ t.ownedFlag = TRUE /\ t.txRoom = s.txRoom
      BY DEF IsSock, SockField, InitControlBlock
<1>5. /\ t.sndUser = s.sndUser /\ t.sndWnd = s.sndWnd /\ t.n = s.n
      /\ t.sndUna = iss /\ t.sndNxt = SeqAdd(iss, 1)
      /\ t.cwnd = MinOf(3 * Smss, TxBufferSize) /\ t.ssthresh = U16Max
      BY DEF IsSock, SockField, InitControlBlock
<1> HIDE DEF t
<1>6. IsSock(t)
      BY <1>1, <1>2, <1>3, <1>4, <1>5 DEF IsSock, Numeric
<1> QED BY <1>4, <1>6 DEF t

\* A first segment (SYN or SYN|ACK) that goes out leaves the timer running,
\* even if the queue of an earlier, failed connection is still there.
LEMMA Opening ==
    ASSUME NEW i, IsSock(i), i.txRoom \in Nat, NEW flags, NEW seqNum, NEW ackNum,
           NEW new, new # "CLOSED",
           LET c == tcpSendSegment(i, flags, seqNum, ackNum, 0, TRUE) IN ~c.err
    PROVE  LET c == tcpSendSegment(i, flags, seqNum, ackNum, 0, TRUE)
               t == tcpChangeState(c, new)
           IN  Shift(i, t, new) /\ Armed(t)
<1> DEFINE c == tcpSendSegment(i, flags, seqNum, ackNum, 0, TRUE)
           t == tcpChangeState(c, new)
<1>1. Steady(i, c) /\ Armed(c)
      BY SendSegment, SendSegmentArms
<1> HIDE DEF c
<1>2. Shift(c, t, new)
      BY <1>1, ChangeState DEF Steady, Shift
<1> HIDE DEF t
<1>3. Shift(i, t, new) /\ Armed(t)
      BY <1>1, <1>2 DEF Steady, Shift
<1> QED BY <1>3 DEF t, c

\* The wait of Tcp_Connect is a steady user step.
LEMMA ConnectWaiting ==
    ASSUME NEW s, IsSock(s)
    PROVE  UserStep(s, ConnectWait(s)) /\ Steady(s, ConnectWait(s).sock)
<1> DEFINE u == tcpWaitForEvents(s, {"CONNECTED", "CLOSED"})
           t == Call("connect", {}, <<>>, 0)
<1>1. Steady(s, u)
      BY WaitForEvents
<1>2. IsTask(t)
      BY Calls
<1> HIDE DEF u, t
<1>3. UserStep(s, Blocks(u, t, "connect")) /\ Blocks(u, t, "connect").sock = u
      BY <1>1, <1>2, BlockingOn DEF Blocked, Blocks, Outcome
<1>4. UserStep(s, ConnectDone(u)) /\ ConnectDone(u).sock = u
      BY <1>1, Returning DEF ConnectDone, Return, Outcome
<1> QED BY <1>1, <1>3, <1>4 DEF ConnectWait, u, t

\* Tcp_Connect leaves the socket in CLOSED or, the timer armed, in SYN-SENT,
\* and makes the user its owner either way.
LEMMA ConnectStep ==
    ASSUME NEW s, IsSock(s), s.txRoom \in Nat, NEW iss \in Int, s.state = "CLOSED"
    PROVE  LET o == Tcp_Connect(s, iss)
           IN  /\ IsTask(o.task) /\ o.task.pc \in TaskPc \ {"free"}
               /\ IsSock(o.sock) /\ o.sock.type = s.type
               /\ o.sock.resetFlag = s.resetFlag /\ o.sock.closedFlag = s.closedFlag
               /\ o.sock.ownedFlag = TRUE
               /\ \/ o.sock.state = "CLOSED"
                  \/ o.sock.state = "SYN_SENT" /\ Armed(o.sock)
<1> DEFINE b == InitControlBlock(s, iss)
           i == [b EXCEPT !.congestState = "IDLE"]
           c == tcpSendSegment(i, {"SYN"}, iss, 0, 0, TRUE)
           h == tcpChangeState(c, "SYN_SENT")
           n == tcpDeleteControlBlock([s EXCEPT !.ownedFlag = TRUE])
<1>1. /\ IsSock(i) /\ i.type = s.type /\ i.state = s.state
      /\ i.resetFlag = s.resetFlag /\ i.closedFlag = s.closedFlag
      /\ i.ownedFlag = TRUE /\ i.txRoom \in Nat
  <2>1. /\ IsSock(b) /\ b.type = s.type /\ b.state = s.state
        /\ b.resetFlag = s.resetFlag /\ b.closedFlag = s.closedFlag
        /\ b.ownedFlag = TRUE /\ b.txRoom = s.txRoom
        BY ControlBlock
  <2> HIDE DEF b
  <2> QED BY <2>1 DEF IsSock, SockField, Numeric
<1> HIDE DEF i
<1>2. Steady(i, c)
      BY <1>1, SendSegment
<1>3. ~c.err => Shift(i, h, "SYN_SENT") /\ Armed(h)
      BY <1>1, Opening
<1> HIDE DEF c, h
<1>4. ~c.err => /\ UserStep(h, ConnectWait(h)) /\ Steady(h, ConnectWait(h).sock)
      BY <1>3, ConnectWaiting DEF Shift
<1>5. /\ IsSock(n) /\ n.type = s.type /\ n.state = s.state
      /\ n.resetFlag = s.resetFlag /\ n.closedFlag = s.closedFlag
      /\ n.ownedFlag = TRUE
  <2> DEFINE m == [s EXCEPT !.ownedFlag = TRUE]
  <2>1. /\ IsSock(m) /\ m.type = s.type /\ m.state = s.state
        /\ m.resetFlag = s.resetFlag /\ m.closedFlag = s.closedFlag
        /\ m.ownedFlag = TRUE
        BY DEF IsSock, SockField, Numeric
  <2> HIDE DEF m
  <2>2. Steady(m, tcpDeleteControlBlock(m))
        BY <2>1, DeleteControlBlock
  <2>3. n = tcpDeleteControlBlock(m)
        BY DEF m
  <2> HIDE DEF n
  <2> QED BY <2>1, <2>2, <2>3 DEF Steady, Shift
<1> HIDE DEF n
<1>6. ASSUME NEW t
      PROVE  /\ Return(t, "FAILURE").sock = t
             /\ IsTask(Return(t, "FAILURE").task)
             /\ Return(t, "FAILURE").task.pc \in TaskPc \ {"free"}
      BY DEF Return, Outcome, Returned, Call, IsTask, TaskPc
<1>7. Tcp_Connect(s, iss) =
        IF s.fault = "noBuffer" THEN Return(n, "FAILURE")
        ELSE IF c.err THEN Return(c, "FAILURE") ELSE ConnectWait(h)
      BY DEF Tcp_Connect, n, h, c, i
<1>8. CASE s.fault = "noBuffer"
      BY <1>5, <1>6, <1>7, <1>8
<1>9. CASE s.fault # "noBuffer" /\ c.err
      BY <1>1, <1>2, <1>6, <1>7, <1>9 DEF Steady, Shift
<1>10. CASE s.fault # "noBuffer" /\ ~c.err
      BY <1>1, <1>3, <1>4, <1>7, <1>10 DEF Steady, Shift, UserStep
<1> QED BY <1>8, <1>9, <1>10

\* Tcp_Abort: in TIME-WAIT the user only gives up the ownership.
LEMMA AbortStep ==
    ASSUME NEW s, IsSock(s)
    PROVE  LET t == Tcp_Abort(s)
           IN  IF s.state = "TIME_WAIT"
               THEN /\ IsSock(t) /\ t.type = s.type /\ t.state = s.state
                    /\ t.resetFlag = s.resetFlag /\ t.closedFlag = s.closedFlag
                    /\ t.ownedFlag = FALSE
                    /\ Armed(s) => Armed(t)
               ELSE GivenBack(s, t)
<1> DEFINE r == tcpSendSegment(s, {"RST"}, s.sndNxt, 0, 0, FALSE)
           o == [s EXCEPT !.ownedFlag = FALSE]
<1>1. GivenBack(s, Dispose(tcpChangeState(r, "CLOSED")))
  <2>1. Steady(s, r)
        BY SendSegment
  <2> HIDE DEF r
  <2>2. Ends(r, tcpChangeState(r, "CLOSED"))
        BY <2>1, ChangeState DEF Steady, Shift
  <2>3. Ends(s, tcpChangeState(r, "CLOSED"))
        BY <2>1, <2>2, SteadyEnds
  <2> QED BY <2>3, Disposal
<1>2. GivenBack(s, Dispose(tcpChangeState(s, "CLOSED")))
      BY ChangeState, Disposal
<1>3. /\ IsSock(o) /\ o.type = s.type /\ o.state = s.state
      /\ o.resetFlag = s.resetFlag /\ o.closedFlag = s.closedFlag
      /\ o.ownedFlag = FALSE
      /\ Armed(s) => Armed(o)
      BY DEF IsSock, SockField, Numeric, Armed
<1>4. s.state = "TIME_WAIT" => Tcp_Abort(s) = o
      BY DEF Tcp_Abort
<1>5. s.state # "TIME_WAIT" =>
        Tcp_Abort(s) \in {Dispose(tcpChangeState(r, "CLOSED")),
                          Dispose(tcpChangeState(s, "CLOSED"))}
      BY DEF Tcp_Abort
<1> HIDE DEF o, r
<1> QED BY <1>1, <1>2, <1>3, <1>4, <1>5

\* Tcp_Accept leaves its child in SYN-RECEIVED and armed, or gives it back.
LEMMA AcceptStep ==
    ASSUME NEW s, IsSock(s), s.txRoom \in Nat, NEW isn, NEW iss \in Int,
           s.state = "CLOSED"
    PROVE  LET t == AcceptChild(s, isn, iss)
           IN  /\ IsSock(t) /\ t.ownedFlag = TRUE
               /\ \/ /\ t.state = "SYN_RECEIVED" /\ Armed(t)
                     /\ t.type = s.type /\ t.resetFlag = s.resetFlag
                     /\ t.closedFlag = s.closedFlag
                  \/ /\ t.state = "CLOSED" /\ t.type = "UNUSED"
                     /\ t.resetFlag = TRUE /\ Released(t)
<1> DEFINE b == InitControlBlock(s, iss)
           i == [b EXCEPT !.irs = isn, !.rcvNxt = SeqAdd(isn, 1)]
           c == tcpSendSegment(i, {"SYN", "ACK"}, iss, i.rcvNxt, 0, TRUE)
           h == tcpChangeState(c, "SYN_RECEIVED")
           m == [s EXCEPT !.ownedFlag = TRUE]
<1>1. /\ IsSock(i) /\ i.type = s.type /\ i.state = s.state
      /\ i.resetFlag = s.resetFlag /\ i.closedFlag = s.closedFlag
      /\ i.ownedFlag = TRUE /\ i.txRoom \in Nat
  <2>1. /\ IsSock(b) /\ b.type = s.type /\ b.state = s.state
        /\ b.resetFlag = s.resetFlag /\ b.closedFlag = s.closedFlag
        /\ b.ownedFlag = TRUE /\ b.txRoom = s.txRoom
        BY ControlBlock
  <2> HIDE DEF b
  <2> QED BY <2>1 DEF IsSock, SockField, Numeric
<1> HIDE DEF i
<1>2. Steady(i, c)
      BY <1>1, SendSegment
<1>3. ~c.err => Shift(i, h, "SYN_RECEIVED") /\ Armed(h)
      BY <1>1, Opening
<1> HIDE DEF c, h
<1>4. /\ IsSock(m) /\ m.type = s.type /\ m.state = s.state
      /\ m.resetFlag = s.resetFlag /\ m.closedFlag = s.closedFlag
      /\ m.ownedFlag = TRUE
      BY DEF IsSock, SockField, Numeric
<1> HIDE DEF m
<1>5. GivenBack(m, Tcp_Abort(m)) /\ GivenBack(c, Tcp_Abort(c))
      BY <1>1, <1>2, <1>4, AbortStep DEF Steady, Shift
<1>6. AcceptChild(s, isn, iss) =
        IF s.fault = "noBuffer" THEN Tcp_Abort(m)
        ELSE IF c.err THEN Tcp_Abort(c) ELSE h
      BY DEF AcceptChild, m, h, c, i
<1>7. CASE s.fault = "noBuffer"
      BY <1>4, <1>5, <1>6, <1>7 DEF GivenBack
<1>8. CASE s.fault # "noBuffer" /\ c.err
      BY <1>1, <1>2, <1>5, <1>6, <1>8 DEF GivenBack, Steady, Shift
<1>9. CASE s.fault # "noBuffer" /\ ~c.err
      BY <1>1, <1>3, <1>6, <1>9 DEF Shift
<1> QED BY <1>7, <1>8, <1>9

----------------------------------------------------------------------------
(* When the event flags and the event object of a socket agree with its    *)
(* state: every critical section that finds them up to date leaves them up *)
(* to date, and a task that blocks leaves them up to date whatever it      *)
(* found.                                                                  *)

\* The flags are those of the present state, and the event object is signaled
\* if there are any.
UpToDate(s) ==
    /\ s.eventFlags = RaisedEvents(s)
    /\ RaisedEvents(s) # {} => s.event

\* s turns into t, and no field that events depend on changes
Unseen(s, t) ==
    /\ t.eventMask = s.eventMask /\ t.eventFlags = s.eventFlags
    /\ t.event = s.event
    /\ t.state = s.state /\ t.sndUser = s.sndUser /\ t.sndNxt = s.sndNxt
    /\ t.sndUna = s.sndUna /\ t.rcvUser = s.rcvUser
    /\ t.synQueue = s.synQueue

\* An unseen change keeps the flags up to date.
LEMMA UnseenKeeps ==
    ASSUME NEW s, NEW t, Unseen(s, t), UpToDate(s)
    PROVE  UpToDate(t)
<1>1. Buffered(t) = Buffered(s)
      BY DEF Unseen, Buffered
<1>2. ASSUME NEW e PROVE EventHolds(t, e) = EventHolds(s, e)
      BY <1>1 DEF Unseen, EventHolds
<1>3. RaisedEvents(t) = RaisedEvents(s)
      BY <1>2 DEF RaisedEvents, Unseen
<1> QED BY <1>3 DEF UpToDate, Unseen

\* Unseen changes compose.
LEMMA UnseenThen ==
    ASSUME NEW s, NEW t, NEW u, Unseen(s, t), Unseen(t, u)
    PROVE  Unseen(s, u)
BY DEF Unseen

----------------------------------------------------------------------------
(* The operators that bring the flags up to date *)

\* tcpUpdateEvents brings the flags up to date.
LEMMA UpdateEventsUpdates ==
    ASSUME NEW s, IsSock(s)
    PROVE  UpToDate(tcpUpdateEvents(s))
<1> DEFINE t == tcpUpdateEvents(s)
<1>1. /\ t.eventMask = s.eventMask
      /\ t.eventFlags = RaisedEvents(s)
      /\ t.event = (s.event \/ RaisedEvents(s) # {})
      /\ t.state = s.state /\ t.sndUser = s.sndUser /\ t.sndNxt = s.sndNxt
      /\ t.sndUna = s.sndUna /\ t.rcvUser = s.rcvUser
      /\ t.synQueue = s.synQueue
      BY DEF IsSock, SockField, tcpUpdateEvents
<1> HIDE DEF t
<1>2. Buffered(t) = Buffered(s)
      BY <1>1 DEF Buffered
<1>3. ASSUME NEW e PROVE EventHolds(t, e) = EventHolds(s, e)
      BY <1>1, <1>2 DEF EventHolds
<1>4. RaisedEvents(t) = RaisedEvents(s)
      BY <1>1, <1>3 DEF RaisedEvents
<1> QED BY <1>1, <1>4 DEF UpToDate, t

\* tcpChangeState ends with it.
LEMMA ChangeStateUpdates ==
    ASSUME NEW s, IsSock(s), NEW newState
    PROVE  UpToDate(tcpChangeState(s, newState))
<1> DEFINE orderly == s.state \in {"LAST_ACK", "TIME_WAIT"}
           c == [s EXCEPT !.state = newState,
                          !.closedFlag = @ \/ (newState = "CLOSED" /\ orderly),
                          !.resetFlag = @ \/ (newState = "CLOSED" /\ ~orderly)]
<1>1. IsSock(c)
      BY DEF IsSock, SockField, Numeric
<1>2. tcpChangeState(s, newState) = tcpUpdateEvents(c)
      BY DEF tcpChangeState
<1> HIDE DEF c
<1> QED BY <1>1, <1>2, UpdateEventsUpdates

\* So does the beginning of a wait; the event object is reset only when no
\* flag is raised.
LEMMA WaitUpdates ==
    ASSUME NEW s, IsSock(s), NEW mask
    PROVE  UpToDate(tcpWaitForEvents(s, mask))
<1> DEFINE m == [s EXCEPT !.eventMask = mask]
           u == tcpUpdateEvents(m)
           r == [u EXCEPT !.event = FALSE]
<1>1. IsSock(m)
      BY DEF IsSock, SockField, Numeric
<1> HIDE DEF m
<1>2. UpToDate(u) /\ IsSock(u)
      BY <1>1, UpdateEventsUpdates, UpdateEvents DEF Steady, Shift
<1> HIDE DEF u
<1>3. u.eventFlags = {} => UpToDate(r)
  <2>1. /\ r.eventMask = u.eventMask /\ r.eventFlags = u.eventFlags
        /\ r.state = u.state /\ r.sndUser = u.sndUser /\ r.sndNxt = u.sndNxt
        /\ r.sndUna = u.sndUna /\ r.rcvUser = u.rcvUser
        /\ r.synQueue = u.synQueue
        BY <1>2 DEF IsSock, SockField
  <2> HIDE DEF r
  <2>2. Buffered(r) = Buffered(u)
        BY <2>1 DEF Buffered
  <2>3. ASSUME NEW e PROVE EventHolds(r, e) = EventHolds(u, e)
        BY <2>1, <2>2 DEF EventHolds
  <2>4. RaisedEvents(r) = RaisedEvents(u)
        BY <2>1, <2>3 DEF RaisedEvents
  <2> QED BY <1>2, <2>1, <2>4 DEF UpToDate
<1> HIDE DEF r
<1> QED BY <1>2, <1>3 DEF tcpWaitForEvents, u, m, r

----------------------------------------------------------------------------
(* Sending *)

\* Sending segments is unseen.
LEMMA RunUnseen ==
    ASSUME NEW s, IsSock(s), NEW items, NEW add
    PROVE  Unseen(s, SendRun(s, items, add))
BY DEF IsSock, SockField, SendRun, Unseen

\* So is sending one segment,
LEMMA SendUnseen ==
    ASSUME NEW s, IsSock(s), NEW flags, NEW seqNum, NEW ackNum, NEW length,
           NEW add
    PROVE  Unseen(s, tcpSendSegment(s, flags, seqNum, ackNum, length, add))
BY RunUnseen DEF tcpSendSegment

\* an acknowledgment,
LEMMA AckUnseen ==
    ASSUME NEW s, IsSock(s)
    PROVE  Unseen(s, SendAck(s))
BY SendUnseen DEF SendAck

\* and retransmitting the head of the queue.
LEMMA RetransmitUnseen ==
    ASSUME NEW s, IsSock(s)
    PROVE  Unseen(s, tcpRetransmitSegment(s))
BY RunUnseen DEF tcpRetransmitSegment

\* Bytes that are sent move from one part of the buffer to the other.
LEMMA SeqMoved ==
    ASSUME NEW u \in Int, NEW x \in Int, NEW y \in Int, NEW b \in Int
    PROVE  SeqAdd(u - b, SeqSub(SeqAdd(x, b), y)) = SeqAdd(u, SeqSub(x, y))
<1>1. SeqSpace \in Nat \ {0}
      BY SizeAssumption
<1>2. ((u - b) + ((((x + b) % SeqSpace) - y) % SeqSpace)) % SeqSpace
        = (u + ((x - y) % SeqSpace)) % SeqSpace
      BY <1>1, ModMoved
<1> QED BY <1>2, Zenon DEF SeqAdd, SeqSub

\* tcpNagleAlgo keeps the flags up to date even when it stops at a refused
\* segment and leaves out tcpUpdateEvents: something is left to send then, and
\* a byte that moves from the waiting ones to those in flight still occupies
\* the buffer.
LEMMA NagleKeeps ==
    ASSUME NEW s, IsSock(s), NEW flags, UpToDate(s)
    PROVE  UpToDate(tcpNagleAlgo(s, flags))
<1> DEFINE e == [s EXCEPT !.err = FALSE]
<1>1. PICK full \in Nat, tail \in Nat :
        /\ full * Smss + tail =< s.sndUser
        /\ LET t == SendBurst(e, full, tail)
           IN  tcpNagleAlgo(s, flags) = IF t.err THEN t ELSE tcpUpdateEvents(t)
      BY NagleBurst
<1> DEFINE t == SendBurst(e, full, tail)
<1>2. IsSock(e) /\ Unseen(s, e)
      BY DEF IsSock, SockField, Numeric, Unseen
<1> HIDE DEF e
<1>3. PICK bytes \in 0 .. full * Smss + tail :
        /\ t.sndNxt = SeqAdd(e.sndNxt, bytes)
        /\ t.sndUser = e.sndUser - bytes
        /\ t.err => bytes < full * Smss + tail
      BY <1>2, BurstMoves
<1>4. IsSock(t)
  <2>1. full * Smss + tail =< e.sndUser
        BY <1>1, <1>2 DEF Unseen
  <2> QED BY <1>1, <1>2, <2>1, Burst DEF Steady, Shift
<1>5. /\ t.eventMask = e.eventMask /\ t.eventFlags = e.eventFlags
      /\ t.event = e.event /\ t.state = e.state /\ t.sndUna = e.sndUna
      /\ t.rcvUser = e.rcvUser /\ t.synQueue = e.synQueue
  <2>1. PICK items, a, b : t = [SendRun(e, items, TRUE) EXCEPT !.sndNxt = a,
                                                               !.sndUser = b]
        BY DEF SendBurst
  <2> DEFINE r == SendRun(e, items, TRUE)
  <2>2. Unseen(e, r) /\ DOMAIN r = SockField
        BY <1>2, RunUnseen, RunSent DEF Steady, Shift, IsSock
  <2> HIDE DEF r, t
  <2> QED BY <2>1, <2>2 DEF Unseen, SockField, r
<1> HIDE DEF t
<1>6. bytes \in Nat /\ (t.err => bytes < s.sndUser)
  <2> DEFINE b == full * Smss
  <2>1. b \in Nat
        BY <1>1, SizeAssumption, FewerSegments
  <2>2. /\ bytes \in 0 .. b + tail /\ (t.err => bytes < b + tail)
        /\ b + tail =< s.sndUser
        BY <1>1, <1>3
  <2> HIDE DEF b
  <2> QED BY <2>1, <2>2 DEF IsSock, Numeric
<1>7. t.sndNxt = SeqAdd(s.sndNxt, bytes) /\ t.sndUser = s.sndUser - bytes
      BY <1>2, <1>3 DEF Unseen
<1>8. Buffered(t) = Buffered(s)
  <2>1. /\ SeqSpace \in Nat \ {0} /\ s.sndUser \in Int /\ s.sndNxt \in Int
        /\ s.sndUna \in Int /\ bytes \in Int
        BY <1>6, SizeAssumption DEF IsSock, Numeric
  <2>2. t.sndUna = s.sndUna
        BY <1>2, <1>5 DEF Unseen
  <2>3. SeqAdd(s.sndUser - bytes, SeqSub(SeqAdd(s.sndNxt, bytes), s.sndUna))
          = SeqAdd(s.sndUser, SeqSub(s.sndNxt, s.sndUna))
        BY <2>1, SeqMoved
  <2> QED BY <1>7, <2>2, <2>3 DEF Buffered
<1>9. ASSUME t.err PROVE UpToDate(t)
  <2>1. s.sndUser # 0 /\ t.sndUser # 0
        BY <1>6, <1>7, <1>9 DEF IsSock, Numeric
  <2>2. /\ t.eventMask = s.eventMask /\ t.eventFlags = s.eventFlags
        /\ t.event = s.event /\ t.state = s.state
        /\ t.rcvUser = s.rcvUser /\ t.synQueue = s.synQueue
        BY <1>2, <1>5 DEF Unseen
  <2>3. ASSUME NEW v PROVE EventHolds(t, v) = EventHolds(s, v)
        BY <1>8, <2>1, <2>2 DEF EventHolds
  <2>4. RaisedEvents(t) = RaisedEvents(s)
        BY <2>2, <2>3 DEF RaisedEvents
  <2> QED BY <2>2, <2>4 DEF UpToDate
<1>10. UpToDate(tcpUpdateEvents(t))
      BY <1>4, UpdateEventsUpdates
<1> QED BY <1>1, <1>9, <1>10 DEF t

----------------------------------------------------------------------------
(* Incoming segments *)

\* tcpCheckAck keeps the flags up to date.
LEMMA CheckAckKeeps ==
    ASSUME NEW s, IsSock(s), NEW seg, IsSeg(seg), UpToDate(s)
    PROVE  UpToDate(tcpCheckAck(s, seg))
<1> DEFINE w == tcpUpdateSendWindow(s, seg)
<1>1. IsSock(w)
      BY UpdateSendWindow DEF Steady, Shift
<1> HIDE DEF w
<1>2. IsSock(NewAck(w, seg)) /\ \A d : IsSock(CongestSameAck(w, seg, d))
      BY <1>1, AckOfNewData, CongestionSameAck DEF Steady, Shift
<1>3. /\ UpToDate(tcpUpdateEvents(NewAck(w, seg)))
      /\ UpToDate(tcpUpdateEvents(w))
      /\ \A d : UpToDate(tcpUpdateEvents(CongestSameAck(w, seg, d)))
      BY <1>1, <1>2, UpdateEventsUpdates
<1>4. UpToDate(SendAck(s))
      BY AckUnseen, UnseenKeeps
<1> QED BY <1>3, <1>4 DEF tcpCheckAck, w

\* The checks every synchronized state starts with keep the flags up to date.
LEMMA ScreeningKeeps ==
    ASSUME NEW s, IsSock(s), NEW seg, UpToDate(s), ~Passes(s, seg)
    PROVE  UpToDate(Screened(s, seg))
<1>1. UpToDate(tcpCheckSequenceNumber(s, seg))
      BY AckUnseen, UnseenKeeps DEF tcpCheckSequenceNumber
<1>2. UpToDate(tcpCheckSyn(s, seg))
      BY SendUnseen, UnseenKeeps DEF tcpCheckSyn
<1>3. UpToDate(tcpChangeState(s, "CLOSED"))
      BY ChangeStateUpdates
<1> QED BY <1>1, <1>2, <1>3 DEF Screened, Passes, Unacceptable, Resets, Misplaced

\* Taking a segment's data keeps the flags up to date: out of order nothing
\* changes for the user, in order the events are updated.
LEMMA TextKeeps ==
    ASSUME NEW s, IsSock(s), NEW seg, UpToDate(s)
    PROVE  UpToDate(SegmentText(s, seg))
<1>1. ASSUME NEW left, NEW right, NEW data, NEW x, NEW y, NEW z
      PROVE  LET b == tcpUpdateSackBlocks(tcpWriteRxBuffer(s, left, data),
                                          left, right)
                 r == [b EXCEPT !.rcvNxt = x, !.rcvUser = y, !.rcvWnd = z]
             IN  UpToDate(SendAck(b)) /\ UpToDate(tcpUpdateEvents(SendAck(r)))
  <2> DEFINE w == tcpWriteRxBuffer(s, left, data)
             b == tcpUpdateSackBlocks(w, left, right)
             r == [b EXCEPT !.rcvNxt = x, !.rcvUser = y, !.rcvWnd = z]
  <2>1. IsSock(w) /\ Unseen(s, w)
        BY DEF IsSock, SockField, Numeric, Unseen, tcpWriteRxBuffer
  <2> HIDE DEF w
  <2>2. IsSock(b) /\ Unseen(w, b)
        BY <2>1 DEF IsSock, SockField, Numeric, Unseen, tcpUpdateSackBlocks
  <2> HIDE DEF b
  <2>3. UpToDate(SendAck(b))
        BY <2>1, <2>2, AckUnseen, UnseenKeeps
  <2>4. IsSock(r)
        BY <2>2 DEF IsSock, SockField, Numeric
  <2> HIDE DEF r
  <2>5. UpToDate(tcpUpdateEvents(SendAck(r)))
        BY <2>4, Acknowledge, UpdateEventsUpdates DEF Steady, Shift
  <2> QED BY <2>3, <2>5 DEF r, b, w
<1> DEFINE end   == SeqAdd(s.rcvNxt, s.rcvWnd)
           stop  == SeqAdd(seg.seqNum, SegLen(seg))
           left  == IF TCP_CMP_SEQ(seg.seqNum, s.rcvNxt) < 0
                    THEN s.rcvNxt ELSE seg.seqNum
           right == IF TCP_CMP_SEQ(stop, end) > 0 THEN end ELSE stop
           skip  == SeqSub(left, seg.seqNum)
           data  == SubSeq(seg.data, skip + 1, skip + SeqSub(right, left))
           m     == AbsorbBlocks(s.sackBlock, left, right)
           b     == tcpUpdateSackBlocks(tcpWriteRxBuffer(s, left, data),
                                        left, right)
           more  == SeqSub(m.right, m.left)
           r     == [b EXCEPT !.rcvNxt = SeqAdd(@, more),
                              !.rcvUser = U16(@ + more),
                              !.rcvWnd = U16(@ - more)]
<1>2. UpToDate(SendAck(b)) /\ UpToDate(tcpUpdateEvents(SendAck(r)))
  <2> HIDE DEF left, right, data, more
  <2> QED BY <1>1
<1>3. tcpProcessSegmentData(s, seg) =
        IF TCP_CMP_SEQ(m.left, s.rcvNxt) > 0
        THEN SendAck(b) ELSE tcpUpdateEvents(SendAck(r))
      BY DEF tcpProcessSegmentData
<1> HIDE DEF b, r, m
<1> QED BY <1>2, <1>3 DEF SegmentText

\* Disposing of a closed socket keeps the flags up to date: the queue of
\* connections that goes only matters to a listening socket.
LEMMA DisposalKeeps ==
    ASSUME NEW s, IsSock(s), s.state = "CLOSED", UpToDate(s)
    PROVE  UpToDate(Dispose(s))
<1> DEFINE t == Dispose(s)
<1>1. /\ t.eventMask = s.eventMask /\ t.eventFlags = s.eventFlags
      /\ t.event = s.event /\ t.state = s.state
      BY DEF IsSock, SockField, Dispose, tcpDeleteControlBlock,
             tcpFlushSynQueue, tcpFlushRetransmitQueue
<1> HIDE DEF t
<1>2. ASSUME NEW e PROVE EventHolds(t, e) = EventHolds(s, e)
      BY <1>1 DEF EventHolds
<1>3. RaisedEvents(t) = RaisedEvents(s)
      BY <1>1, <1>2 DEF RaisedEvents
<1> QED BY <1>1, <1>3 DEF UpToDate, t

\* The end of a connection leaves the flags up to date, with or without the
\* return of the slot.
LEMMA EndUpdates ==
    ASSUME NEW s, IsSock(s)
    PROVE  /\ UpToDate(tcpChangeState(s, "CLOSED"))
           /\ UpToDate(Dispose(tcpChangeState(s, "CLOSED")))
<1> DEFINE c == tcpChangeState(s, "CLOSED")
<1>1. UpToDate(c)
      BY ChangeStateUpdates
<1>2. IsSock(c) /\ c.state = "CLOSED"
      BY ChangeState DEF Ends
<1> HIDE DEF c
<1>3. UpToDate(Dispose(c))
      BY <1>1, <1>2, DisposalKeeps
<1> QED BY <1>1, <1>3 DEF c

\* Acknowledging the peer's FIN is unseen.
LEMMA FinUnseen ==
    ASSUME NEW s, IsSock(s)
    PROVE  Unseen(s, AcceptFin(s))
<1> DEFINE r == [s EXCEPT !.rcvNxt = SeqAdd(@, 1)]
<1>1. IsSock(r) /\ Unseen(s, r)
      BY DEF IsSock, SockField, Numeric, Unseen
<1> HIDE DEF r
<1>2. Unseen(r, SendAck(r))
      BY <1>1, AckUnseen
<1>3. Unseen(s, SendAck(r))
      BY <1>1, <1>2, UnseenThen
<1> QED BY <1>3 DEF AcceptFin, r

\* Entering TIME-WAIT leaves the flags up to date.
LEMMA TimeWaitUpdates ==
    ASSUME NEW s, IsSock(s)
    PROVE  UpToDate(EnterTimeWait(s))
<1> DEFINE d == tcpDeleteControlBlock(s)
           t == [d EXCEPT !.timeWaitTimer = TRUE]
<1>1. IsSock(d)
      BY DeleteControlBlock DEF Steady, Shift
<1> HIDE DEF d
<1>2. IsSock(t)
      BY <1>1 DEF IsSock, SockField, Numeric
<1> HIDE DEF t
<1>3. UpToDate(tcpChangeState(t, "TIME_WAIT"))
      BY <1>2, ChangeStateUpdates
<1> QED BY <1>3 DEF EnterTimeWait, t, d

\* In SYN-SENT a segment keeps the flags up to date.
LEMMA SynSentKeeps ==
    ASSUME NEW s, IsSock(s), NEW seg, IsSeg(seg), UpToDate(s)
    PROVE  UpToDate(tcpStateSynSent(s, seg))
<1> DEFINE i == [s EXCEPT !.irs = seg.seqNum,
                          !.rcvNxt = SeqAdd(seg.seqNum, 1),
                          !.sndUna = IF Has(seg, "ACK") THEN seg.ackNum ELSE @]
           r == tcpUpdateRetransmitQueue(tcpComputeRto(i))
           q == [r EXCEPT !.cwnd = IF CongestControl
                                   THEN MinOf(3 * Smss, TxBufferSize) ELSE @]
           w == [q EXCEPT !.sndWnd = seg.window, !.sndWl1 = seg.seqNum,
                          !.sndWl2 = seg.ackNum, !.maxSndWnd = seg.window]
           y == tcpSendSegment(q, {"SYN", "ACK"}, q.iss, q.rcvNxt, 0, TRUE)
           e == tcpSendSegment(s, {"RST"}, seg.ackNum, 0, 0, FALSE)
           badAck == Has(seg, "ACK") /\ seg.ackNum # s.sndNxt
<1>1. IsSock(i)
      BY DEF IsSock, SockField, Numeric, IsSeg
<1> HIDE DEF i
<1>2. IsSock(r)
      BY <1>1, ComputeRto, UpdateRetransmitQueue DEF Steady, Shift
<1> HIDE DEF r
<1>3. IsSock(q)
  <2>1. MinOf(3 * Smss, TxBufferSize) \in Int
        BY SizeAssumption DEF MinOf
  <2> QED BY <1>2, <2>1 DEF IsSock, SockField, Numeric
<1> HIDE DEF q
<1>4. IsSock(w)
      BY <1>3 DEF IsSock, SockField, Numeric, IsSeg
<1> HIDE DEF w
<1>5. /\ UpToDate(tcpChangeState(SendAck(w), "ESTABLISHED"))
      /\ UpToDate(tcpChangeState(y, "SYN_RECEIVED"))
      BY <1>3, <1>4, Acknowledge, SendSegment, ChangeStateUpdates DEF Steady, Shift
<1>6. UpToDate(e) /\ UpToDate(tcpChangeState(s, "CLOSED"))
      BY SendUnseen, UnseenKeeps, ChangeStateUpdates
<1>7. tcpStateSynSent(s, seg) \in
        {s, e, tcpChangeState(s, "CLOSED"),
         tcpChangeState(SendAck(w), "ESTABLISHED"),
         tcpChangeState(y, "SYN_RECEIVED")}
  <2>1. CASE badAck
        BY <2>1 DEF tcpStateSynSent
  <2>2. CASE ~badAck /\ Has(seg, "RST")
        BY <2>2 DEF tcpStateSynSent
  <2>3. CASE ~badAck /\ ~Has(seg, "RST") /\ Has(seg, "SYN")
        BY <2>3 DEF tcpStateSynSent, w, q, r, i
  <2>4. CASE ~badAck /\ ~Has(seg, "RST") /\ ~Has(seg, "SYN")
        BY <2>4 DEF tcpStateSynSent
  <2> QED BY <2>1, <2>2, <2>3, <2>4
<1> HIDE DEF y, e
<1> QED BY <1>5, <1>6, <1>7

\* In ESTABLISHED a segment keeps the flags up to date.
LEMMA EstablishedKeeps ==
    ASSUME NEW s, IsSock(s), NEW seg, IsSeg(seg), UpToDate(s)
    PROVE  UpToDate(tcpStateEstablished(s, seg))
<1> DEFINE a == tcpCheckAck(s, seg)
           d == SegmentText(a, seg)
           f == tcpChangeState(AcceptFin(d), "CLOSE_WAIT")
<1>1. IsSock(a) /\ UpToDate(a)
      BY CheckAck, CheckAckKeeps DEF Steady, Shift
<1> HIDE DEF a
<1>2. IsSock(d) /\ UpToDate(d)
      BY <1>1, Text, TextKeeps DEF Steady, Shift
<1> HIDE DEF d
<1>3. IsSock(AcceptFin(d))
      BY <1>2, Fin DEF Steady, Shift
<1>4. IsSock(f) /\ UpToDate(f)
      BY <1>3, ChangeState, ChangeStateUpdates DEF Shift
<1> HIDE DEF f
<1>5. UpToDate(Transmit(d)) /\ UpToDate(Transmit(f))
      BY <1>2, <1>4, NagleKeeps DEF Transmit
<1>6. tcpStateEstablished(s, seg) =
        IF ~Passes(s, seg) THEN Screened(s, seg)
        ELSE IF AckRejected(s, seg) THEN a
        ELSE IF FinInOrder(d, seg) THEN Transmit(f) ELSE Transmit(d)
      BY DEF tcpStateEstablished, EstablishedFin, a, d, f
<1> QED BY <1>1, <1>5, <1>6, ScreeningKeeps

\* In SYN-RECEIVED a segment keeps the flags up to date.
LEMMA SynReceivedKeeps ==
    ASSUME NEW s, IsSock(s), NEW seg, IsSeg(seg), UpToDate(s)
    PROVE  UpToDate(tcpStateSynReceived(s, seg))
<1> DEFINE w == [s EXCEPT !.sndWnd = seg.window, !.sndWl1 = seg.seqNum,
                          !.sndWl2 = seg.ackNum, !.maxSndWnd = seg.window]
           e == tcpChangeState(w, "ESTABLISHED")
           r == tcpSendSegment(s, {"RST"}, seg.ackNum, 0, 0, FALSE)
           t == tcpStateEstablished(e, seg)
<1>1. IsSock(w)
      BY DEF IsSock, SockField, Numeric, IsSeg
<1> HIDE DEF w
<1>2. IsSock(e) /\ UpToDate(e)
      BY <1>1, ChangeState, ChangeStateUpdates DEF Shift
<1> HIDE DEF e
<1>3. UpToDate(t)
      BY <1>2, EstablishedKeeps
<1> HIDE DEF t
<1>4. UpToDate(r)
      BY SendUnseen, UnseenKeeps
<1>5. tcpStateSynReceived(s, seg) =
        IF ~Passes(s, seg) THEN Screened(s, seg)
        ELSE IF ~Has(seg, "ACK") THEN s
        ELSE IF seg.ackNum # s.sndNxt THEN r ELSE t
      BY DEF tcpStateSynReceived, t, e, w
<1> HIDE DEF r
<1> QED BY <1>3, <1>4, <1>5, ScreeningKeeps

\* In FIN-WAIT-1 a segment keeps the flags up to date.
LEMMA FinWait1Keeps ==
    ASSUME NEW s, IsSock(s), NEW seg, IsSeg(seg), UpToDate(s)
    PROVE  UpToDate(tcpStateFinWait1(s, seg))
<1> DEFINE a == tcpCheckAck(s, seg)
           b == [a EXCEPT !.finWait2Timer = TRUE]
           w == FinAcked(a, seg)
           d == SegmentText(w, seg)
<1>1. IsSock(a) /\ UpToDate(a)
      BY CheckAck, CheckAckKeeps DEF Steady, Shift
<1> HIDE DEF a
<1>2. IsSock(w) /\ UpToDate(w)
  <2>1. IsSock(b)
        BY <1>1 DEF IsSock, SockField, Numeric
  <2> HIDE DEF b
  <2>2. IsSock(tcpChangeState(b, "FIN_WAIT_2")) /\ UpToDate(tcpChangeState(b, "FIN_WAIT_2"))
        BY <2>1, ChangeState, ChangeStateUpdates DEF Shift
  <2> QED BY <1>1, <2>2 DEF FinAcked, b
<1> HIDE DEF w
<1>3. IsSock(d) /\ UpToDate(d)
      BY <1>2, Text, TextKeeps DEF Steady, Shift
<1> HIDE DEF d
<1>4. IsSock(AcceptFin(d))
      BY <1>3, Fin DEF Steady, Shift
<1>5. /\ UpToDate(EnterTimeWait(AcceptFin(d)))
      /\ UpToDate(tcpChangeState(AcceptFin(d), "CLOSING"))
      BY <1>4, TimeWaitUpdates, ChangeStateUpdates
<1>6. tcpStateFinWait1(s, seg) =
        IF ~Passes(s, seg) THEN Screened(s, seg)
        ELSE IF AckRejected(s, seg) THEN a
        ELSE IF ~FinInOrder(d, seg) THEN d
        ELSE IF seg.ackNum = d.sndNxt THEN EnterTimeWait(AcceptFin(d))
        ELSE tcpChangeState(AcceptFin(d), "CLOSING")
      BY DEF tcpStateFinWait1, FinWait1Fin, a, d, w
<1> QED BY <1>1, <1>3, <1>5, <1>6, ScreeningKeeps

\* In the other states a segment keeps the flags up to date.
LEMMA LateStatesKeep ==
    ASSUME NEW s, IsSock(s), NEW seg, IsSeg(seg), UpToDate(s)
    PROVE  /\ UpToDate(tcpStateClosed(s, seg))
           /\ UpToDate(tcpStateCloseWait(s, seg))
           /\ UpToDate(tcpStateLastAck(s, seg))
           /\ UpToDate(tcpStateFinWait2(s, seg))
           /\ UpToDate(tcpStateClosing(s, seg))
           /\ UpToDate(tcpStateTimeWait(s, seg))
<1> DEFINE a == tcpCheckAck(s, seg)
           d == SegmentText(a, seg)
<1>1. IsSock(a) /\ UpToDate(a)
      BY CheckAck, CheckAckKeeps DEF Steady, Shift
<1> HIDE DEF a
<1>2. IsSock(d) /\ UpToDate(d)
      BY <1>1, Text, TextKeeps DEF Steady, Shift
<1> HIDE DEF d
<1>3. UpToDate(tcpStateClosed(s, seg))
  <2>1. \A items : UpToDate(SendRun(s, items, FALSE))
        BY RunUnseen, UnseenKeeps
  <2> QED BY <2>1 DEF tcpStateClosed, tcpSendResetSegment
<1>4. UpToDate(tcpStateCloseWait(s, seg))
  <2>1. UpToDate(Transmit(a))
        BY <1>1, NagleKeeps DEF Transmit
  <2> QED BY <1>1, <2>1, ScreeningKeeps DEF tcpStateCloseWait, a
<1>5. UpToDate(tcpStateLastAck(s, seg))
      BY ScreeningKeeps, ChangeStateUpdates DEF tcpStateLastAck
<1>6. UpToDate(tcpStateFinWait2(s, seg))
  <2>1. IsSock(AcceptFin(d))
        BY <1>2, Fin DEF Steady, Shift
  <2>2. UpToDate(EnterTimeWait(AcceptFin(d)))
        BY <2>1, TimeWaitUpdates
  <2>3. tcpStateFinWait2(s, seg) =
          IF ~Passes(s, seg) THEN Screened(s, seg)
          ELSE IF AckRejected(s, seg) THEN a
          ELSE IF FinInOrder(d, seg) THEN EnterTimeWait(AcceptFin(d)) ELSE d
        BY DEF tcpStateFinWait2, FinWait2Fin, a, d
  <2> QED BY <1>1, <1>2, <2>2, <2>3, ScreeningKeeps
<1>7. UpToDate(tcpStateClosing(s, seg))
  <2>1. UpToDate(EnterTimeWait(a))
        BY <1>1, TimeWaitUpdates
  <2> QED BY <1>1, <2>1, ScreeningKeeps DEF tcpStateClosing, ClosingAck, a
<1>8. UpToDate(tcpStateTimeWait(s, seg))
  <2> DEFINE c == Screened(s, seg)
             r == [SendAck(s) EXCEPT !.timeWaitTimer = TRUE]
  <2>1. UpToDate(r)
    <3> DEFINE k == SendAck(s)
    <3>1. IsSock(k) /\ Unseen(s, k)
          BY Acknowledge, AckUnseen DEF Steady, Shift
    <3> HIDE DEF k
    <3>2. Unseen(k, [k EXCEPT !.timeWaitTimer = TRUE])
          BY <3>1 DEF IsSock, SockField, Unseen
    <3>3. UpToDate([k EXCEPT !.timeWaitTimer = TRUE])
          BY <3>1, <3>2, UnseenKeeps
    <3> QED BY <3>3 DEF k
  <2>2. ~Passes(s, seg) => UpToDate(c)
        BY ScreeningKeeps
  <2>3. Resets(s, seg) => ~Passes(s, seg) /\ c = tcpChangeState(s, "CLOSED")
        BY DEF Resets, Passes, Screened, Unacceptable, Misplaced
  <2>4. Resets(s, seg) => UpToDate(Dispose(c))
        BY <2>3, EndUpdates
  <2> HIDE DEF c, r
  <2> QED BY <2>1, <2>2, <2>3, <2>4 DEF tcpStateTimeWait, c, r
<1> QED BY <1>3, <1>4, <1>5, <1>6, <1>7, <1>8

\* Whatever segment arrives, in whatever state, the flags stay up to date.
LEMMA SegmentKeeps ==
    ASSUME NEW s, IsSock(s), NEW seg, IsSeg(seg), UpToDate(s),
           s.state \in TcpState \ {"LISTEN"}
    PROVE  UpToDate(tcpProcessSegment(s, seg))
BY SynSentKeeps, SynReceivedKeeps, EstablishedKeeps, FinWait1Keeps, LateStatesKeep
DEF tcpProcessSegment, TcpState

----------------------------------------------------------------------------
(* The timer handler *)

\* A retransmission timeout keeps the flags up to date.
LEMMA RetransmitKeeps ==
    ASSUME NEW s, IsSock(s), UpToDate(s)
    PROVE  UpToDate(RetransmitTimeout(s))
<1> DEFINE l == LossRecovery(s)
           p == tcpRetransmitSegment(l)
           c == tcpChangeState(l, "CLOSED")
           again == [[p EXCEPT !.retransmitCount = @ + 1] EXCEPT !.rttBusy = FALSE]
           over  == [[c EXCEPT !.retransmitTimer = FALSE] EXCEPT !.rttBusy = FALSE]
<1>1. IsSock(l) /\ Unseen(s, l)
  <2>1. FlightSsthresh(s) \in Int
        BY Threshold
  <2>2. MinOf(Smss, TxBufferSize) \in Int
        BY SizeAssumption DEF MinOf
  <2> QED BY <2>1, <2>2 DEF IsSock, SockField, Numeric, Unseen, LossRecovery
<1> HIDE DEF l
<1>2. IsSock(p) /\ UpToDate(p)
      BY <1>1, RetransmitSegment, RetransmitUnseen, UnseenKeeps DEF Steady, Shift
<1>3. IsSock(c) /\ UpToDate(c)
      BY <1>1, ChangeState, ChangeStateUpdates DEF Ends
<1> HIDE DEF p, c
<1>4. Unseen(p, again) /\ Unseen(c, over)
      BY <1>2, <1>3 DEF IsSock, SockField, Unseen
<1> HIDE DEF again, over
<1>5. UpToDate(again) /\ UpToDate(over)
      BY <1>2, <1>3, <1>4, UnseenKeeps
<1>6. RetransmitTimeout(s) \in {again, over}
      BY DEF RetransmitTimeout, again, over, p, c, l
<1> QED BY <1>5, <1>6

\* A persist timeout keeps the flags up to date.
LEMMA PersistKeeps ==
    ASSUME NEW s, IsSock(s), UpToDate(s)
    PROVE  UpToDate(PersistTimeout(s))
<1> DEFINE p == tcpSendSegment(s, {"ACK"}, SeqSub(s.sndNxt, 1), s.rcvNxt, 0, FALSE)
<1>1. IsSock(p) /\ UpToDate(p)
      BY SendSegment, SendUnseen, UnseenKeeps DEF Steady, Shift
<1> HIDE DEF p
<1>2. Unseen(p, [p EXCEPT !.wndProbeCount = @ + 1])
      BY <1>1 DEF IsSock, SockField, Unseen
<1>3. UpToDate([p EXCEPT !.wndProbeCount = @ + 1])
      BY <1>1, <1>2, UnseenKeeps
<1> QED BY <1>3, ChangeStateUpdates DEF PersistTimeout, p

\* The override timer ends with tcpUpdateEvents.
LEMMA OverrideUpdates ==
    ASSUME NEW s, IsSock(s)
    PROVE  UpToDate(OverrideTimeout(s))
<1> DEFINE u     == UsableWindow(s)
           burst == IF u <= 0 THEN 0 ELSE MinOf(s.sndUser, u)
           full  == burst \div Smss
           rest  == burst % Smss
<1>1. full \in Nat /\ rest \in Nat /\ full * Smss + rest =< s.sndUser
      BY WindowAllows
<1>2. OverrideTimeout(s) = tcpUpdateEvents(SendBurst(s, full, rest))
      BY DEF OverrideTimeout
<1> HIDE DEF full, rest
<1>3. IsSock(SendBurst(s, full, rest))
      BY <1>1, Burst DEF Steady, Shift
<1> QED BY <1>2, <1>3, UpdateEventsUpdates

\* Whichever timers have elapsed, the flags stay up to date.
LEMMA TimerKeeps ==
    ASSUME NEW s, IsSock(s), NEW elapsed, UpToDate(s)
    PROVE  UpToDate(tcpTick(s, elapsed))
<1> DEFINE r == TickRetransmit(s, elapsed)
           p == TickPersist(r, elapsed)
           o == TickOverride(p, elapsed)
           f == TickFinWait2(o, elapsed)
           t == TickTimeWait(f, elapsed)
<1>1. IsSock(r) /\ UpToDate(r)
      BY RetransmissionTimeout, RetransmitKeeps DEF TickRetransmit, Steady, Shift, Ends
<1> HIDE DEF r
<1>2. IsSock(p) /\ UpToDate(p)
      BY <1>1, PersistenceTimeout, PersistKeeps DEF TickPersist, Steady, Shift, Ends
<1> HIDE DEF p
<1>3. IsSock(o) /\ UpToDate(o)
      BY <1>2, OverridingTimeout, OverrideUpdates DEF TickOverride, Steady, Shift
<1> HIDE DEF o
<1>4. IsSock(f) /\ UpToDate(f)
      BY <1>3, ChangeState, ChangeStateUpdates DEF TickFinWait2, Ends
<1> HIDE DEF f
<1>5. UpToDate(t)
      BY <1>4, EndUpdates DEF TickTimeWait, TimeWaitTimeout
<1> HIDE DEF t
<1> QED BY <1>1, <1>5 DEF tcpTick, TickOthers, r, p, o, f, t

----------------------------------------------------------------------------
(* The socket operations *)

\* A task that blocks leaves the flags up to date and remembers the state it
\* leaves the socket in.
Watchful(o) ==
    o.task.pc \in Blocked =>
        UpToDate(o.sock) /\ o.task.before = o.sock.state

\* A call that returns is not blocked.
LEMMA ReturnWatchful ==
    ASSUME NEW s, NEW error
    PROVE  Watchful(Return(s, error))
BY DEF Watchful, Return, Outcome, Returned, Call, Blocked

\* A call blocks only where tcpWaitForEvents has brought the flags up to
\* date.
LEMMA BlocksWatchful ==
    ASSUME NEW s, IsSock(s), NEW t, IsTask(t), NEW mask, NEW pc
    PROVE  Watchful(Blocks(tcpWaitForEvents(s, mask), t, pc))
<1> DEFINE u == tcpWaitForEvents(s, mask)
<1>1. UpToDate(u)
      BY WaitUpdates
<1> HIDE DEF u
<1>2. Blocks(u, t, pc).sock = u /\ Blocks(u, t, pc).task.before = u.state
      BY DEF Blocks, Outcome, IsTask
<1> QED BY <1>1, <1>2 DEF Watchful, u

\* The two halves of Tcp_Shutdown
LEMMA ShutdownWatchful ==
    ASSUME NEW s, IsSock(s), NEW t, IsTask(t)
    PROVE  Watchful(ShutdownReceive(s, t)) /\ Watchful(ShutdownSend(s, t))
<1> DEFINE f == tcpSendSegment(s, {"FIN", "ACK"}, s.sndNxt, s.rcvNxt, 0, TRUE)
           n == [f EXCEPT !.sndNxt = SeqAdd(@, 1)]
           new == IF s.state = "ESTABLISHED" THEN "FIN_WAIT_1" ELSE "LAST_ACK"
           g == tcpChangeState(n, new)
<1>1. ASSUME NEW u, IsSock(u), NEW e, NEW pc
      PROVE  Watchful(Block(u, t, e, pc))
      BY <1>1, BlocksWatchful DEF Block
<1>2. \A u, e : Watchful(Return(u, e))
      BY ReturnWatchful
<1>3. Watchful(ShutdownReceive(s, t))
      BY <1>1, <1>2 DEF ShutdownReceive
<1>4. IsSock(g)
  <2>1. IsSock(f)
        BY SendSegment DEF Steady, Shift
  <2> HIDE DEF f
  <2>2. f.sndNxt \in Int /\ 1 \in Int
        BY <2>1 DEF IsSock, Numeric
  <2> DEFINE k == SeqAdd(f.sndNxt, 1)
  <2>3. k \in Int
        BY <2>2, SeqIntegral
  <2> HIDE DEF k
  <2>4. IsSock([f EXCEPT !.sndNxt = k])
        BY <2>1, <2>3 DEF IsSock, SockField, Numeric
  <2>5. IsSock(n) /\ new # "CLOSED"
        BY <2>4 DEF k
  <2> HIDE DEF n, new
  <2> QED BY <2>5, ChangeState DEF Shift
<1>5. ShutdownSend(s, t) \in
        {Return(s, "NOT_CONNECTED"), Return(f, "FAILURE"),
         Block(s, t, "TX_SHUTDOWN", "txShutdown"), ShutdownReceive(s, t),
         Block(g, t, "TX_SHUTDOWN", "txShutdown")}
      BY DEF ShutdownSend
<1> HIDE DEF f, g
<1> QED BY <1>1, <1>2, <1>3, <1>4, <1>5

\* The end of Tcp_Send
LEMMA SendDoneWatchful ==
    ASSUME NEW s, IsSock(s), NEW t, IsTask(t)
    PROVE  Watchful(SendDone(s, t))
<1> DEFINE d == tcpWaitForEvents(s, {"TX_DONE"})
           a == tcpWaitForEvents(s, {"TX_ACKED"})
<1>1. IsSock(d)
      BY WaitForEvents DEF Steady, Shift
<1>2. Watchful(Blocks(d, t, "txDone")) /\ Watchful(Blocks(a, t, "txAcked"))
      BY BlocksWatchful
<1> HIDE DEF d, a
<1>3. Watchful(ShutdownSend(d, t))
      BY <1>1, ShutdownWatchful
<1>4. \A u, e : Watchful(Return(u, e))
      BY ReturnWatchful
<1> QED BY <1>2, <1>3, <1>4 DEF SendDone, d, a

\* Tcp_Send after its wait
LEMMA SendReadyWatchful ==
    ASSUME NEW s, IsSock(s), NEW t, IsTask(t), t.pc \in Blocked
    PROVE  Watchful(SendReady(s, t))
<1>1. Watchful(SendData(s, t))
  <2>1. PICK g, r : /\ Steady(s, g) /\ IsTask(r)
                    /\ SendData(s, t) \in {SendDone(g, r),
                                           Block(g, r, "TX_READY", t.pc)}
        BY Sending
  <2>2. Watchful(SendDone(g, r)) /\ Watchful(Block(g, r, "TX_READY", t.pc))
        BY <2>1, SendDoneWatchful, BlocksWatchful DEF Block, Steady, Shift
  <2> QED BY <2>1, <2>2
<1>2. \A u, e : Watchful(Return(u, e))
      BY ReturnWatchful
<1> QED BY <1>1, <1>2 DEF SendReady

\* Tcp_Send, with its wait
LEMMA SendWaitWatchful ==
    ASSUME NEW s, IsSock(s), NEW t, IsTask(t), t.pc \in Blocked
    PROVE  Watchful(SendWait(s, t))
<1> DEFINE u == tcpWaitForEvents(s, {"TX_READY"})
<1>1. IsSock(u) /\ Watchful(Blocks(u, t, t.pc))
      BY WaitForEvents, BlocksWatchful DEF Steady, Shift
<1> HIDE DEF u
<1>2. Watchful(SendReady(u, t))
      BY <1>1, SendReadyWatchful
<1> QED BY <1>1, <1>2 DEF SendWait, u

\* Tcp_Receive after its wait
LEMMA ReceiveReadyWatchful ==
    ASSUME NEW s, IsSock(s), NEW t, IsTask(t), t.pc \in Blocked
    PROVE  Watchful(ReceiveReady(s, t))
<1>0. \A u, e : Watchful(Return(u, e))
      BY ReturnWatchful
<1>1. Watchful(ReceiveData(s, t))
  <2> DEFINE n   == MinOf(s.rcvUser, t.left)
             seq == SeqSub(s.rcvNxt, s.rcvUser + IF FinReceived(s) THEN 1 ELSE 0)
             got == tcpReadRxBuffer(s, seq, n)
             c   == [s EXCEPT !.rcvUser = @ - n]
             d   == tcpUpdateReceiveWindow(c)
             u   == tcpUpdateEvents(d)
             r   == [t EXCEPT !.data = @ \o got, !.left = @ - n]
             w   == tcpWaitForEvents(u, {"RX_READY"})
             o   == CASE r.left = 0 \/ "WAIT_ALL" \notin t.flags ->
                           Return(u, "NO_ERROR")
                      [] r.left # 0 /\ "WAIT_ALL" \in t.flags /\ w.eventFlags = {} ->
                           Blocks(w, r, t.pc)
                      [] OTHER -> EndOfStream(w, r)
  <2>1. IsSock(c)
        BY DEF IsSock, SockField, Numeric
  <2> HIDE DEF c
  <2>2. IsSock(u)
        BY <2>1, UpdateReceiveWindow, UpdateEvents DEF Steady, Shift
  <2>3. IsTask(r)
        BY DEF IsTask
  <2> HIDE DEF u, r, got
  <2>4. Watchful(Blocks(w, r, t.pc))
        BY <2>2, <2>3, BlocksWatchful
  <2> HIDE DEF w
  <2>5. Watchful(Return(u, "NO_ERROR")) /\ Watchful(EndOfStream(w, r))
        BY <1>0 DEF EndOfStream
  <2>6. Watchful(o) /\ DOMAIN o = {"sock", "task", "got"}
        BY <2>4, <2>5 DEF Return, Blocks, EndOfStream, Outcome
  <2> HIDE DEF o
  <2>7. Watchful([o EXCEPT !.got = got])
        BY <2>6 DEF Watchful
  <2> QED BY <2>7 DEF ReceiveData, o, w, u, d, c, r, got
<1> QED BY <1>0, <1>1 DEF ReceiveReady, EndOfStream

\* Every stretch of a call
LEMMA CallsWatchful ==
    ASSUME NEW s, IsSock(s)
    PROVE  /\ \A data, flags : Watchful(Tcp_Send(s, data, flags))
           /\ \A length, flags : Watchful(Tcp_Receive(s, length, flags))
           /\ \A flags : Watchful(Tcp_Shutdown(s, flags))
           /\ Watchful(ConnectWait(s))
           /\ \A t : IsTask(t) /\ t.pc \in Blocked => Watchful(Resume(s, t))
<1>0. \A u, e : Watchful(Return(u, e))
      BY ReturnWatchful
<1>1. ASSUME NEW data, NEW flags PROVE Watchful(Tcp_Send(s, data, flags))
      BY SendWaitWatchful, Calls DEF Tcp_Send, Blocked
<1>2. ASSUME NEW length, NEW flags PROVE Watchful(Tcp_Receive(s, length, flags))
  <2> DEFINE t == Call("receive", flags, <<>>, length)
             u == tcpWaitForEvents(s, {"RX_READY"})
  <2>1. IsTask(t) /\ t.pc \in Blocked
        BY Calls DEF Blocked
  <2> HIDE DEF t
  <2>2. IsSock(u) /\ Watchful(Blocks(u, t, t.pc))
        BY <2>1, WaitForEvents, BlocksWatchful DEF Steady, Shift
  <2> HIDE DEF u
  <2>3. Watchful(ReceiveReady(u, t))
        BY <2>1, <2>2, ReceiveReadyWatchful
  <2> QED BY <2>2, <2>3 DEF Tcp_Receive, t, u
<1>3. ASSUME NEW flags PROVE Watchful(Tcp_Shutdown(s, flags))
  <2> DEFINE t == Call("flush", flags, <<>>, 0)
  <2>1. IsTask(t) /\ t.pc \in Blocked
        BY Calls DEF Blocked
  <2> HIDE DEF t
  <2>2. /\ Watchful(ShutdownReceive(s, t)) /\ Watchful(SendWait(s, t))
        /\ Watchful(ShutdownSend(s, t))
        BY <2>1, ShutdownWatchful, SendWaitWatchful
  <2> QED BY <2>2 DEF Tcp_Shutdown, t
<1>4. Watchful(ConnectWait(s))
      BY <1>0, Calls, BlocksWatchful DEF ConnectWait, ConnectDone
<1>5. ASSUME NEW t, IsTask(t), t.pc \in Blocked PROVE Watchful(Resume(s, t))
  <2>1. /\ Watchful(SendReady(s, t)) /\ Watchful(ReceiveReady(s, t))
        /\ Watchful(ShutdownSend(s, t)) /\ Watchful(ShutdownReceive(s, t))
        BY <1>5, SendReadyWatchful, ReceiveReadyWatchful, ShutdownWatchful
  <2>2. Watchful(ConnectDone(s))
        BY <1>0 DEF ConnectDone
  <2> QED BY <1>0, <1>5, <2>1, <2>2 DEF Resume, Blocked
<1> QED BY <1>1, <1>2, <1>3, <1>4, <1>5

\* Tcp_Connect
LEMMA ConnectWatchful ==
    ASSUME NEW s, IsSock(s), NEW iss \in Int
    PROVE  Watchful(Tcp_Connect(s, iss))
<1> DEFINE b == InitControlBlock(s, iss)
           i == [b EXCEPT !.congestState = "IDLE"]
           c == tcpSendSegment(i, {"SYN"}, iss, 0, 0, TRUE)
           h == tcpChangeState(c, "SYN_SENT")
           n == tcpDeleteControlBlock([s EXCEPT !.ownedFlag = TRUE])
<1>1. IsSock(b)
      BY ControlBlock
<1> HIDE DEF b
<1>2. IsSock(i)
      BY <1>1 DEF IsSock, SockField, Numeric
<1> HIDE DEF i
<1>3. IsSock(h)
      BY <1>2, SendSegment, ChangeState DEF Steady, Shift
<1> HIDE DEF h
<1>4. Watchful(ConnectWait(s)) /\ Watchful(ConnectWait(h))
      BY <1>3, CallsWatchful
<1>5. \A u, e : Watchful(Return(u, e))
      BY ReturnWatchful
<1>6. Tcp_Connect(s, iss) \in {ConnectWait(s), Return(n, "FAILURE"),
                              Return(c, "FAILURE"), ConnectWait(h)}
      BY DEF Tcp_Connect, h, c, i, b, n
<1> HIDE DEF n, c
<1> QED BY <1>4, <1>5, <1>6

============================================================================
