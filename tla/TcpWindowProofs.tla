-------------------------- MODULE TcpWindowProofs --------------------------
(***************************************************************************)
(* Theorems about the send window: new data is sent only inside it, a      *)
(* closed window is probed, and what probing means for a socket that       *)
(* lingers in TIME-WAIT.                                                   *)
(*                                                                         *)
(* The operators are classified by what they do to the fields of the       *)
(* window (Quiet, Silent, Calm, Heard, Sends); Careful says of a whole     *)
(* critical section that it keeps the invariant and sends within the       *)
(* window.                                                                 *)
(***************************************************************************)
EXTENDS TcpEndpointProofs

\* The states in which data is sent
DataStates == {"ESTABLISHED", "CLOSE_WAIT"}

\* What is in flight fits in the peer's window and in the congestion window.
Fits(s) ==
    LET flight == SeqSub(s.sndNxt, s.sndUna)
    IN  flight <= s.sndWnd /\ (CongestControl => flight <= s.cwnd)

\* A closed window is being probed.
Probing(s) == s.sndWnd \in Nat /\ (s.sndWnd = 0 => s.persistTimer)

\* Only the 2MSL timer is left to end the connection.
Waiting(s) == s.timeWaitTimer /\ s.retransmitQueue = <<>>

\* The peer never starts with a closed window; it never closes it at all.
StartsOpen == 0 \notin FirstWindows

StaysOpen == 0 \notin FirstWindows \cup Windows

\* The inductive invariant, in any state
Plain(s) == s.sndNxt \in SeqNum /\ (StaysOpen => s.wndProbeInterval = 0)

\* and by state
Good(s) ==
    /\ Plain(s)
    /\ s.state = "SYN_SENT" => s.sndUna = s.iss
    /\ StartsOpen /\ s.state \in DataStates => Probing(s)
    /\ s.state = "TIME_WAIT" => Waiting(s)

\* From r to t, SND.NXT moves only within the window.
Moves(r, t) == t.state \in DataStates => t.sndNxt = r.sndNxt \/ Fits(t)

Careful(r, t) == Good(t) /\ Moves(r, t)

----------------------------------------------------------------------------
(* What an operator may do to the fields of the window *)

\* Nothing
Quiet(s, t) ==
    /\ t.sndNxt = s.sndNxt /\ t.iss = s.iss /\ t.sndUna = s.sndUna
    /\ t.sndWnd = s.sndWnd /\ t.cwnd = s.cwnd
    /\ t.persistTimer = s.persistTimer
    /\ t.wndProbeInterval = s.wndProbeInterval
    /\ t.timeWaitTimer = s.timeWaitTimer

\* Nothing, and an empty retransmission queue stays empty
Silent(s, t) ==
    Quiet(s, t) /\ (s.retransmitQueue = <<>> => t.retransmitQueue = <<>>)

\* Move SND.UNA and the congestion window
Calm(s, t) ==
    /\ t.sndNxt = s.sndNxt /\ t.iss = s.iss /\ t.sndWnd = s.sndWnd
    /\ t.persistTimer = s.persistTimer
    /\ t.wndProbeInterval = s.wndProbeInterval
    /\ t.timeWaitTimer = s.timeWaitTimer

\* Take over the window of an acknowledgment
Heard(s, t, seg) ==
    /\ t.sndNxt = s.sndNxt /\ t.iss = s.iss
    /\ t.timeWaitTimer = s.timeWaitTimer
    /\ Probing(s) => Probing(t)
    /\ s.wndProbeInterval = 0 /\ (Has(seg, "ACK") => seg.window # 0)
          => t.wndProbeInterval = 0

\* Send data the window allows
Sends(s, t) ==
    /\ t.iss = s.iss /\ t.sndUna = s.sndUna
    /\ t.sndWnd = s.sndWnd /\ t.cwnd = s.cwnd
    /\ t.persistTimer = s.persistTimer
    /\ t.wndProbeInterval = s.wndProbeInterval
    /\ t.timeWaitTimer = s.timeWaitTimer
    /\ s.sndNxt \in SeqNum => /\ t.sndNxt \in SeqNum
                              /\ t.sndNxt = s.sndNxt \/ Fits(t)

\* Quiet steps compose,
LEMMA QuietThen ==
    ASSUME NEW s, NEW t, NEW u, Quiet(s, t), Quiet(t, u)
    PROVE  Quiet(s, u)
BY DEF Quiet

\* and so do silent ones.
LEMMA SilentThen ==
    ASSUME NEW s, NEW t, NEW u, Silent(s, t), Silent(t, u)
    PROVE  Silent(s, u)
BY DEF Quiet, Silent

\* A quiet step is calm.
LEMMA QuietCalm ==
    ASSUME NEW s, NEW t, NEW u, Calm(s, t), Quiet(t, u)
    PROVE  Calm(s, u)
BY DEF Quiet, Calm

\* A critical section begins with nothing done.
LEMMA CarefulSelf ==
    ASSUME NEW s, Good(s)
    PROVE  Careful(s, s)
BY DEF Careful, Moves

\* A silent step in between changes nothing.
LEMMA SilentCareful ==
    ASSUME NEW r, NEW s, NEW t, Careful(r, s), Silent(s, t), t.state = s.state
    PROVE  Careful(r, t)
BY DEF Careful, Good, Plain, Moves, Fits, Probing, Waiting, Silent, Quiet

\* Neither does a quiet one, except that it may queue something.
LEMMA QuietCareful ==
    ASSUME NEW r, NEW s, NEW t, Careful(r, s), Quiet(s, t), t.state = s.state,
           s.state # "TIME_WAIT"
    PROVE  Careful(r, t)
BY DEF Careful, Good, Plain, Moves, Fits, Probing, Waiting, Quiet

\* In the states that do not send, little is asked for.
LEMMA PlainCareful ==
    ASSUME NEW r, NEW t, Plain(t),
           t.state \notin DataStates \cup {"SYN_SENT", "TIME_WAIT"}
    PROVE  Careful(r, t)
BY DEF Careful, Good, Moves

\* A quiet step to such a state
LEMMA LeaveCareful ==
    ASSUME NEW r, NEW s, NEW t, Careful(r, s), Quiet(s, t),
           t.state \notin DataStates \cup {"SYN_SENT", "TIME_WAIT"}
    PROVE  Careful(r, t)
<1>1. Plain(t)
      BY DEF Careful, Good, Plain, Quiet
<1> QED BY <1>1, PlainCareful

\* Sending what the window allows is careful.
LEMMA SendsCareful ==
    ASSUME NEW r, NEW s, NEW t, Careful(r, s), Sends(s, t), t.state = s.state,
           s.state # "TIME_WAIT"
    PROVE  Careful(r, t)
<1>1. Good(t)
      BY DEF Careful, Good, Plain, Probing, Sends
<1>2. t.state \in DataStates => t.sndNxt = r.sndNxt \/ Fits(t)
  <2>1. CASE t.sndNxt = s.sndNxt
        BY <2>1 DEF Careful, Moves, Fits, Sends
  <2>2. CASE Fits(t)
        BY <2>2
  <2> QED BY <2>1, <2>2 DEF Careful, Good, Plain, Sends
<1> QED BY <1>1, <1>2 DEF Careful, Moves

----------------------------------------------------------------------------
(* Events, state, sending *)

\* Events are none of the window's business.
LEMMA EventsSilent ==
    ASSUME NEW s, IsSock(s)
    PROVE  Silent(s, tcpUpdateEvents(s))
BY DEF IsSock, SockField, Silent, Quiet, tcpUpdateEvents

\* Neither is a wait,
LEMMA WaitSilent ==
    ASSUME NEW s, IsSock(s), NEW mask
    PROVE  Silent(s, tcpWaitForEvents(s, mask))
<1> DEFINE m == [s EXCEPT !.eventMask = mask]
           u == tcpUpdateEvents(m)
           r == [u EXCEPT !.event = FALSE]
<1>1. IsSock(m) /\ Silent(s, m)
      BY DEF IsSock, SockField, Numeric, Silent, Quiet
<1> HIDE DEF m
<1>2. IsSock(u) /\ Silent(m, u)
      BY <1>1, UpdateEvents, EventsSilent DEF Steady, Shift
<1> HIDE DEF u
<1>3. Silent(s, u)
      BY <1>1, <1>2, SilentThen
<1>4. Silent(u, r)
      BY <1>2 DEF IsSock, SockField, Silent, Quiet
<1>5. Silent(s, r)
      BY <1>3, <1>4, SilentThen
<1> QED BY <1>3, <1>5 DEF tcpWaitForEvents, u, m, r

\* nor a change of state.
LEMMA ChangeSilent ==
    ASSUME NEW s, IsSock(s), NEW newState
    PROVE  Silent(s, tcpChangeState(s, newState))
<1> DEFINE orderly == s.state \in {"LAST_ACK", "TIME_WAIT"}
           c == [s EXCEPT !.state = newState,
                          !.closedFlag = @ \/ (newState = "CLOSED" /\ orderly),
                          !.resetFlag = @ \/ (newState = "CLOSED" /\ ~orderly)]
<1>1. IsSock(c) /\ Silent(s, c)
      BY DEF IsSock, SockField, Numeric, Silent, Quiet
<1>2. tcpChangeState(s, newState) = tcpUpdateEvents(c)
      BY DEF tcpChangeState
<1> HIDE DEF c
<1>3. Silent(c, tcpUpdateEvents(c))
      BY <1>1, EventsSilent
<1> QED BY <1>1, <1>2, <1>3, SilentThen

\* Sending segments is quiet,
LEMMA RunQuiet ==
    ASSUME NEW s, IsSock(s), NEW items, NEW add
    PROVE  Quiet(s, SendRun(s, items, add))
BY DEF IsSock, SockField, SendRun, Quiet

\* and silent if they are not queued.
LEMMA RunSilent ==
    ASSUME NEW s, IsSock(s), NEW items
    PROVE  Silent(s, SendRun(s, items, FALSE))
<1>1. SendRun(s, items, FALSE).retransmitQueue = s.retransmitQueue \o <<>>
      BY DEF IsSock, SockField, SendRun
<1>2. <<>> \o <<>> = <<>>
      OBVIOUS
<1> QED BY <1>1, <1>2, RunQuiet DEF Silent

\* One segment
LEMMA SendSilent ==
    ASSUME NEW s, IsSock(s), NEW flags, NEW seqNum, NEW ackNum, NEW length
    PROVE  /\ Silent(s, tcpSendSegment(s, flags, seqNum, ackNum, length, FALSE))
           /\ Quiet(s, tcpSendSegment(s, flags, seqNum, ackNum, length, TRUE))
BY RunQuiet, RunSilent DEF tcpSendSegment

\* An acknowledgment
LEMMA AckSilent ==
    ASSUME NEW s, IsSock(s)
    PROVE  Silent(s, SendAck(s))
BY SendSilent DEF SendAck

\* A reset for a segment without connection
LEMMA ResetSilent ==
    ASSUME NEW s, IsSock(s), NEW seg
    PROVE  Silent(s, tcpSendResetSegment(s, seg))
BY RunSilent DEF tcpSendResetSegment

\* A retransmission
LEMMA RetransmitSilent ==
    ASSUME NEW s, IsSock(s)
    PROVE  Silent(s, tcpRetransmitSegment(s))
BY RunSilent DEF tcpRetransmitSegment
----------------------------------------------------------------------------
(* Sending data *)

\* A number is not below its remainder.
LEMMA ModBelow ==
    ASSUME NEW m \in Nat \ {0}, NEW a \in Nat
    PROVE  a % m =< a
<1> DEFINE d == a \div m
           r == a % m
<1>1. a = m * d + r /\ d \in Int /\ r \in 0 .. m - 1
      BY DivMod, DivRange, ModRange
<1> HIDE DEF d, r
<1>2. d \in Nat
  <2>1. ASSUME d =< -1 PROVE FALSE
    <3>1. m * d =< -m
          BY <1>1, <2>1
    <3> QED BY <1>1, <3>1
  <2> QED BY <1>1, <2>1
<1>3. m * d \in Nat
      BY <1>2
<1> QED BY <1>1, <1>3 DEF r

\* Sending b bytes adds no more than b to what is in flight.
LEMMA FlightGrows ==
    ASSUME NEW x \in Int, NEW y \in Int, NEW b \in Nat
    PROVE  SeqSub(SeqAdd(x, b), y) =< SeqSub(x, y) + b
<1> DEFINE m == SeqSpace
           z == x + b
           d == x - y
           f == d % m
<1>1. m \in Nat \ {0}
      BY SizeAssumption
<1>2. z \in Int /\ d \in Int /\ b \in Int /\ z - y = b + d
      OBVIOUS
<1> HIDE DEF m, z, d
<1>3. ((z % m) - y) % m = (b + d) % m
  <2>1. ((z % m) - y) % m = (z - y) % m
        BY <1>1, <1>2, ModSub
  <2> QED BY <1>2, <2>1, Zenon
<1>4. (b + (d % m)) % m = (b + d) % m
      BY <1>1, <1>2, ModAdd, Zenon
<1>5. f \in Nat
      BY <1>1, <1>2, ModRange
<1> HIDE DEF f
<1>6. b + f \in Nat /\ (b + f) % m =< b + f
      BY <1>1, <1>5, ModBelow
<1>7. ((z % m) - y) % m =< b + f
      BY <1>3, <1>4, <1>6 DEF f
<1>8. SeqSub(SeqAdd(x, b), y) = ((z % m) - y) % m /\ SeqSub(x, y) = f
      BY Zenon DEF SeqSub, SeqAdd, m, z, d, f
<1>9. f + b = b + f
      BY <1>5
<1> QED BY <1>7, <1>8, <1>9

\* A number of the sequence space stays one, and stays itself without an
\* addition.
LEMMA SeqAddRange ==
    ASSUME NEW x \in SeqNum, NEW b \in Int
    PROVE  SeqAdd(x, b) \in SeqNum /\ SeqAdd(x, 0) = x
<1>1. SeqSpace \in Nat \ {0} /\ x \in Int /\ x \in 0 .. SeqSpace - 1
      BY SizeAssumption DEF SeqNum
<1>2. x + b \in Int /\ x + 0 = x
      BY <1>1
<1>3. (x + b) % SeqSpace \in 0 .. SeqSpace - 1
      BY <1>1, <1>2, ModRange
<1>4. x % SeqSpace = x
  <2>1. (SeqSpace * 0 + x) % SeqSpace = x
        BY <1>1, ModUnique
  <2>2. SeqSpace * 0 + x = x
        BY <1>1
  <2> QED BY <2>1, <2>2
<1> QED BY <1>2, <1>3, <1>4 DEF SeqAdd, SeqNum

\* The usable window is what the two windows leave.
LEMMA UsableLeft ==
    ASSUME NEW s, IsSock(s)
    PROVE  LET flight == SeqSub(s.sndNxt, s.sndUna)
           IN  /\ UsableWindow(s) \in Int /\ flight \in Int
               /\ flight + UsableWindow(s) =< s.sndWnd
               /\ CongestControl => flight + UsableWindow(s) =< s.cwnd
<1> DEFINE flight == SeqSub(s.sndNxt, s.sndUna)
           wnd == MinOf(s.sndWnd, TxBufferSize)
           n   == IF CongestControl THEN MinOf(wnd, s.cwnd) ELSE wnd
<1>1. /\ s.sndWnd \in Int /\ s.cwnd \in Int /\ TxBufferSize \in Int
      /\ s.sndNxt \in Int /\ s.sndUna \in Int
      BY SizeAssumption DEF IsSock, Numeric
<1>2. wnd \in Int /\ wnd =< s.sndWnd
      BY <1>1 DEF MinOf
<1> HIDE DEF wnd
<1>3. MinOf(wnd, s.cwnd) \in Int /\ MinOf(wnd, s.cwnd) =< wnd /\ MinOf(wnd, s.cwnd) =< s.cwnd
      BY <1>1, <1>2 DEF MinOf
<1>4. n \in Int /\ n =< s.sndWnd /\ (CongestControl => n =< s.cwnd)
      BY <1>1, <1>2, <1>3
<1>5. flight \in Int
      BY <1>1, SeqIntegral
<1>6. UsableWindow(s) = n - flight
      BY DEF UsableWindow, wnd
<1> HIDE DEF n, flight
<1>7. UsableWindow(s) \in Int /\ flight + UsableWindow(s) = n
      BY <1>4, <1>5, <1>6
<1>8. flight + UsableWindow(s) =< s.sndWnd
      BY <1>4, <1>7
<1>9. CongestControl => flight + UsableWindow(s) =< s.cwnd
      BY <1>4, <1>7
<1> QED BY <1>5, <1>7, <1>8, <1>9 DEF flight

\* A burst within the usable window stays within both windows.
LEMMA BurstSends ==
    ASSUME NEW s, IsSock(s), NEW full \in Nat, NEW tail \in Nat,
           \/ full * Smss + tail = 0
           \/ full * Smss + tail =< UsableWindow(s)
    PROVE  Sends(s, SendBurst(s, full, tail))
<1> DEFINE t == SendBurst(s, full, tail)
           total == full * Smss + tail
           flight == SeqSub(s.sndNxt, s.sndUna)
<1>1. total \in Nat
  <2>1. full * Smss \in Nat
        BY SizeAssumption, FewerSegments
  <2> QED BY <2>1
<1>2. PICK bytes \in 0 .. total : t.sndNxt = SeqAdd(s.sndNxt, bytes)
      BY BurstMoves
<1>3. /\ t.iss = s.iss /\ t.sndUna = s.sndUna /\ t.sndWnd = s.sndWnd
      /\ t.cwnd = s.cwnd /\ t.persistTimer = s.persistTimer
      /\ t.wndProbeInterval = s.wndProbeInterval
      /\ t.timeWaitTimer = s.timeWaitTimer
  <2>1. PICK items, a, b : t = [SendRun(s, items, TRUE) EXCEPT !.sndNxt = a,
                                                               !.sndUser = b]
        BY DEF SendBurst
  <2> DEFINE r == SendRun(s, items, TRUE)
  <2>2. Quiet(s, r) /\ DOMAIN r = SockField
        BY RunQuiet, RunSent DEF Steady, Shift, IsSock
  <2> HIDE DEF r, t
  <2> QED BY <2>1, <2>2 DEF Quiet, SockField, r
<1>4. total = 0 \/ total =< UsableWindow(s)
      OBVIOUS
<1> HIDE DEF t, total
<1>5. bytes \in Nat /\ (bytes = 0 \/ bytes =< UsableWindow(s))
  <2>1. UsableWindow(s) \in Int
        BY UsableLeft
  <2> QED BY <1>1, <1>2, <1>4, <2>1
<1>6. ASSUME s.sndNxt \in SeqNum
      PROVE  t.sndNxt \in SeqNum /\ (t.sndNxt = s.sndNxt \/ Fits(t))
  <2>1. t.sndNxt \in SeqNum /\ (bytes = 0 => t.sndNxt = s.sndNxt)
        BY <1>2, <1>5, <1>6, SeqAddRange
  <2>2. ASSUME bytes =< UsableWindow(s) PROVE Fits(t)
    <3> DEFINE after == SeqSub(t.sndNxt, t.sndUna)
    <3>1. s.sndNxt \in Int /\ s.sndUna \in Int
          BY DEF IsSock, Numeric
    <3>2. after =< flight + bytes
          BY <1>2, <1>3, <1>5, <3>1, FlightGrows
    <3>3. /\ UsableWindow(s) \in Int /\ flight \in Int
          /\ flight + UsableWindow(s) =< s.sndWnd
          /\ CongestControl => flight + UsableWindow(s) =< s.cwnd
          BY UsableLeft
    <3>4. after \in Int
      <4>1. bytes \in Int
            BY <1>5
      <4>2. SeqAdd(s.sndNxt, bytes) \in Int
            BY <3>1, <4>1, SeqIntegral
      <4> QED BY <1>2, <1>3, <3>1, <4>2, SeqIntegral
    <3>5. s.sndWnd \in Int /\ s.cwnd \in Int
          BY DEF IsSock, Numeric
    <3> HIDE DEF after, flight
    <3>6. after =< s.sndWnd
          BY <1>5, <2>2, <3>2, <3>3, <3>4, <3>5
    <3>7. CongestControl => after =< s.cwnd
          BY <1>5, <2>2, <3>2, <3>3, <3>4, <3>5
    <3> QED BY <1>3, <3>6, <3>7 DEF Fits, after
  <2> QED BY <1>5, <2>1, <2>2
<1> QED BY <1>3, <1>6 DEF Sends, t

\* What tcpNagleAlgo and the override timer send is within the usable window.
LEMMA BurstBounded ==
    ASSUME NEW s, IsSock(s)
    PROVE  LET u     == UsableWindow(s)
               burst == IF u <= 0 THEN 0 ELSE MinOf(s.sndUser, u)
               full  == burst \div Smss
               rest  == burst % Smss
           IN  /\ full \in Nat /\ rest \in Nat
               /\ full * Smss + rest = 0 \/ full * Smss + rest =< u
               /\ full * Smss = 0 \/ full * Smss =< u
<1> DEFINE u     == UsableWindow(s)
           burst == IF u <= 0 THEN 0 ELSE MinOf(s.sndUser, u)
           full  == burst \div Smss
           rest  == burst % Smss
<1>1. Smss \in Nat \ {0}
      BY SizeAssumption
<1>2. u \in Int
      BY UsableLeft
<1>3. full \in Nat /\ rest \in Nat
      BY WindowAllows
<1> HIDE DEF u
<1>4. burst \in Nat /\ (burst = 0 \/ burst =< u)
      BY <1>2 DEF IsSock, Numeric, MinOf
<1> HIDE DEF burst
<1>5. burst = Smss * full + rest
      BY <1>1, <1>4, DivMod
<1> HIDE DEF full, rest
<1>6. full * Smss = Smss * full /\ full * Smss \in Nat
      BY <1>1, <1>3, FewerSegments
<1> DEFINE k == full * Smss
<1> HIDE DEF k
<1>7. k \in Nat /\ burst = k + rest
      BY <1>5, <1>6 DEF k
<1>8. /\ k + rest = 0 \/ k + rest =< u
      /\ k = 0 \/ k =< u
      BY <1>2, <1>3, <1>4, <1>7
<1> QED BY <1>3, <1>8 DEF k, full, rest, burst, u

\* tcpNagleAlgo sends within the window.
LEMMA NagleSends ==
    ASSUME NEW s, IsSock(s), NEW flags
    PROVE  Sends(s, tcpNagleAlgo(s, flags))
<1> DEFINE u     == UsableWindow(s)
           burst == IF u <= 0 THEN 0 ELSE MinOf(s.sndUser, u)
           full  == burst \div Smss
           rest  == burst % Smss
           e     == [s EXCEPT !.err = FALSE]
<1>1. /\ full \in Nat /\ rest \in Nat
      /\ full * Smss + rest = 0 \/ full * Smss + rest =< u
      /\ full * Smss = 0 \/ full * Smss =< u
      /\ full * Smss + rest =< s.sndUser /\ full * Smss =< s.sndUser
      BY BurstBounded, WindowAllows
<1>2. PICK tail \in {rest, 0} :
        LET t == SendBurst(e, full, tail)
        IN  tcpNagleAlgo(s, flags) = IF t.err THEN t ELSE tcpUpdateEvents(t)
      BY DEF tcpNagleAlgo
<1>3. IsSock(e) /\ Quiet(s, e) /\ e.sndUser = s.sndUser
      BY DEF IsSock, SockField, Numeric, Quiet
<1>4. UsableWindow(e) = u
      BY <1>3 DEF UsableWindow, Quiet
<1> HIDE DEF u, full, rest, e
<1>5. /\ tail \in Nat
      /\ full * Smss + tail = 0 \/ full * Smss + tail =< UsableWindow(e)
      /\ full * Smss + tail =< e.sndUser
  <2> DEFINE k == full * Smss
  <2>1. k \in Nat
        BY <1>1, SizeAssumption, FewerSegments
  <2>2. /\ k + rest = 0 \/ k + rest =< u
        /\ k = 0 \/ k =< u
        /\ k + rest =< e.sndUser /\ k =< e.sndUser
        BY <1>1, <1>3
  <2> HIDE DEF k
  <2>3. CASE tail = rest
    <3>1. tail \in Nat /\ (k + tail = 0 \/ k + tail =< u) /\ k + tail =< e.sndUser
          BY <1>1, <2>2, <2>3
    <3> QED BY <1>4, <3>1 DEF k
  <2>4. CASE tail = 0
    <3>1. k + tail = k /\ tail \in Nat
          BY <2>1, <2>4
    <3>2. (k + tail = 0 \/ k + tail =< u) /\ k + tail =< e.sndUser
          BY <2>2, <3>1
    <3> QED BY <1>4, <3>1, <3>2 DEF k
  <2> QED BY <1>2, <2>3, <2>4
<1> DEFINE t == SendBurst(e, full, tail)
<1>6. Sends(e, t) /\ IsSock(t)
      BY <1>1, <1>3, <1>5, BurstSends, Burst DEF Steady, Shift
<1> HIDE DEF t
<1>7. Silent(t, tcpUpdateEvents(t))
      BY <1>6, EventsSilent
<1>8. Sends(s, t)
      BY <1>3, <1>6 DEF Sends, Quiet
<1>9. Sends(s, tcpUpdateEvents(t))
      BY <1>7, <1>8 DEF Sends, Silent, Quiet, Fits
<1> QED BY <1>2, <1>8, <1>9 DEF t

\* So does the override timer.
LEMMA OverrideSends ==
    ASSUME NEW s, IsSock(s)
    PROVE  Sends(s, OverrideTimeout(s))
<1> DEFINE u     == UsableWindow(s)
           burst == IF u <= 0 THEN 0 ELSE MinOf(s.sndUser, u)
           full  == burst \div Smss
           rest  == burst % Smss
           t     == SendBurst(s, full, rest)
<1>1. /\ full \in Nat /\ rest \in Nat
      /\ full * Smss + rest = 0 \/ full * Smss + rest =< UsableWindow(s)
      /\ full * Smss + rest =< s.sndUser
      BY BurstBounded, WindowAllows
<1>2. OverrideTimeout(s) = tcpUpdateEvents(t)
      BY DEF OverrideTimeout
<1> HIDE DEF full, rest
<1>3. Sends(s, t) /\ IsSock(t)
      BY <1>1, BurstSends, Burst DEF Steady, Shift
<1> HIDE DEF t
<1>4. Silent(t, tcpUpdateEvents(t))
      BY <1>3, EventsSilent
<1> QED BY <1>2, <1>3, <1>4 DEF Sends, Silent, Quiet, Fits
----------------------------------------------------------------------------
(* Acknowledgments *)

\* The RTT sample,
LEMMA RtoSilent ==
    ASSUME NEW s, IsSock(s)
    PROVE  Silent(s, tcpComputeRto(s))
BY DEF IsSock, SockField, Silent, Quiet, tcpComputeRto

\* the retransmission queue
LEMMA QueueSilent ==
    ASSUME NEW s, IsSock(s)
    PROVE  Silent(s, tcpUpdateRetransmitQueue(s))
<1> DEFINE Stays(item) == TCP_CMP_SEQ(s.sndUna, ItemEnd(item)) < 0
           empty   == ~ \E i \in DOMAIN s.retransmitQueue :
                          Stays(s.retransmitQueue[i])
           left    == IF empty THEN <<>> ELSE SelectSeq(s.retransmitQueue, Stays)
           t       == tcpUpdateRetransmitQueue(s)
<1>1. Quiet(s, t)
      BY DEF IsSock, SockField, Quiet, tcpUpdateRetransmitQueue
<1>2. t.retransmitQueue = left
      BY DEF IsSock, SockField, tcpUpdateRetransmitQueue
<1>3. s.retransmitQueue = <<>> => left = <<>>
      OBVIOUS
<1> HIDE DEF t, left
<1> QED BY <1>1, <1>2, <1>3 DEF Silent, t

\* and the control block have nothing to do with the window.
LEMMA DeleteSilent ==
    ASSUME NEW s, IsSock(s)
    PROVE  /\ Silent(s, tcpDeleteControlBlock(s))
           /\ tcpDeleteControlBlock(s).retransmitQueue = <<>>
BY DEF IsSock, SockField, Silent, Quiet, tcpDeleteControlBlock,
       tcpFlushSynQueue, tcpFlushRetransmitQueue

\* Assignments to the congestion state are calm.
LEMMA CongestionCalm ==
    ASSUME NEW s, NEW t, IsSock(t), Calm(s, t),
           NEW a, NEW b, NEW c, NEW d, NEW e
    PROVE  /\ Calm(s, [t EXCEPT !.ssthresh = a, !.recover = b, !.cwnd = c,
                               !.congestState = d])
           /\ Calm(s, [t EXCEPT !.cwnd = c, !.congestState = d])
           /\ Calm(s, [t EXCEPT !.cwnd = c])
           /\ Calm(s, [t EXCEPT !.congestState = d])
           /\ Calm(s, [t EXCEPT !.dupAckCount = e])
BY DEF IsSock, SockField, Calm

\* A retransmission is calm, and so is doing nothing.
LEMMA RetransmitCalm ==
    ASSUME NEW s, IsSock(s)
    PROVE  /\ Calm(s, s) /\ Calm(s, tcpRetransmitSegment(s))
           /\ IsSock(tcpRetransmitSegment(s))
<1>1. Silent(s, tcpRetransmitSegment(s)) /\ Steady(s, tcpRetransmitSegment(s))
      BY RetransmitSilent, RetransmitSegment
<1> QED BY <1>1 DEF Silent, Quiet, Calm, Steady, Shift

\* The procedures of congestion control move the congestion window only.
LEMMA RecoveryCalm ==
    ASSUME NEW s, IsSock(s), NEW seg, NEW n
    PROVE  /\ Calm(s, tcpFastRetransmit(s))
           /\ Calm(s, tcpFastRecovery(s, seg, n))
           /\ Calm(s, tcpFastLossRecovery(s, seg))
<1>1. Calm(s, s) /\ Calm(s, tcpRetransmitSegment(s)) /\ IsSock(tcpRetransmitSegment(s))
      BY RetransmitCalm
<1>2. Calm(s, tcpFastRetransmit(s))
      BY <1>1, CongestionCalm DEF tcpFastRetransmit
<1>3. Calm(s, tcpFastRecovery(s, seg, n))
  <2> DEFINE w == U16((IF s.cwnd > n THEN s.cwnd - n ELSE s.cwnd)
                      + (IF n >= Smss THEN Smss ELSE 0))
  <2>1. tcpFastRecovery(s, seg, n) =
          IF TCP_CMP_SEQ(seg.ackNum, s.recover) > 0
          THEN [s EXCEPT !.cwnd = s.ssthresh, !.congestState = "IDLE"]
          ELSE [tcpRetransmitSegment(s) EXCEPT !.cwnd = w]
        BY DEF tcpFastRecovery
  <2> HIDE DEF w
  <2>2. /\ Calm(s, [s EXCEPT !.cwnd = s.ssthresh, !.congestState = "IDLE"])
        /\ Calm(s, [tcpRetransmitSegment(s) EXCEPT !.cwnd = w])
        BY <1>1, CongestionCalm
  <2> QED BY <2>1, <2>2
<1>4. Calm(s, tcpFastLossRecovery(s, seg))
      BY <1>1, CongestionCalm DEF tcpFastLossRecovery
<1> QED BY <1>2, <1>3, <1>4

\* Calm steps compose.
LEMMA CalmThen ==
    ASSUME NEW s, NEW t, NEW u, Calm(s, t), Calm(t, u)
    PROVE  Calm(s, u)
BY DEF Calm

\* Limiting the congestion window is calm.
LEMMA LimitCalm ==
    ASSUME NEW s, NEW t, IsSock(t), Calm(s, t)
    PROVE  Calm(s, LimitCwnd(t))
BY CongestionCalm DEF LimitCwnd

\* Congestion control on new data acknowledged is calm.
LEMMA NewCongestionCalm ==
    ASSUME NEW s, IsSock(s), NEW seg, IsSeg(seg), NEW n \in Int, NEW rttDone
    PROVE  Calm(s, CongestNewAck(s, seg, n, rttDone))
<1> DEFINE r == [s EXCEPT !.dupAckCount = 0]
           l == IF s.congestState = "LOSS_RECOVERY"
                THEN tcpFastLossRecovery(r, seg) ELSE r
           grow == IF s.cwnd < s.ssthresh THEN MinOf(n, Smss)
                   ELSE IF rttDone THEN MinOf(s.n, Smss) ELSE 0
           c == U16(l.cwnd + grow)
<1>1. Calm(s, r) /\ IsSock(r)
      BY OtherField DEF IsSock, SockField, Numeric, Calm
<1> HIDE DEF r
<1>2. Calm(s, l) /\ IsSock(l)
  <2>1. Calm(r, tcpFastLossRecovery(r, seg)) /\ Steady(r, tcpFastLossRecovery(r, seg))
        BY <1>1, RecoveryCalm, FastLossRecovery
  <2>2. Calm(s, tcpFastLossRecovery(r, seg)) /\ IsSock(tcpFastLossRecovery(r, seg))
        BY <1>1, <2>1, CalmThen DEF Steady, Shift
  <2> QED BY <1>1, <2>2
<1> HIDE DEF l, grow, c
<1>3. Calm(s, LimitCwnd([l EXCEPT !.cwnd = c]))
  <2>1. Calm(s, [l EXCEPT !.cwnd = c])
        BY <1>2, CongestionCalm
  <2>2. Calm(s, [l EXCEPT !.cwnd = MinOf(c, TxBufferSize)])
        BY <1>2, CongestionCalm
  <2>3. LimitCwnd([l EXCEPT !.cwnd = c]) = [l EXCEPT !.cwnd = MinOf(c, TxBufferSize)]
        BY <1>2 DEF LimitCwnd, IsSock, SockField
  <2> QED BY <2>2, <2>3
<1>4. Calm(s, LimitCwnd(tcpFastRecovery(s, seg, n)))
  <2>1. Calm(s, tcpFastRecovery(s, seg, n)) /\ IsSock(tcpFastRecovery(s, seg, n))
        BY RecoveryCalm, FastRecovery DEF Steady, Shift
  <2> QED BY <2>1, LimitCalm
<1>5. CongestNewAck(s, seg, n, rttDone) \in
        {LimitCwnd(tcpFastRecovery(s, seg, n)), LimitCwnd([l EXCEPT !.cwnd = c])}
      BY DEF CongestNewAck, l, grow, c, r
<1> QED BY <1>3, <1>4, <1>5

\* So it is on a repeated acknowledgment.
LEMMA SameCongestionCalm ==
    ASSUME NEW s, IsSock(s), NEW seg, NEW duplicate
    PROVE  Calm(s, CongestSameAck(s, seg, duplicate))
<1> DEFINE k == IF duplicate THEN s.dupAckCount + 1 ELSE 0
           c == [s EXCEPT !.dupAckCount = k]
           w == U16(c.cwnd + Smss)
<1>1. Calm(s, c) /\ IsSock(c)
  <2> HIDE DEF k
  <2> QED BY DEF IsSock, SockField, Numeric, Calm
<1>2. CongestSameAck(s, seg, duplicate) \in
        {LimitCwnd(c), LimitCwnd(tcpFastRetransmit(c)), LimitCwnd([c EXCEPT !.cwnd = w])}
      BY DEF CongestSameAck
<1> HIDE DEF c, w
<1>3. Calm(s, LimitCwnd(c))
      BY <1>1, LimitCalm
<1>4. Calm(s, LimitCwnd(tcpFastRetransmit(c)))
  <2>1. Calm(c, tcpFastRetransmit(c)) /\ IsSock(tcpFastRetransmit(c))
        BY <1>1, RecoveryCalm, FastRetransmit DEF Steady, Shift
  <2>2. Calm(s, tcpFastRetransmit(c))
        BY <1>1, <2>1, CalmThen
  <2> QED BY <2>1, <2>2, LimitCalm
<1>5. Calm(s, LimitCwnd([c EXCEPT !.cwnd = w]))
  <2>1. Calm(s, [c EXCEPT !.cwnd = MinOf(w, TxBufferSize)])
        BY <1>1, CongestionCalm
  <2>2. LimitCwnd([c EXCEPT !.cwnd = w]) = [c EXCEPT !.cwnd = MinOf(w, TxBufferSize)]
        BY <1>1 DEF LimitCwnd, IsSock, SockField
  <2> QED BY <2>1, <2>2
<1> QED BY <1>2, <1>3, <1>4, <1>5

\* Taking an acknowledgment of new data is calm.
LEMMA NewAckCalm ==
    ASSUME NEW s, IsSock(s), NEW seg, IsSeg(seg)
    PROVE  Calm(s, NewAck(s, seg))
<1> DEFINE acked == SeqSub(seg.ackNum, s.sndUna)
           n == IF s.sndUna = s.iss THEN acked - 1 ELSE acked
           a == [s EXCEPT !.sndUna = seg.ackNum,
                          !.n = IF CongestControl THEN @ + n ELSE @]
           q == tcpUpdateRetransmitQueue(tcpComputeRto(a))
<1>1. n \in Int
  <2>1. acked \in Int
    <3>1. seg.ackNum \in Int /\ s.sndUna \in Int
          BY DEF IsSock, Numeric, IsSeg
    <3> QED BY <3>1, SeqIntegral
  <2> HIDE DEF acked
  <2> QED BY <2>1
<1> HIDE DEF n
<1>2. Calm(s, q) /\ IsSock(q)
  <2>1. Calm(s, a) /\ IsSock(a)
        BY <1>1 DEF IsSock, SockField, Numeric, IsSeg, Calm
  <2> HIDE DEF a
  <2>2. Silent(a, tcpComputeRto(a)) /\ IsSock(tcpComputeRto(a))
        BY <2>1, RtoSilent, ComputeRto DEF Steady, Shift
  <2>3. Silent(tcpComputeRto(a), q) /\ IsSock(q)
        BY <2>2, QueueSilent, UpdateRetransmitQueue DEF Steady, Shift
  <2> HIDE DEF q
  <2> QED BY <2>1, <2>2, <2>3, QuietCalm DEF Silent
<1> HIDE DEF q
<1>3. ASSUME NEW done PROVE Calm(s, CongestNewAck(q, seg, n, done))
      BY <1>1, <1>2, NewCongestionCalm, CalmThen
<1>4. NewAck(s, seg) = IF CongestControl THEN CongestNewAck(q, seg, n, RttMeasured(a)) ELSE q
      BY DEF NewAck, q, a, n
<1> HIDE DEF a
<1> QED BY <1>2, <1>3, <1>4

\* tcpUpdateSendWindow starts to probe a window that closes.
LEMMA WindowHeard ==
    ASSUME NEW s, IsSock(s), NEW seg, IsSeg(seg), Has(seg, "ACK"), seg.window \in Nat
    PROVE  Heard(s, tcpUpdateSendWindow(s, seg), seg)
<1> DEFINE same  == seg.seqNum = s.sndWl1 /\ seg.ackNum = s.sndWl2
           newer == /\ TCP_CMP_SEQ(seg.seqNum, s.sndWl1) >= 0
                    /\ TCP_CMP_SEQ(seg.ackNum, s.sndWl2) >= 0
           takes == IF same THEN seg.window > s.sndWnd ELSE newer
           probe == ~same /\ newer /\ seg.window = 0 /\ s.sndWnd # 0
           t     == tcpUpdateSendWindow(s, seg)
<1>1. /\ t.sndNxt = s.sndNxt /\ t.iss = s.iss
      /\ t.timeWaitTimer = s.timeWaitTimer
      /\ t.wndProbeInterval = IF probe THEN 1 ELSE s.wndProbeInterval
      /\ t.persistTimer = (s.persistTimer \/ probe)
      /\ t.sndWnd = IF takes THEN seg.window ELSE s.sndWnd
      BY DEF IsSock, SockField, tcpUpdateSendWindow
<1>2. probe => seg.window = 0
      OBVIOUS
<1>3. takes /\ seg.window = 0 /\ s.sndWnd \in Nat => probe \/ s.sndWnd = 0
      OBVIOUS
<1> HIDE DEF t, takes, probe
<1>4. Probing(s) => Probing(t)
  <2> SUFFICES ASSUME Probing(s) PROVE Probing(t)
      OBVIOUS
  <2>1. CASE takes
        BY <1>1, <1>3, <2>1 DEF Probing
  <2>2. CASE ~takes
        BY <1>1, <2>2 DEF Probing
  <2> QED BY <2>1, <2>2
<1> QED BY <1>1, <1>2, <1>4 DEF Heard, t

\* A calm step after it changes nothing.
LEMMA HeardCalm ==
    ASSUME NEW s, NEW t, NEW u, NEW seg, Heard(s, t, seg), Calm(t, u)
    PROVE  Heard(s, u, seg)
BY DEF Heard, Calm, Probing

\* tcpCheckAck takes over the window and nothing else.
LEMMA CheckAckHeard ==
    ASSUME NEW s, IsSock(s), NEW seg, IsSeg(seg), seg.window \in Nat
    PROVE  Heard(s, tcpCheckAck(s, seg), seg)
<1> DEFINE w == tcpUpdateSendWindow(s, seg)
<1>1. Heard(s, s, seg)
      BY DEF Heard
<1>2. Silent(s, SendAck(s))
      BY AckSilent
<1>3. Heard(s, SendAck(s), seg)
      BY <1>2 DEF Heard, Silent, Quiet, Probing
<1>4. ASSUME Has(seg, "ACK")
      PROVE  /\ Heard(s, tcpUpdateEvents(NewAck(w, seg)), seg)
             /\ Heard(s, tcpUpdateEvents(w), seg)
             /\ \A d : Heard(s, tcpUpdateEvents(CongestSameAck(w, seg, d)), seg)
  <2>1. Heard(s, w, seg) /\ IsSock(w)
        BY <1>4, WindowHeard, UpdateSendWindow DEF Steady, Shift
  <2> HIDE DEF w
  <2>2. ASSUME NEW t, Calm(w, t), IsSock(t)
        PROVE  Heard(s, tcpUpdateEvents(t), seg)
    <3>1. Silent(t, tcpUpdateEvents(t))
          BY <2>2, EventsSilent
    <3>2. Calm(w, tcpUpdateEvents(t))
          BY <2>2, <3>1, QuietCalm DEF Silent
    <3> QED BY <2>1, <3>2, HeardCalm
  <2>3. Calm(w, NewAck(w, seg)) /\ IsSock(NewAck(w, seg))
        BY <2>1, NewAckCalm, AckOfNewData DEF Steady, Shift
  <2>4. \A d : Calm(w, CongestSameAck(w, seg, d)) /\ IsSock(CongestSameAck(w, seg, d))
        BY <2>1, SameCongestionCalm, CongestionSameAck DEF Steady, Shift
  <2>5. Calm(w, w)
        BY DEF Calm
  <2> QED BY <2>1, <2>2, <2>3, <2>4, <2>5
<1> HIDE DEF w
<1>5. ASSUME Has(seg, "ACK")
      PROVE  tcpCheckAck(s, seg) \in
               {s, SendAck(s), tcpUpdateEvents(NewAck(w, seg)), tcpUpdateEvents(w)} \cup
               {tcpUpdateEvents(CongestSameAck(w, seg, tcpIsDuplicateAck(s, seg)))}
      BY <1>5 DEF tcpCheckAck, w
<1>6. ~Has(seg, "ACK") => tcpCheckAck(s, seg) = s
      BY DEF tcpCheckAck
<1> QED BY <1>1, <1>3, <1>4, <1>5, <1>6
----------------------------------------------------------------------------
(* Incoming segments *)

\* Receiving data leaves the send window alone,
LEMMA TextSilent ==
    ASSUME NEW s, IsSock(s), NEW seg, IsSeg(seg)
    PROVE  Silent(s, SegmentText(s, seg))
<1>1. ASSUME NEW left, NEW right, NEW data, NEW x, NEW y, NEW z
      PROVE  LET b == tcpUpdateSackBlocks(tcpWriteRxBuffer(s, left, data),
                                          left, right)
                 r == [b EXCEPT !.rcvNxt = x, !.rcvUser = y, !.rcvWnd = z]
             IN  /\ Silent(s, SendAck(b))
                 /\ Silent(s, tcpUpdateEvents(SendAck(r)))
  <2> DEFINE w == tcpWriteRxBuffer(s, left, data)
             b == tcpUpdateSackBlocks(w, left, right)
             r == [b EXCEPT !.rcvNxt = x, !.rcvUser = y, !.rcvWnd = z]
  <2>1. Silent(s, w) /\ IsSock(w)
        BY DEF IsSock, SockField, Numeric, Silent, Quiet, tcpWriteRxBuffer
  <2> HIDE DEF w
  <2>2. Silent(w, b) /\ IsSock(b)
        BY <2>1 DEF IsSock, SockField, Numeric, Silent, Quiet, tcpUpdateSackBlocks
  <2> HIDE DEF b
  <2>3. Silent(s, b)
        BY <2>1, <2>2, SilentThen
  <2>4. Silent(s, r) /\ IsSock(r)
        BY <2>2, <2>3 DEF IsSock, SockField, Numeric, Silent, Quiet
  <2> HIDE DEF r
  <2>5. /\ Silent(s, SendAck(b)) /\ Silent(s, SendAck(r))
        /\ IsSock(SendAck(r))
        BY <2>2, <2>3, <2>4, AckSilent, SilentThen, Acknowledge DEF Steady, Shift
  <2>6. Silent(s, tcpUpdateEvents(SendAck(r)))
        BY <2>5, EventsSilent, SilentThen
  <2> QED BY <2>5, <2>6 DEF r, b, w
<1> DEFINE end   == SeqAdd(s.rcvNxt, s.rcvWnd)
           stop  == SeqAdd(seg.seqNum, SegLen(seg))
           left  == IF TCP_CMP_SEQ(seg.seqNum, s.rcvNxt) < 0
                    THEN s.rcvNxt ELSE seg.seqNum
           right == IF TCP_CMP_SEQ(stop, end) > 0 THEN end ELSE stop
           skip  == SeqSub(left, seg.seqNum)
           data  == SubSeq(seg.data, skip + 1, skip + SeqSub(right, left))
           m     == AbsorbBlocks(s.sackBlock, left, right)
           b     == tcpUpdateSackBlocks(tcpWriteRxBuffer(s, left, data),
                                        left, right)
           more  == SeqSub(m.right, m.left)
           r     == [b EXCEPT !.rcvNxt = SeqAdd(@, more),
                              !.rcvUser = U16(@ + more),
                              !.rcvWnd = U16(@ - more)]
<1>2. Silent(s, SendAck(b)) /\ Silent(s, tcpUpdateEvents(SendAck(r)))
  <2> HIDE DEF left, right, data, more
  <2> QED BY <1>1
<1>3. tcpProcessSegmentData(s, seg) =
        IF TCP_CMP_SEQ(m.left, s.rcvNxt) > 0
        THEN SendAck(b) ELSE tcpUpdateEvents(SendAck(r))
      BY DEF tcpProcessSegmentData
<1> HIDE DEF b, r, m
<1>4. Silent(s, tcpProcessSegmentData(s, seg))
      BY <1>2, <1>3
<1>5. Silent(s, s)
      BY DEF Silent, Quiet
<1> QED BY <1>4, <1>5 DEF SegmentText

\* and so do the peer's FIN
LEMMA FinSilent ==
    ASSUME NEW s, IsSock(s)
    PROVE  Silent(s, AcceptFin(s))
<1> DEFINE r == [s EXCEPT !.rcvNxt = SeqAdd(@, 1)]
<1>1. Silent(s, r) /\ IsSock(r)
      BY DEF IsSock, SockField, Numeric, Silent, Quiet
<1> HIDE DEF r
<1>2. Silent(s, SendAck(r))
      BY <1>1, AckSilent, SilentThen
<1> QED BY <1>2 DEF AcceptFin, r

\* and the update of the receive window.
LEMMA ReceiveWindowSilent ==
    ASSUME NEW s, IsSock(s)
    PROVE  Silent(s, tcpUpdateReceiveWindow(s))
<1>1. ASSUME NEW v
      PROVE  /\ Silent(s, [s EXCEPT !.rcvWnd = v])
             /\ Silent(s, SendAck([s EXCEPT !.rcvWnd = v]))
  <2> DEFINE w == [s EXCEPT !.rcvWnd = v]
  <2>1. Silent(s, w) /\ IsSock(w)
        BY DEF IsSock, SockField, Numeric, Silent, Quiet
  <2> HIDE DEF w
  <2>2. Silent(s, SendAck(w))
        BY <2>1, AckSilent, SilentThen
  <2> QED BY <2>1, <2>2 DEF w
<1>2. Silent(s, s)
      BY DEF Silent, Quiet
<1> QED BY <1>1, <1>2 DEF tcpUpdateReceiveWindow

\* Giving the slot back
LEMMA DisposeSilent ==
    ASSUME NEW s, IsSock(s)
    PROVE  Silent(s, Dispose(s)) /\ Dispose(s).state = s.state
<1> DEFINE d == tcpDeleteControlBlock(s)
<1>1. Silent(s, d) /\ IsSock(d) /\ d.state = s.state
      BY DeleteSilent, DeleteControlBlock DEF Steady, Shift
<1> HIDE DEF d
<1> QED BY <1>1 DEF IsSock, SockField, Silent, Quiet, Dispose, d

\* The end of a connection is careful,
LEMMA EndCareful ==
    ASSUME NEW r, NEW s, IsSock(s), Careful(r, s)
    PROVE  /\ Careful(r, tcpChangeState(s, "CLOSED"))
           /\ Careful(r, Dispose(tcpChangeState(s, "CLOSED")))
<1> DEFINE c == tcpChangeState(s, "CLOSED")
<1>1. Silent(s, c) /\ c.state = "CLOSED" /\ IsSock(c)
      BY ChangeSilent, ChangeState DEF Ends
<1> HIDE DEF c
<1>2. Silent(c, Dispose(c)) /\ Dispose(c).state = c.state
      BY <1>1, DisposeSilent
<1>3. Silent(s, Dispose(c))
      BY <1>1, <1>2, SilentThen
<1>4. "CLOSED" \notin DataStates \cup {"SYN_SENT", "TIME_WAIT"}
      BY DEF DataStates
<1>5. Careful(r, c)
      BY <1>1, <1>4, LeaveCareful DEF Silent
<1>6. Careful(r, Dispose(c))
      BY <1>1, <1>2, <1>3, <1>4, LeaveCareful DEF Silent
<1> QED BY <1>5, <1>6 DEF c

\* and so is TIME-WAIT, whose timer starts with it.
LEMMA TimeWaitCareful ==
    ASSUME NEW r, NEW s, IsSock(s), Careful(r, s)
    PROVE  Careful(r, EnterTimeWait(s))
<1> DEFINE d == tcpDeleteControlBlock(s)
           t == [d EXCEPT !.timeWaitTimer = TRUE]
           c == tcpChangeState(t, "TIME_WAIT")
<1>1. Silent(s, d) /\ d.retransmitQueue = <<>> /\ IsSock(d)
      BY DeleteSilent, DeleteControlBlock DEF Steady, Shift
<1> HIDE DEF d
<1>2. /\ t.sndNxt = s.sndNxt /\ t.wndProbeInterval = s.wndProbeInterval
      /\ Waiting(t) /\ IsSock(t)
      BY <1>1 DEF IsSock, SockField, Numeric, Silent, Quiet, Waiting
<1> HIDE DEF t
<1>3. Silent(t, c) /\ c.state = "TIME_WAIT"
      BY <1>2, ChangeSilent, ChangeState DEF Shift
<1> HIDE DEF c
<1>4. Good(c)
      BY <1>2, <1>3 DEF Careful, Good, Plain, Waiting, Silent, Quiet, DataStates
<1>5. Careful(r, c)
      BY <1>3, <1>4 DEF Careful, Moves, DataStates
<1> QED BY <1>5 DEF EnterTimeWait, c, t, d

\* A segment that does not pass the checks is handled with care.
LEMMA ScreenedCareful ==
    ASSUME NEW s, IsSock(s), Good(s), NEW seg, IsSeg(seg), ~Passes(s, seg)
    PROVE  Careful(s, Screened(s, seg))
<1>1. Careful(s, s)
      BY CarefulSelf
<1>2. Careful(s, tcpChangeState(s, "CLOSED"))
      BY <1>1, EndCareful
<1>3. Careful(s, tcpCheckSequenceNumber(s, seg))
  <2>1. Careful(s, SendAck(s))
        BY <1>1, AckSilent, Acknowledge, SilentCareful DEF Steady, Shift
  <2> QED BY <1>1, <2>1 DEF tcpCheckSequenceNumber
<1>4. Careful(s, tcpCheckSyn(s, seg))
  <2>1. Silent(s, tcpCheckSyn(s, seg)) /\ tcpCheckSyn(s, seg).state = s.state
        BY SendSilent, CheckSyn DEF tcpCheckSyn, Steady, Shift
  <2> QED BY <1>1, <2>1, SilentCareful
<1> QED BY <1>2, <1>3, <1>4 DEF Screened, Passes, Unacceptable, Resets, Misplaced

\* The window of a segment, as the peer may choose it
Offer(s, seg) ==
    /\ IsSeg(seg) /\ seg.window \in Nat
    /\ Has(seg, "ACK") /\ seg.window = 0 =>
        ~StaysOpen /\ (s.state \in {"SYN_SENT", "SYN_RECEIVED"} => ~StartsOpen)

\* Taking it over is careful.
LEMMA HeardCareful ==
    ASSUME NEW s, IsSock(s), Good(s), NEW seg, Offer(s, seg),
           s.state \notin {"SYN_SENT", "TIME_WAIT"}
    PROVE  LET a == tcpCheckAck(s, seg)
           IN  Careful(s, a) /\ IsSock(a) /\ a.state = s.state
<1> DEFINE a == tcpCheckAck(s, seg)
<1>1. Heard(s, a, seg) /\ IsSock(a) /\ a.state = s.state
      BY CheckAckHeard, CheckAck DEF Offer, Steady, Shift
<1> HIDE DEF a
<1>2. Good(a)
      BY <1>1 DEF Good, Plain, Heard, Offer
<1>3. Careful(s, a)
      BY <1>1, <1>2 DEF Careful, Moves, Heard
<1> QED BY <1>1, <1>3 DEF a

\* A quiet step from one state that sends to another
LEMMA DataCareful ==
    ASSUME NEW r, NEW s, NEW t, Careful(r, s), Quiet(s, t),
           s.state \in DataStates, t.state \in DataStates
    PROVE  Careful(r, t)
BY DEF Careful, Good, Plain, Moves, Fits, Probing, Quiet, DataStates

\* Sending what the window now allows
LEMMA TransmitCareful ==
    ASSUME NEW r, NEW s, IsSock(s), Careful(r, s), s.state # "TIME_WAIT"
    PROVE  Careful(r, Transmit(s))
<1>1. Transmit(s).state = s.state
      BY Transmission DEF Steady, Shift
<1>2. Sends(s, Transmit(s))
      BY NagleSends DEF Transmit
<1> QED BY <1>1, <1>2, SendsCareful

\* ESTABLISHED
LEMMA EstablishedCareful ==
    ASSUME NEW s, IsSock(s), Good(s), NEW seg, Offer(s, seg),
           s.state = "ESTABLISHED"
    PROVE  Careful(s, tcpStateEstablished(s, seg))
<1> DEFINE a == tcpCheckAck(s, seg)
           d == SegmentText(a, seg)
           f == tcpChangeState(AcceptFin(d), "CLOSE_WAIT")
<1>1. Careful(s, a) /\ IsSock(a) /\ a.state = s.state
      BY HeardCareful
<1> HIDE DEF a
<1>2. Silent(a, d) /\ IsSock(d) /\ d.state = a.state
      BY <1>1, TextSilent, Text DEF Offer, Steady, Shift
<1> HIDE DEF d
<1>3. Careful(s, d)
      BY <1>1, <1>2, SilentCareful
<1>4. Silent(d, f) /\ IsSock(f) /\ f.state = "CLOSE_WAIT"
  <2>1. Silent(d, AcceptFin(d)) /\ IsSock(AcceptFin(d))
        BY <1>2, FinSilent, Fin DEF Steady, Shift
  <2>2. /\ Silent(AcceptFin(d), f)
        /\ Shift(AcceptFin(d), f, "CLOSE_WAIT")
        BY <2>1, ChangeSilent, ChangeState
  <2> QED BY <2>1, <2>2, SilentThen DEF Shift
<1> HIDE DEF f
<1>5. Careful(s, f)
      BY <1>1, <1>2, <1>3, <1>4, DataCareful DEF Silent, DataStates
<1>6. Careful(s, Transmit(d)) /\ Careful(s, Transmit(f))
      BY <1>1, <1>2, <1>3, <1>4, <1>5, TransmitCareful
<1>7. tcpStateEstablished(s, seg) =
        IF ~Passes(s, seg) THEN Screened(s, seg)
        ELSE IF AckRejected(s, seg) THEN a
        ELSE IF FinInOrder(d, seg) THEN Transmit(f) ELSE Transmit(d)
      BY DEF tcpStateEstablished, EstablishedFin, a, d, f
<1>8. ~Passes(s, seg) => Careful(s, Screened(s, seg))
      BY ScreenedCareful DEF Offer
<1> QED BY <1>1, <1>6, <1>7, <1>8

\* A number is neither before nor after itself.
LEMMA CmpSelf ==
    ASSUME NEW x \in Int
    PROVE  TCP_CMP_SEQ(x, x) = 0
<1>1. SeqSpace \in Nat \ {0}
      BY SizeAssumption
<1>2. x - x = 0 /\ SeqSpace * 0 + 0 = 0 /\ 0 \in 0 .. SeqSpace - 1
      BY <1>1
<1>3. (SeqSpace * 0 + 0) % SeqSpace = 0
      BY <1>1, <1>2, ModUnique
<1>4. SeqSub(x, x) = 0
      BY <1>2, <1>3, Zenon DEF SeqSub
<1> QED BY <1>1, <1>4 DEF TCP_CMP_SEQ

\* SYN-SENT: the connection is established only by a segment with ACK, whose
\* window is taken over.
LEMMA SynSentCareful ==
    ASSUME NEW s, IsSock(s), Good(s), NEW seg, Offer(s, seg),
           s.state = "SYN_SENT"
    PROVE  Careful(s, tcpStateSynSent(s, seg))
<1> DEFINE i == [s EXCEPT !.irs = seg.seqNum,
                          !.rcvNxt = SeqAdd(seg.seqNum, 1),
                          !.sndUna = IF Has(seg, "ACK") THEN seg.ackNum ELSE @]
           r == tcpUpdateRetransmitQueue(tcpComputeRto(i))
           q == [r EXCEPT !.cwnd = IF CongestControl
                                   THEN MinOf(3 * Smss, TxBufferSize) ELSE @]
           w == [q EXCEPT !.sndWnd = seg.window, !.sndWl1 = seg.seqNum,
                          !.sndWl2 = seg.ackNum, !.maxSndWnd = seg.window]
           y == tcpSendSegment(q, {"SYN", "ACK"}, q.iss, q.rcvNxt, 0, TRUE)
           e == tcpSendSegment(s, {"RST"}, seg.ackNum, 0, 0, FALSE)
           badAck == Has(seg, "ACK") /\ seg.ackNum # s.sndNxt
           g == tcpChangeState(SendAck(w), "ESTABLISHED")
           h == tcpChangeState(y, "SYN_RECEIVED")
<1>1. /\ IsSock(i) /\ i.sndNxt = s.sndNxt /\ i.iss = s.iss
      /\ i.wndProbeInterval = s.wndProbeInterval
      /\ i.persistTimer = s.persistTimer
      /\ ~Has(seg, "ACK") => i.sndUna = s.sndUna
      BY DEF IsSock, SockField, Numeric, Offer, IsSeg
<1> HIDE DEF i
<1>2. Silent(i, r) /\ IsSock(r)
  <2>1. Silent(i, tcpComputeRto(i)) /\ IsSock(tcpComputeRto(i))
        BY <1>1, RtoSilent, ComputeRto DEF Steady, Shift
  <2>2. Silent(tcpComputeRto(i), r) /\ IsSock(r)
        BY <2>1, QueueSilent, UpdateRetransmitQueue DEF Steady, Shift
  <2> HIDE DEF r
  <2> QED BY <2>1, <2>2, SilentThen
<1> HIDE DEF r
<1>3. /\ IsSock(q) /\ q.sndNxt = s.sndNxt /\ q.iss = s.iss
      /\ q.wndProbeInterval = s.wndProbeInterval
      /\ ~Has(seg, "ACK") => q.sndUna = s.sndUna
  <2>1. MinOf(3 * Smss, TxBufferSize) \in Int
        BY SizeAssumption DEF MinOf
  <2>2. IsSock(q)
        BY <1>2, <2>1 DEF IsSock, SockField, Numeric
  <2>3. /\ q.sndNxt = r.sndNxt /\ q.iss = r.iss /\ q.sndUna = r.sndUna
        /\ q.wndProbeInterval = r.wndProbeInterval
        BY <1>2 DEF IsSock, SockField
  <2> HIDE DEF q
  <2> QED BY <1>1, <1>2, <2>2, <2>3 DEF Silent, Quiet
<1> HIDE DEF q
<1>4. ASSUME TCP_CMP_SEQ(q.sndUna, q.iss) > 0
      PROVE  Careful(s, g)
  <2>1. Has(seg, "ACK")
    <3>1. ASSUME ~Has(seg, "ACK") PROVE FALSE
      <4>1. q.sndUna = q.iss /\ q.iss \in Int
            BY <1>3, <3>1 DEF Good, IsSock, Numeric
      <4>2. TCP_CMP_SEQ(q.iss, q.iss) = 0
            BY <4>1, CmpSelf
      <4> QED BY <1>4, <4>1, <4>2
    <3> QED BY <3>1
  <2>2. /\ IsSock(w) /\ w.sndNxt = s.sndNxt /\ w.sndWnd = seg.window
        /\ w.wndProbeInterval = s.wndProbeInterval
        BY <1>3 DEF IsSock, SockField, Numeric, Offer, IsSeg
  <2> HIDE DEF w
  <2>3. Silent(w, SendAck(w)) /\ IsSock(SendAck(w))
        BY <2>2, AckSilent, Acknowledge DEF Steady, Shift
  <2>4. Silent(SendAck(w), g) /\ g.state = "ESTABLISHED"
        BY <2>3, ChangeSilent, ChangeState DEF Shift
  <2> HIDE DEF g
  <2>5. Silent(w, g)
        BY <2>3, <2>4, SilentThen
  <2>6. Good(g)
        BY <2>1, <2>2, <2>4, <2>5
        DEF Good, Plain, Probing, Silent, Quiet, Offer, DataStates
  <2> QED BY <2>2, <2>5, <2>6 DEF Careful, Moves, Silent, Quiet
<1>5. Careful(s, h)
  <2>1. Quiet(q, y) /\ IsSock(y)
        BY <1>3, SendSilent, SendSegment DEF Steady, Shift
  <2> HIDE DEF y
  <2>2. Silent(y, h) /\ h.state = "SYN_RECEIVED"
        BY <2>1, ChangeSilent, ChangeState DEF Shift
  <2> HIDE DEF h
  <2>3. Plain(h)
        BY <1>3, <2>1, <2>2 DEF Good, Plain, Silent, Quiet
  <2> QED BY <2>2, <2>3, PlainCareful DEF DataStates
<1>6. Careful(s, s) /\ Careful(s, tcpChangeState(s, "CLOSED"))
      BY CarefulSelf, EndCareful
<1>7. Careful(s, e)
  <2>1. Silent(s, e) /\ Steady(s, e)
        BY SendSilent, SendSegment
  <2> HIDE DEF e
  <2> QED BY <1>6, <2>1, SilentCareful DEF Steady, Shift
<1> HIDE DEF e, g, h, w, y
<1>8. tcpStateSynSent(s, seg) \in
        {s, e, tcpChangeState(s, "CLOSED"),
         IF TCP_CMP_SEQ(q.sndUna, q.iss) > 0 THEN g ELSE h}
  <2>1. CASE badAck
        BY <2>1 DEF tcpStateSynSent, e
  <2>2. CASE ~badAck /\ Has(seg, "RST")
        BY <2>2 DEF tcpStateSynSent
  <2>3. CASE ~badAck /\ ~Has(seg, "RST") /\ Has(seg, "SYN")
        BY <2>3 DEF tcpStateSynSent, g, h, y, w, q, r, i
  <2>4. CASE ~badAck /\ ~Has(seg, "RST") /\ ~Has(seg, "SYN")
        BY <2>4 DEF tcpStateSynSent
  <2> QED BY <2>1, <2>2, <2>3, <2>4
<1> QED BY <1>4, <1>5, <1>6, <1>7, <1>8

\* What is careful from one socket is careful from any with its SND.NXT.
LEMMA CarefulFrom ==
    ASSUME NEW r, NEW s, NEW t, Careful(s, t), s.sndNxt = r.sndNxt
    PROVE  Careful(r, t)
BY DEF Careful, Moves

\* SYN-RECEIVED: the window of the ACK is taken over, then the segment is
\* handled as in ESTABLISHED.
LEMMA SynReceivedCareful ==
    ASSUME NEW s, IsSock(s), Good(s), NEW seg, Offer(s, seg),
           s.state = "SYN_RECEIVED"
    PROVE  Careful(s, tcpStateSynReceived(s, seg))
<1> DEFINE w == [s EXCEPT !.sndWnd = seg.window, !.sndWl1 = seg.seqNum,
                          !.sndWl2 = seg.ackNum, !.maxSndWnd = seg.window]
           e == tcpChangeState(w, "ESTABLISHED")
           a == tcpSendSegment(s, {"RST"}, seg.ackNum, 0, 0, FALSE)
           t == tcpStateEstablished(e, seg)
<1>1. /\ IsSock(w) /\ w.sndNxt = s.sndNxt /\ w.sndWnd = seg.window
      /\ w.wndProbeInterval = s.wndProbeInterval
      BY DEF IsSock, SockField, Numeric, Offer, IsSeg
<1> HIDE DEF w
<1>2. Silent(w, e) /\ IsSock(e) /\ e.state = "ESTABLISHED"
      BY <1>1, ChangeSilent, ChangeState DEF Shift
<1> HIDE DEF e
<1>3. ASSUME Has(seg, "ACK") PROVE Careful(s, t)
  <2>1. Good(e)
        BY <1>1, <1>2, <1>3 DEF Good, Plain, Probing, Silent, Quiet, Offer, DataStates
  <2>2. Offer(e, seg)
        BY <1>2 DEF Offer
  <2>3. Careful(e, t)
        BY <1>2, <2>1, <2>2, EstablishedCareful
  <2> HIDE DEF t
  <2> QED BY <1>1, <1>2, <2>3, CarefulFrom DEF Silent, Quiet
<1>4. Careful(s, s)
      BY CarefulSelf
<1>5. Careful(s, a)
  <2>1. Silent(s, a) /\ Steady(s, a)
        BY SendSilent, SendSegment
  <2> HIDE DEF a
  <2> QED BY <1>4, <2>1, SilentCareful DEF Steady, Shift
<1>6. tcpStateSynReceived(s, seg) =
        IF ~Passes(s, seg) THEN Screened(s, seg)
        ELSE IF ~Has(seg, "ACK") THEN s
        ELSE IF seg.ackNum # s.sndNxt THEN a ELSE t
      BY DEF tcpStateSynReceived, t, e, w
<1>7. ~Passes(s, seg) => Careful(s, Screened(s, seg))
      BY ScreenedCareful DEF Offer
<1> HIDE DEF a, t
<1> QED BY <1>3, <1>4, <1>5, <1>6, <1>7

\* CLOSE-WAIT and LAST-ACK
LEMMA LateCareful ==
    ASSUME NEW s, IsSock(s), Good(s), NEW seg, Offer(s, seg)
    PROVE  /\ s.state = "CLOSE_WAIT" => Careful(s, tcpStateCloseWait(s, seg))
           /\ s.state = "LAST_ACK" => Careful(s, tcpStateLastAck(s, seg))
<1> DEFINE a == tcpCheckAck(s, seg)
<1>1. ~Passes(s, seg) => Careful(s, Screened(s, seg))
      BY ScreenedCareful DEF Offer
<1>2. Careful(s, s) /\ Careful(s, tcpChangeState(s, "CLOSED"))
      BY CarefulSelf, EndCareful
<1>3. s.state = "LAST_ACK" => Careful(s, tcpStateLastAck(s, seg))
      BY <1>1, <1>2 DEF tcpStateLastAck
<1>4. ASSUME s.state = "CLOSE_WAIT" PROVE Careful(s, tcpStateCloseWait(s, seg))
  <2>1. Careful(s, a) /\ IsSock(a) /\ a.state = s.state
        BY <1>4, HeardCareful
  <2> HIDE DEF a
  <2>2. Careful(s, Transmit(a))
        BY <1>4, <2>1, TransmitCareful
  <2> QED BY <1>1, <2>1, <2>2 DEF tcpStateCloseWait, a
<1> QED BY <1>3, <1>4

\* FIN-WAIT-1
LEMMA FinWait1Careful ==
    ASSUME NEW s, IsSock(s), Good(s), NEW seg, Offer(s, seg),
           s.state = "FIN_WAIT_1"
    PROVE  Careful(s, tcpStateFinWait1(s, seg))
<1> DEFINE a == tcpCheckAck(s, seg)
           b == [a EXCEPT !.finWait2Timer = TRUE]
           w == FinAcked(a, seg)
           d == SegmentText(w, seg)
           f == AcceptFin(d)
           c == tcpChangeState(f, "CLOSING")
<1>1. Careful(s, a) /\ IsSock(a) /\ a.state = s.state
      BY HeardCareful
<1> HIDE DEF a
<1>2. Careful(s, w) /\ IsSock(w) /\ w.state \in {"FIN_WAIT_1", "FIN_WAIT_2"}
  <2>1. Silent(a, b) /\ IsSock(b)
        BY <1>1 DEF IsSock, SockField, Numeric, Silent, Quiet
  <2> HIDE DEF b
  <2> DEFINE z == tcpChangeState(b, "FIN_WAIT_2")
  <2>2. Silent(b, z) /\ IsSock(z) /\ z.state = "FIN_WAIT_2"
        BY <2>1, ChangeSilent, ChangeState DEF Shift
  <2>3. w \in {a, z}
        BY DEF FinAcked, b
  <2> HIDE DEF z, w
  <2>4. Careful(s, z)
        BY <1>1, <2>1, <2>2, SilentThen, LeaveCareful DEF Silent, DataStates
  <2> QED BY <1>1, <2>2, <2>3, <2>4
<1> HIDE DEF w
<1>3. Careful(s, d) /\ IsSock(d) /\ d.state \in {"FIN_WAIT_1", "FIN_WAIT_2"}
  <2>1. Silent(w, d) /\ Steady(w, d)
        BY <1>2, TextSilent, Text DEF Offer
  <2> HIDE DEF d
  <2> QED BY <1>2, <2>1, SilentCareful DEF Steady, Shift
<1> HIDE DEF d
<1>4. Careful(s, f) /\ IsSock(f)
  <2>1. Silent(d, f) /\ Steady(d, f)
        BY <1>3, FinSilent, Fin
  <2> HIDE DEF f
  <2> QED BY <1>3, <2>1, SilentCareful DEF Steady, Shift
<1> HIDE DEF f
<1>5. Careful(s, c)
  <2>1. Silent(f, c) /\ c.state = "CLOSING"
        BY <1>4, ChangeSilent, ChangeState DEF Shift
  <2> HIDE DEF c
  <2> QED BY <1>4, <2>1, LeaveCareful DEF Silent, DataStates
<1>6. Careful(s, EnterTimeWait(f))
      BY <1>4, TimeWaitCareful
<1>7. ~Passes(s, seg) => Careful(s, Screened(s, seg))
      BY ScreenedCareful DEF Offer
<1>8. tcpStateFinWait1(s, seg) =
        IF ~Passes(s, seg) THEN Screened(s, seg)
        ELSE IF AckRejected(s, seg) THEN a
        ELSE IF ~FinInOrder(d, seg) THEN d
        ELSE IF seg.ackNum = d.sndNxt THEN EnterTimeWait(f) ELSE c
      BY DEF tcpStateFinWait1, FinWait1Fin, a, d, w, f, c
<1> HIDE DEF c
<1> QED BY <1>1, <1>3, <1>5, <1>6, <1>7, <1>8

\* FIN-WAIT-2 and CLOSING
LEMMA ClosingCareful ==
    ASSUME NEW s, IsSock(s), Good(s), NEW seg, Offer(s, seg)
    PROVE  /\ s.state = "FIN_WAIT_2" => Careful(s, tcpStateFinWait2(s, seg))
           /\ s.state = "CLOSING" => Careful(s, tcpStateClosing(s, seg))
<1> DEFINE a == tcpCheckAck(s, seg)
           d == SegmentText(a, seg)
           f == AcceptFin(d)
<1> SUFFICES ASSUME s.state \in {"FIN_WAIT_2", "CLOSING"}
             PROVE  /\ Careful(s, tcpStateFinWait2(s, seg))
                    /\ Careful(s, tcpStateClosing(s, seg))
    OBVIOUS
<1>1. Careful(s, a) /\ IsSock(a)
      BY HeardCareful
<1> HIDE DEF a
<1>2. Careful(s, d) /\ IsSock(d)
  <2>1. Silent(a, d) /\ Steady(a, d)
        BY <1>1, TextSilent, Text DEF Offer
  <2> HIDE DEF d
  <2> QED BY <1>1, <2>1, SilentCareful DEF Steady, Shift
<1> HIDE DEF d
<1>3. Careful(s, f) /\ IsSock(f)
  <2>1. Silent(d, f) /\ Steady(d, f)
        BY <1>2, FinSilent, Fin
  <2> HIDE DEF f
  <2> QED BY <1>2, <2>1, SilentCareful DEF Steady, Shift
<1> HIDE DEF f
<1>4. Careful(s, EnterTimeWait(f)) /\ Careful(s, EnterTimeWait(a))
      BY <1>1, <1>3, TimeWaitCareful
<1>5. ~Passes(s, seg) => Careful(s, Screened(s, seg))
      BY ScreenedCareful DEF Offer
<1>6. Careful(s, tcpStateFinWait2(s, seg))
      BY <1>1, <1>2, <1>4, <1>5 DEF tcpStateFinWait2, FinWait2Fin, a, d, f
<1>7. Careful(s, tcpStateClosing(s, seg))
      BY <1>1, <1>4, <1>5 DEF tcpStateClosing, ClosingAck, a
<1> QED BY <1>6, <1>7

\* TIME-WAIT
LEMMA TimeWaitSegmentCareful ==
    ASSUME NEW s, IsSock(s), Good(s), NEW seg, Offer(s, seg),
           s.state = "TIME_WAIT"
    PROVE  Careful(s, tcpStateTimeWait(s, seg))
<1> DEFINE c == Screened(s, seg)
           k == SendAck(s)
           t == [k EXCEPT !.timeWaitTimer = TRUE]
<1>1. Careful(s, s)
      BY CarefulSelf
<1>2. ~Passes(s, seg) => Careful(s, c)
      BY ScreenedCareful DEF Offer
<1>3. Resets(s, seg) => c = tcpChangeState(s, "CLOSED") /\ ~Passes(s, seg)
      BY DEF Screened, Resets, Unacceptable, Misplaced, Passes
<1>4. Careful(s, Dispose(tcpChangeState(s, "CLOSED")))
      BY <1>1, EndCareful
<1>5. Careful(s, t)
  <2>1. Silent(s, k) /\ Steady(s, k)
        BY AckSilent, Acknowledge
  <2> HIDE DEF k
  <2>2. Silent(k, t) /\ t.state = s.state
        BY <2>1 DEF Good, Waiting, Silent, Quiet, Steady, Shift, IsSock, SockField
  <2> HIDE DEF t
  <2> QED BY <1>1, <2>1, <2>2, SilentThen, SilentCareful
<1> HIDE DEF c, t
<1> QED BY <1>1, <1>2, <1>3, <1>4, <1>5 DEF tcpStateTimeWait, c, t

\* Every handler is careful.
LEMMA SegmentCareful ==
    ASSUME NEW s, IsSock(s), Good(s), NEW seg, Offer(s, seg),
           s.state \in TcpState \ {"LISTEN"}
    PROVE  Careful(s, tcpProcessSegment(s, seg))
<1>1. CASE s.state = "CLOSED"
  <2>1. Silent(s, tcpSendResetSegment(s, seg)) /\ Steady(s, tcpSendResetSegment(s, seg))
        BY ResetSilent, SendReset DEF Offer
  <2>2. Careful(s, s) /\ Careful(s, tcpSendResetSegment(s, seg))
        BY <2>1, CarefulSelf, SilentCareful DEF Steady, Shift
  <2> QED BY <1>1, <2>2 DEF tcpProcessSegment, tcpStateClosed
<1>2. CASE s.state = "SYN_SENT"
      BY <1>2, SynSentCareful DEF tcpProcessSegment
<1>3. CASE s.state = "SYN_RECEIVED"
      BY <1>3, SynReceivedCareful DEF tcpProcessSegment
<1>4. CASE s.state = "ESTABLISHED"
      BY <1>4, EstablishedCareful DEF tcpProcessSegment
<1>5. CASE s.state = "CLOSE_WAIT"
      BY <1>5, LateCareful DEF tcpProcessSegment
<1>6. CASE s.state = "LAST_ACK"
      BY <1>6, LateCareful DEF tcpProcessSegment
<1>7. CASE s.state = "FIN_WAIT_1"
      BY <1>7, FinWait1Careful DEF tcpProcessSegment
<1>8. CASE s.state = "FIN_WAIT_2"
      BY <1>8, ClosingCareful DEF tcpProcessSegment
<1>9. CASE s.state = "CLOSING"
      BY <1>9, ClosingCareful DEF tcpProcessSegment
<1>10. CASE s.state = "TIME_WAIT"
      BY <1>10, TimeWaitSegmentCareful DEF tcpProcessSegment
<1> QED BY <1>1, <1>2, <1>3, <1>4, <1>5, <1>6, <1>7, <1>8, <1>9, <1>10
        DEF TcpState
----------------------------------------------------------------------------
(* The timer handler *)

\* A retransmission timeout narrows the congestion window and moves nothing.
LEMMA TimeoutCalm ==
    ASSUME NEW s, IsSock(s)
    PROVE  LET t == RetransmitTimeout(s)
           IN  Calm(s, t) /\ t.sndUna = s.sndUna
<1> DEFINE l == LossRecovery(s)
           a == tcpRetransmitSegment(l)
           c == tcpChangeState(l, "CLOSED")
           again == [a EXCEPT !.retransmitCount = @ + 1]
           over  == [c EXCEPT !.retransmitTimer = FALSE]
           Same(t) == Calm(s, t) /\ t.sndUna = s.sndUna
<1>1. Same(l) /\ IsSock(l)
  <2>1. Same(l)
        BY DEF IsSock, SockField, Calm, LossRecovery
  <2>2. FlightSsthresh(s) \in Int
        BY Threshold
  <2>3. MinOf(Smss, TxBufferSize) \in Int
        BY SizeAssumption DEF MinOf
  <2>4. IsSock(l)
        BY <2>2, <2>3 DEF IsSock, SockField, Numeric, LossRecovery
  <2> QED BY <2>1, <2>4
<1> HIDE DEF l
<1>2. Silent(l, a) /\ IsSock(a) /\ Silent(l, c) /\ IsSock(c)
      BY <1>1, RetransmitSilent, RetransmitSegment, ChangeSilent, ChangeState
      DEF Steady, Shift, Ends
<1> HIDE DEF a, c
<1>3. Same(a) /\ Same(c)
      BY <1>1, <1>2 DEF Silent, Quiet, Calm
<1>4. /\ Same([again EXCEPT !.rttBusy = FALSE])
      /\ Same([over EXCEPT !.rttBusy = FALSE])
      BY <1>2, <1>3 DEF IsSock, SockField, Calm
<1> HIDE DEF again, over
<1>5. RetransmitTimeout(s) \in
        {[again EXCEPT !.rttBusy = FALSE], [over EXCEPT !.rttBusy = FALSE]}
      BY DEF RetransmitTimeout, again, over, l, a, c
<1> QED BY <1>4, <1>5

\* In TIME-WAIT there is nothing to retransmit.
LEMMA RetransmitCareful ==
    ASSUME NEW s, IsSock(s), Good(s), NEW elapsed
    PROVE  LET t == TickRetransmit(s, elapsed)
           IN  Careful(s, t) /\ IsSock(t)
<1> DEFINE t == RetransmitTimeout(s)
<1>1. Calm(s, t) /\ t.sndUna = s.sndUna
      BY TimeoutCalm
<1>2. IsSock(t) /\ t.state \in {s.state, "CLOSED"}
      BY RetransmissionTimeout DEF Steady, Shift, Ends
<1>3. Careful(s, s)
      BY CarefulSelf
<1> HIDE DEF t
<1>4. ASSUME s.retransmitQueue # <<>> PROVE Careful(s, t)
  <2>1. s.state # "TIME_WAIT"
        BY <1>4 DEF Good, Waiting
  <2>2. Good(t)
        BY <1>1, <1>2, <2>1 DEF Good, Plain, Probing, Calm, DataStates
  <2> QED BY <1>1, <2>2 DEF Careful, Moves, Calm
<1> QED BY <1>2, <1>3, <1>4 DEF TickRetransmit, t

\* A persist timeout probes the window or gives up.
LEMMA PersistCareful ==
    ASSUME NEW r, NEW s, IsSock(s), Careful(r, s), NEW elapsed
    PROVE  LET t == TickPersist(s, elapsed)
           IN  Careful(r, t) /\ IsSock(t)
<1> DEFINE p == tcpSendSegment(s, {"ACK"}, SeqSub(s.sndNxt, 1), s.rcvNxt, 0, FALSE)
           q == [p EXCEPT !.wndProbeCount = @ + 1]
           c == tcpChangeState(s, "CLOSED")
<1>1. Silent(s, p) /\ IsSock(p) /\ p.state = s.state
  <2>1. Silent(s, p) /\ Steady(s, p)
        BY SendSilent, SendSegment
  <2> HIDE DEF p
  <2> QED BY <2>1 DEF Steady, Shift
<1> HIDE DEF p
<1>2. Silent(s, q) /\ IsSock(q) /\ q.state = s.state
      BY <1>1 DEF IsSock, SockField, Numeric, Silent, Quiet
<1> HIDE DEF q
<1>3. Careful(r, q)
      BY <1>2, SilentCareful
<1>4. Careful(r, c) /\ IsSock(c)
      BY EndCareful, ChangeState DEF Ends
<1> HIDE DEF c
<1> QED BY <1>2, <1>3, <1>4 DEF TickPersist, PersistTimeout, q, p, c

\* The override timer sends within the window.
LEMMA OverrideCareful ==
    ASSUME NEW r, NEW s, IsSock(s), Careful(r, s), NEW elapsed
    PROVE  LET t == TickOverride(s, elapsed)
           IN  Careful(r, t) /\ IsSock(t)
<1> DEFINE t == OverrideTimeout(s)
<1>1. Sends(s, t) /\ IsSock(t) /\ t.state = s.state
      BY OverrideSends, OverridingTimeout DEF Steady, Shift
<1> HIDE DEF t
<1>2. s.state # "TIME_WAIT" => Careful(r, t)
      BY <1>1, SendsCareful
<1> QED BY <1>1, <1>2 DEF TickOverride, t

\* The other two timers end the connection.
LEMMA LastTimersCareful ==
    ASSUME NEW r, NEW s, IsSock(s), Careful(r, s), NEW elapsed
    PROVE  /\ Careful(r, TickFinWait2(s, elapsed)) /\ IsSock(TickFinWait2(s, elapsed))
           /\ Careful(r, TickTimeWait(s, elapsed))
<1>1. IsSock(tcpChangeState(s, "CLOSED"))
      BY ChangeState DEF Ends
<1>2. /\ Careful(r, tcpChangeState(s, "CLOSED"))
      /\ Careful(r, Dispose(tcpChangeState(s, "CLOSED")))
      BY EndCareful
<1> QED BY <1>1, <1>2 DEF TickFinWait2, TickTimeWait, TimeWaitTimeout

\* The whole timer handler is careful.
LEMMA TickCareful ==
    ASSUME NEW s, IsSock(s), Good(s), NEW elapsed
    PROVE  Careful(s, tcpTick(s, elapsed))
<1> DEFINE a == TickRetransmit(s, elapsed)
           p == TickPersist(a, elapsed)
           o == TickOverride(p, elapsed)
           f == TickFinWait2(o, elapsed)
           t == TickTimeWait(f, elapsed)
<1>1. Careful(s, a) /\ IsSock(a)
      BY RetransmitCareful
<1>2. tcpTick(s, elapsed) =
        IF s.state = "CLOSED" THEN s ELSE IF a.state = "CLOSED" THEN a ELSE t
      BY DEF tcpTick, TickOthers
<1> HIDE DEF a
<1>3. Careful(s, p) /\ IsSock(p)
      BY <1>1, PersistCareful
<1> HIDE DEF p
<1>4. Careful(s, o) /\ IsSock(o)
      BY <1>3, OverrideCareful
<1> HIDE DEF o
<1>5. Careful(s, f) /\ IsSock(f)
      BY <1>4, LastTimersCareful
<1> HIDE DEF f
<1>6. Careful(s, t)
      BY <1>5, LastTimersCareful
<1> HIDE DEF t
<1>7. Careful(s, s)
      BY CarefulSelf
<1> QED BY <1>1, <1>2, <1>6, <1>7

----------------------------------------------------------------------------
(* The socket operations *)

\* Waiting and returning are careful.
LEMMA WaitCareful ==
    ASSUME NEW r, NEW s, IsSock(s), Careful(r, s), NEW mask
    PROVE  LET u == tcpWaitForEvents(s, mask)
           IN  Careful(r, u) /\ IsSock(u) /\ u.state = s.state
<1> DEFINE u == tcpWaitForEvents(s, mask)
<1>1. Silent(s, u) /\ IsSock(u) /\ u.state = s.state
      BY WaitSilent, WaitForEvents DEF Steady, Shift
<1> HIDE DEF u
<1> QED BY <1>1, SilentCareful DEF u

\* Blocking is careful.
LEMMA BlockCareful ==
    ASSUME NEW r, NEW s, IsSock(s), Careful(r, s), NEW t, NEW event, NEW pc
    PROVE  Careful(r, Block(s, t, event, pc).sock)
<1>1. Block(s, t, event, pc).sock = tcpWaitForEvents(s, {event})
      BY DEF Block, Blocks, Outcome
<1> QED BY <1>1, WaitCareful

\* Tcp_Shutdown, receive half
LEMMA ShutdownReceiveCareful ==
    ASSUME NEW r, NEW s, IsSock(s), Careful(r, s), NEW t
    PROVE  Careful(r, ShutdownReceive(s, t).sock)
<1>1. Careful(r, Block(s, t, "RX_SHUTDOWN", "rxShutdown").sock)
      BY BlockCareful
<1>2. \A e : Return(s, e).sock = s
      BY DEF Return, Outcome
<1>3. ShutdownReceive(s, t) \in
        {Return(s, "NO_ERROR"), Return(s, "NOT_CONNECTED"),
         Block(s, t, "RX_SHUTDOWN", "rxShutdown")}
      BY DEF ShutdownReceive
<1> QED BY <1>1, <1>2, <1>3

\* The FIN is the last number sent, outside the states that send data.
LEMMA ShutdownSendCareful ==
    ASSUME NEW r, NEW s, IsSock(s), Careful(r, s), NEW t
    PROVE  Careful(r, ShutdownSend(s, t).sock)
<1> DEFINE f == tcpSendSegment(s, {"FIN", "ACK"}, s.sndNxt, s.rcvNxt, 0, TRUE)
           n == [f EXCEPT !.sndNxt = SeqAdd(@, 1)]
           new == IF s.state = "ESTABLISHED" THEN "FIN_WAIT_1" ELSE "LAST_ACK"
           g == tcpChangeState(n, new)
<1>1. Quiet(s, f) /\ IsSock(f) /\ f.state = s.state
  <2>1. Quiet(s, f) /\ Steady(s, f)
        BY SendSilent, SendSegment
  <2> HIDE DEF f
  <2> QED BY <2>1 DEF Steady, Shift
<1> HIDE DEF f
<1>2. s.state \in DataStates => Careful(r, f)
      BY <1>1, DataCareful
<1>3. Plain(n) /\ IsSock(n)
  <2>1. f.sndNxt \in SeqNum /\ 1 \in Int
        BY <1>1 DEF Careful, Good, Plain, Quiet
  <2>2. SeqAdd(f.sndNxt, 1) \in SeqNum
        BY <2>1, SeqAddRange
  <2>3. n.sndNxt = SeqAdd(f.sndNxt, 1) /\ n.wndProbeInterval = f.wndProbeInterval
        BY <1>1 DEF IsSock, SockField
  <2>4. n.sndNxt \in Int
        BY <2>2, <2>3, SizeAssumption DEF SeqNum
  <2>5. /\ DOMAIN n = SockField /\ n.resetFlag = f.resetFlag
        /\ n.closedFlag = f.closedFlag /\ n.sndUser = f.sndUser
        /\ n.txRoom = f.txRoom /\ n.sndUna = f.sndUna /\ n.sndWnd = f.sndWnd
        /\ n.cwnd = f.cwnd /\ n.ssthresh = f.ssthresh /\ n.n = f.n
        BY <1>1 DEF IsSock, SockField
  <2> HIDE DEF n
  <2> QED BY <1>1, <2>2, <2>3, <2>4, <2>5
          DEF Careful, Good, Plain, Quiet, IsSock, Numeric
<1> HIDE DEF n
<1>4. Silent(n, g) /\ IsSock(g) /\ g.state \in {"FIN_WAIT_1", "LAST_ACK"}
      BY <1>3, ChangeSilent, ChangeState DEF Shift
<1> HIDE DEF g
<1>5. Careful(r, g)
      BY <1>3, <1>4, PlainCareful DEF Plain, Silent, Quiet, DataStates
<1>6. Careful(r, Block(g, t, "TX_SHUTDOWN", "txShutdown").sock)
      BY <1>4, <1>5, BlockCareful
<1>7. Careful(r, Block(s, t, "TX_SHUTDOWN", "txShutdown").sock)
      BY BlockCareful
<1>8. \A e, u : Return(u, e).sock = u
      BY DEF Return, Outcome
<1>9. Careful(r, ShutdownReceive(s, t).sock)
      BY ShutdownReceiveCareful
<1>10. ShutdownSend(s, t) \in
        {Return(s, "NOT_CONNECTED"), Block(s, t, "TX_SHUTDOWN", "txShutdown"),
         ShutdownReceive(s, t)}
        \cup (IF s.state \in DataStates
              THEN {Return(f, "FAILURE"), Block(g, t, "TX_SHUTDOWN", "txShutdown")}
              ELSE {})
      BY DEF ShutdownSend, DataStates, g, n, f
<1> QED BY <1>2, <1>6, <1>7, <1>8, <1>9, <1>10

\* Tcp_Send once everything is written
LEMMA SendDoneCareful ==
    ASSUME NEW r, NEW s, IsSock(s), Careful(r, s), NEW t
    PROVE  Careful(r, SendDone(s, t).sock)
<1> DEFINE d == tcpWaitForEvents(s, {"TX_DONE"})
           a == tcpWaitForEvents(s, {"TX_ACKED"})
<1>1. Careful(r, d) /\ IsSock(d) /\ Careful(r, a)
      BY WaitCareful
<1> HIDE DEF d, a
<1>2. Careful(r, ShutdownSend(d, t).sock)
      BY <1>1, ShutdownSendCareful
<1>3. /\ \A e, u : Return(u, e).sock = u
      /\ \A u, pc : Blocks(u, t, pc).sock = u
      BY DEF Return, Blocks, Outcome
<1>4. SendDone(s, t) \in
        {Blocks(d, t, "txDone"), ShutdownSend(d, t), Blocks(a, t, "txAcked"),
         Return(a, "NO_ERROR"), Return(s, "NO_ERROR")}
      BY DEF SendDone, d, a
<1> QED BY <1>1, <1>2, <1>3, <1>4

\* The loop body of Tcp_Send
LEMMA SendDataCareful ==
    ASSUME NEW r, NEW s, IsSock(s), Careful(r, s), NEW t, IsTask(t),
           s.state \in DataStates
    PROVE  Careful(r, SendData(s, t).sock)
<1> DEFINE room == TxBufferSize - Buffered(s)
           n == IF Len(t.data) \in 0 .. room THEN Len(t.data) ELSE room
           x == tcpWriteTxBuffer(s, SeqAdd(s.sndNxt, s.sndUser),
                                 SubSeq(t.data, 1, n))
           w == [x EXCEPT !.sndUser = U16(@ + n)]
           u == [tcpUpdateEvents(w) EXCEPT !.overrideTimer = @ \/ s.sndUser = 0]
           v == IF n > 0 THEN u ELSE s
           g == tcpNagleAlgo(v, NagleFlags(t))
           k == [t EXCEPT !.data = SubSeq(@, n + 1, Len(@))]
<1>1. U16(s.sndUser + n) \in Nat
  <2>1. s.sndUser \in Int /\ s.sndNxt \in Int /\ s.sndUna \in Int
        BY DEF IsSock, Numeric
  <2>2. SeqSub(s.sndNxt, s.sndUna) \in Int
        BY <2>1, SeqIntegral
  <2>3. Buffered(s) \in Int
    <3> DEFINE d == SeqSub(s.sndNxt, s.sndUna)
    <3> HIDE DEF d
    <3>1. SeqAdd(s.sndUser, d) \in Int
          BY <2>1, <2>2, SeqIntegral DEF d
    <3> QED BY <3>1 DEF Buffered, d
  <2>4. room \in Int
        BY <2>3, SizeAssumption
  <2> HIDE DEF room
  <2>5. s.sndUser + n \in Int
        BY <2>1, <2>4
  <2> HIDE DEF n
  <2> QED BY <2>5, U16Integral
<1> HIDE DEF n
<1>2. Silent(s, w) /\ IsSock(w) /\ w.state = s.state
      BY <1>1 DEF IsSock, SockField, Numeric, Silent, Quiet, tcpWriteTxBuffer
<1> HIDE DEF w
<1>3. Silent(s, u) /\ IsSock(u) /\ u.state = s.state
  <2> DEFINE e == tcpUpdateEvents(w)
  <2>1. Silent(w, e) /\ Steady(w, e)
        BY <1>2, EventsSilent, UpdateEvents
  <2> HIDE DEF e
  <2>2. Silent(s, e) /\ IsSock(e) /\ e.state = s.state
        BY <1>2, <2>1, SilentThen DEF Steady, Shift
  <2>3. u = [e EXCEPT !.overrideTimer = @ \/ s.sndUser = 0]
        BY DEF e
  <2> HIDE DEF u
  <2> QED BY <2>2, <2>3 DEF IsSock, SockField, Numeric, Silent, Quiet
<1> HIDE DEF u
<1>4. Careful(r, v) /\ IsSock(v) /\ v.state = s.state
      BY <1>3, SilentCareful
<1> HIDE DEF v
<1>5. Sends(v, g) /\ IsSock(g) /\ g.state = v.state
      BY <1>4, NagleSends, NagleAlgo DEF Steady, Shift
<1> HIDE DEF g
<1>6. Careful(r, g)
      BY <1>4, <1>5, SendsCareful DEF DataStates
<1>7. /\ Careful(r, SendDone(g, k).sock)
      /\ Careful(r, Block(g, k, "TX_READY", t.pc).sock)
      BY <1>5, <1>6, SendDoneCareful, BlockCareful
<1>8. SendData(s, t) = IF k.data = <<>> THEN SendDone(g, k)
                       ELSE Block(g, k, "TX_READY", t.pc)
      BY DEF SendData, g, v, u, w, x, n
<1> HIDE DEF k
<1> QED BY <1>7, <1>8

\* Tcp_Send after its wait
LEMMA SendReadyCareful ==
    ASSUME NEW r, NEW s, IsSock(s), Careful(r, s), NEW t, IsTask(t)
    PROVE  Careful(r, SendReady(s, t).sock)
<1>1. \A e : Return(s, e).sock = s
      BY DEF Return, Outcome
<1>2. s.state \in DataStates => Careful(r, SendData(s, t).sock)
      BY SendDataCareful
<1>3. \/ \E e : SendReady(s, t) = Return(s, e)
      \/ s.state \in DataStates /\ SendReady(s, t) = SendData(s, t)
      BY DEF SendReady, DataStates
<1> QED BY <1>1, <1>2, <1>3

\* The wait of Tcp_Send
LEMMA SendWaitCareful ==
    ASSUME NEW r, NEW s, IsSock(s), Careful(r, s), NEW t, IsTask(t)
    PROVE  Careful(r, SendWait(s, t).sock)
<1> DEFINE u == tcpWaitForEvents(s, {"TX_READY"})
<1>1. Careful(r, u) /\ IsSock(u)
      BY WaitCareful
<1> HIDE DEF u
<1>2. Careful(r, SendReady(u, t).sock)
      BY <1>1, SendReadyCareful
<1>3. Blocks(u, t, t.pc).sock = u
      BY DEF Blocks, Outcome
<1> QED BY <1>1, <1>2, <1>3 DEF SendWait, u

\* The loop body of Tcp_Receive
LEMMA ReceiveDataCareful ==
    ASSUME NEW r, NEW s, IsSock(s), Careful(r, s), NEW t
    PROVE  Careful(r, ReceiveData(s, t).sock)
<1> DEFINE n   == MinOf(s.rcvUser, t.left)
           seq == SeqSub(s.rcvNxt, s.rcvUser + IF FinReceived(s) THEN 1 ELSE 0)
           got == tcpReadRxBuffer(s, seq, n)
           c   == [s EXCEPT !.rcvUser = @ - n]
           d   == tcpUpdateReceiveWindow(c)
           u   == tcpUpdateEvents(d)
           k   == [t EXCEPT !.data = @ \o got, !.left = @ - n]
           w   == tcpWaitForEvents(u, {"RX_READY"})
           o   == CASE k.left = 0 \/ "WAIT_ALL" \notin t.flags ->
                         Return(u, "NO_ERROR")
                    [] k.left # 0 /\ "WAIT_ALL" \in t.flags /\ w.eventFlags = {} ->
                         Blocks(w, k, t.pc)
                    [] OTHER -> EndOfStream(w, k)
<1>1. Silent(s, c) /\ IsSock(c) /\ c.state = s.state
      BY DEF IsSock, SockField, Numeric, Silent, Quiet
<1> HIDE DEF c
<1>2. Silent(c, d) /\ IsSock(d) /\ d.state = c.state
      BY <1>1, ReceiveWindowSilent, UpdateReceiveWindow DEF Steady, Shift
<1> HIDE DEF d
<1>3. Silent(d, u) /\ IsSock(u) /\ u.state = d.state
      BY <1>2, EventsSilent, UpdateEvents DEF Steady, Shift
<1> HIDE DEF u
<1>4. Silent(s, u) /\ u.state = s.state
      BY <1>1, <1>2, <1>3, SilentThen
<1>5. Careful(r, u)
      BY <1>4, SilentCareful
<1>6. Careful(r, w)
      BY <1>3, <1>5, WaitCareful
<1> HIDE DEF w, got, k
<1>7. o.sock \in {u, w} /\ DOMAIN o = {"sock", "task", "got"}
      BY DEF Return, Blocks, EndOfStream, Outcome
<1> HIDE DEF o
<1>8. [o EXCEPT !.got = got].sock = o.sock
      BY <1>7
<1>9. ReceiveData(s, t) = [o EXCEPT !.got = got]
      BY DEF ReceiveData, o, w, u, d, c, k, got
<1> QED BY <1>5, <1>6, <1>7, <1>8, <1>9

\* Tcp_Receive after its wait
LEMMA ReceiveReadyCareful ==
    ASSUME NEW r, NEW s, IsSock(s), Careful(r, s), NEW t
    PROVE  Careful(r, ReceiveReady(s, t).sock)
<1>1. \A e : Return(s, e).sock = s
      BY DEF Return, Outcome
<1>2. EndOfStream(s, t).sock = s
      BY DEF EndOfStream, Return, Outcome
<1>3. Careful(r, ReceiveData(s, t).sock)
      BY ReceiveDataCareful
<1>4. \/ \E e : ReceiveReady(s, t) = Return(s, e)
      \/ ReceiveReady(s, t) \in {ReceiveData(s, t), EndOfStream(s, t)}
      BY DEF ReceiveReady
<1> QED BY <1>1, <1>2, <1>3, <1>4

\* Every call of the user on an open connection is careful.
LEMMA CallsCareful ==
    ASSUME NEW s, IsSock(s), Good(s)
    PROVE  /\ \A data, flags : Careful(s, Tcp_Send(s, data, flags).sock)
           /\ \A flags : Careful(s, Tcp_Shutdown(s, flags).sock)
           /\ \A length, flags : Careful(s, Tcp_Receive(s, length, flags).sock)
           /\ Careful(s, ConnectWait(s).sock)
<1>1. Careful(s, s)
      BY CarefulSelf
<1>2. ASSUME NEW data, NEW flags PROVE Careful(s, Tcp_Send(s, data, flags).sock)
      BY <1>1, Calls, SendWaitCareful DEF Tcp_Send
<1>3. ASSUME NEW flags PROVE Careful(s, Tcp_Shutdown(s, flags).sock)
  <2> DEFINE t == Call("flush", flags, <<>>, 0)
  <2>1. IsTask(t)
        BY Calls
  <2> HIDE DEF t
  <2>2. /\ Careful(s, ShutdownReceive(s, t).sock) /\ Careful(s, SendWait(s, t).sock)
        /\ Careful(s, ShutdownSend(s, t).sock)
        BY <1>1, <2>1, ShutdownReceiveCareful, SendWaitCareful, ShutdownSendCareful
  <2>3. Tcp_Shutdown(s, flags) \in
          {ShutdownReceive(s, t), SendWait(s, t), ShutdownSend(s, t)}
        BY DEF Tcp_Shutdown, t
  <2> QED BY <2>2, <2>3
<1>4. ASSUME NEW length, NEW flags
      PROVE  Careful(s, Tcp_Receive(s, length, flags).sock)
  <2> DEFINE t == Call("receive", flags, <<>>, length)
             u == tcpWaitForEvents(s, {"RX_READY"})
  <2>1. Careful(s, u) /\ IsSock(u)
        BY <1>1, WaitCareful
  <2> HIDE DEF t, u
  <2>2. Careful(s, ReceiveReady(u, t).sock)
        BY <2>1, ReceiveReadyCareful
  <2>3. Blocks(u, t, t.pc).sock = u
        BY DEF Blocks, Outcome
  <2> QED BY <2>1, <2>2, <2>3 DEF Tcp_Receive, t, u
<1>5. Careful(s, ConnectWait(s).sock)
  <2> DEFINE u == tcpWaitForEvents(s, {"CONNECTED", "CLOSED"})
             t == Call("connect", {}, <<>>, 0)
  <2>1. Careful(s, u)
        BY <1>1, WaitCareful
  <2> HIDE DEF t, u
  <2>2. Blocks(u, t, "connect").sock = u /\ ConnectDone(u).sock = u
        BY DEF Blocks, ConnectDone, Return, Outcome
  <2> QED BY <2>1, <2>2 DEF ConnectWait, t, u
<1> QED BY <1>2, <1>3, <1>4, <1>5

\* So is what follows a wait.
LEMMA ResumeCareful ==
    ASSUME NEW s, IsSock(s), Good(s), NEW t, IsTask(t), t.pc \in Blocked
    PROVE  Careful(s, Resume(s, t).sock)
<1>1. Careful(s, s)
      BY CarefulSelf
<1>2. \A e : Return(s, e).sock = s
      BY DEF Return, Outcome
<1>3. /\ Careful(s, SendReady(s, t).sock) /\ Careful(s, ReceiveReady(s, t).sock)
      /\ Careful(s, ShutdownSend(s, t).sock) /\ Careful(s, ShutdownReceive(s, t).sock)
      BY <1>1, SendReadyCareful, ReceiveReadyCareful, ShutdownSendCareful,
         ShutdownReceiveCareful
<1>4. ConnectDone(s).sock = s
      BY DEF ConnectDone, Return, Outcome
<1>5. \/ \E e : Resume(s, t) = Return(s, e)
      \/ Resume(s, t) \in {ConnectDone(s), SendReady(s, t), ReceiveReady(s, t),
                           ShutdownSend(s, t), ShutdownReceive(s, t)}
      BY DEF Resume, Blocked
<1> QED BY <1>1, <1>2, <1>3, <1>4, <1>5

----------------------------------------------------------------------------
(* Opening and closing *)

\* A new control block has sent one number, the SYN.
LEMMA BlockPlain ==
    ASSUME NEW s, IsSock(s), Plain(s), NEW iss \in SeqNum
    PROVE  LET i == InitControlBlock(s, iss)
           IN  Plain(i) /\ i.sndUna = i.iss /\ IsSock(i) /\ i.state = s.state
<1> DEFINE i == InitControlBlock(s, iss)
<1>1. iss \in Int /\ 1 \in Int
      BY SizeAssumption DEF SeqNum
<1>2. SeqAdd(iss, 1) \in SeqNum
      BY <1>1, SeqAddRange
<1>3. /\ i.sndNxt = SeqAdd(iss, 1) /\ i.sndUna = iss /\ i.iss = iss
      /\ i.wndProbeInterval = s.wndProbeInterval
      BY DEF IsSock, SockField, InitControlBlock
<1>4. IsSock(i) /\ i.state = s.state
      BY <1>1, ControlBlock
<1> HIDE DEF i
<1>5. Plain(i)
      BY <1>2, <1>3 DEF Plain
<1> QED BY <1>3, <1>4, <1>5 DEF i

\* Sending the SYN keeps it so, whether or not it succeeds.
LEMMA OpeningPlain ==
    ASSUME NEW i, IsSock(i), Plain(i), i.sndUna = i.iss,
           NEW flags, NEW seqNum, NEW ackNum, NEW new
    PROVE  LET c == tcpSendSegment(i, flags, seqNum, ackNum, 0, TRUE)
               h == tcpChangeState(c, new)
           IN  /\ Plain(c) /\ IsSock(c) /\ c.state = i.state
               /\ Plain(h) /\ h.sndUna = h.iss
<1> DEFINE c == tcpSendSegment(i, flags, seqNum, ackNum, 0, TRUE)
           h == tcpChangeState(c, new)
<1>1. Quiet(i, c) /\ Steady(i, c)
      BY SendSilent, SendSegment
<1> HIDE DEF c
<1>2. Plain(c) /\ IsSock(c) /\ c.state = i.state /\ c.sndUna = c.iss
      BY <1>1 DEF Plain, Quiet, Steady, Shift
<1>3. Silent(c, h)
      BY <1>2, ChangeSilent
<1> HIDE DEF h
<1>4. Plain(h) /\ h.sndUna = h.iss
      BY <1>2, <1>3 DEF Plain, Silent, Quiet
<1> QED BY <1>2, <1>4 DEF c, h

\* Connecting a closed socket
LEMMA ConnectCareful ==
    ASSUME NEW s, IsSock(s), s.txRoom \in Nat, Good(s), NEW iss \in SeqNum,
           s.state = "CLOSED"
    PROVE  Careful(s, Tcp_Connect(s, iss).sock)
<1> DEFINE b == InitControlBlock(s, iss)
           i == [b EXCEPT !.congestState = "IDLE"]
           c == tcpSendSegment(i, {"SYN"}, iss, 0, 0, TRUE)
           h == tcpChangeState(c, "SYN_SENT")
           m == [s EXCEPT !.ownedFlag = TRUE]
           n == tcpDeleteControlBlock(m)
<1>0. "CLOSED" \notin DataStates \cup {"SYN_SENT", "TIME_WAIT"} /\ "SYN_SENT" \notin DataStates
      BY DEF DataStates
<1>1. Plain(b) /\ b.sndUna = b.iss /\ IsSock(b) /\ b.state = s.state
      BY BlockPlain DEF Good
<1> HIDE DEF b
<1>2. Plain(i) /\ i.sndUna = i.iss /\ IsSock(i) /\ i.state = s.state
      BY <1>1 DEF IsSock, SockField, Numeric, Plain
<1> HIDE DEF i
<1>3. /\ Plain(c) /\ IsSock(c) /\ c.state = i.state
      /\ Plain(h) /\ h.sndUna = h.iss
  <2>1. \A flags, seqNum, ackNum, new :
            LET d == tcpSendSegment(i, flags, seqNum, ackNum, 0, TRUE)
                g == tcpChangeState(d, new)
            IN  /\ Plain(d) /\ IsSock(d) /\ d.state = i.state
                /\ Plain(g) /\ g.sndUna = g.iss
        BY <1>2, OpeningPlain
  <2> QED BY <2>1
<1>4. Shift(c, h, "SYN_SENT")
      BY <1>3, ChangeState
<1> HIDE DEF c, h
<1>5. Good(h) /\ IsSock(h) /\ h.state = "SYN_SENT"
      BY <1>0, <1>3, <1>4 DEF Shift, Good
<1>6. Careful(h, ConnectWait(h).sock) /\ ConnectWait(h).sock.state = "SYN_SENT"
  <2>1. Careful(h, ConnectWait(h).sock)
        BY <1>5, CallsCareful
  <2>2. Steady(h, ConnectWait(h).sock)
        BY <1>5, ConnectWaiting
  <2> QED BY <1>5, <2>1, <2>2 DEF Steady, Shift
<1>7. Careful(s, ConnectWait(h).sock)
      BY <1>0, <1>6 DEF Careful, Moves
<1>8. Careful(s, c)
      BY <1>0, <1>2, <1>3, PlainCareful
<1>9. Careful(s, n)
  <2>1. IsSock(m) /\ Silent(s, m) /\ m.state = s.state
        BY DEF IsSock, SockField, Numeric, Silent, Quiet
  <2> HIDE DEF m
  <2>2. Silent(m, n) /\ n.state = m.state
        BY <2>1, DeleteSilent, DeleteControlBlock DEF Steady, Shift
  <2> HIDE DEF n
  <2>3. Careful(s, m)
        BY <2>1, CarefulSelf, SilentCareful
  <2> QED BY <2>2, <2>3, SilentCareful
<1> HIDE DEF n
<1>10. Tcp_Connect(s, iss) \in
        {Return(n, "FAILURE"), Return(c, "FAILURE"), ConnectWait(h)}
      BY DEF Tcp_Connect, n, m, h, c, i, b
<1>11. Return(n, "FAILURE").sock = n /\ Return(c, "FAILURE").sock = c
      BY DEF Return, Outcome
<1> QED BY <1>7, <1>8, <1>9, <1>10, <1>11

\* Tcp_Abort
LEMMA AbortCareful ==
    ASSUME NEW r, NEW s, IsSock(s), Careful(r, s)
    PROVE  Careful(r, Tcp_Abort(s))
<1> DEFINE q == tcpSendSegment(s, {"RST"}, s.sndNxt, 0, 0, FALSE)
           o == [s EXCEPT !.ownedFlag = FALSE]
<1>1. Careful(r, q) /\ IsSock(q)
  <2>1. Silent(s, q) /\ Steady(s, q)
        BY SendSilent, SendSegment
  <2> HIDE DEF q
  <2>2. IsSock(q) /\ q.state = s.state
        BY <2>1 DEF Steady, Shift
  <2> QED BY <2>1, <2>2, SilentCareful
<1> HIDE DEF q
<1>2. Careful(r, o)
  <2>1. Silent(s, o) /\ o.state = s.state
        BY DEF IsSock, SockField, Silent, Quiet
  <2> HIDE DEF o
  <2> QED BY <2>1, SilentCareful
<1> HIDE DEF o
<1>3. Careful(r, Dispose(tcpChangeState(q, "CLOSED")))
      BY <1>1, EndCareful
<1>4. Careful(r, Dispose(tcpChangeState(s, "CLOSED")))
      BY EndCareful
<1>5. Tcp_Abort(s) \in {Dispose(tcpChangeState(q, "CLOSED")), o,
                        Dispose(tcpChangeState(s, "CLOSED"))}
      BY DEF Tcp_Abort, q, o
<1> QED BY <1>2, <1>3, <1>4, <1>5

\* Tcp_Accept
LEMMA AcceptCareful ==
    ASSUME NEW s, IsSock(s), s.txRoom \in Nat, Good(s), NEW iss \in SeqNum, NEW isn,
           s.state = "CLOSED"
    PROVE  Careful(s, AcceptChild(s, isn, iss))
<1> DEFINE b == InitControlBlock(s, iss)
           i == [b EXCEPT !.irs = isn, !.rcvNxt = SeqAdd(isn, 1)]
           c == tcpSendSegment(i, {"SYN", "ACK"}, iss, i.rcvNxt, 0, TRUE)
           h == tcpChangeState(c, "SYN_RECEIVED")
           m == [s EXCEPT !.ownedFlag = TRUE]
<1>0. {"CLOSED", "SYN_RECEIVED"} \cap (DataStates \cup {"SYN_SENT", "TIME_WAIT"}) = {}
      BY DEF DataStates
<1>1. Plain(b) /\ b.sndUna = b.iss /\ IsSock(b) /\ b.state = s.state
      BY BlockPlain DEF Good
<1> HIDE DEF b
<1>2. Plain(i) /\ i.sndUna = i.iss /\ IsSock(i) /\ i.state = s.state
      BY <1>1 DEF IsSock, SockField, Numeric, Plain
<1> HIDE DEF i
<1>3. /\ Plain(c) /\ IsSock(c) /\ c.state = i.state
      /\ Plain(h) /\ h.sndUna = h.iss
  <2>1. \A flags, seqNum, ackNum, new :
            LET d == tcpSendSegment(i, flags, seqNum, ackNum, 0, TRUE)
                g == tcpChangeState(d, new)
            IN  /\ Plain(d) /\ IsSock(d) /\ d.state = i.state
                /\ Plain(g) /\ g.sndUna = g.iss
        BY <1>2, OpeningPlain
  <2> QED BY <2>1
<1>4. Shift(c, h, "SYN_RECEIVED")
      BY <1>3, ChangeState
<1> HIDE DEF c, h
<1>5. Careful(s, h)
      BY <1>0, <1>3, <1>4, PlainCareful DEF Shift
<1>6. Careful(s, c)
      BY <1>0, <1>2, <1>3, PlainCareful
<1>7. Careful(s, m) /\ IsSock(m)
  <2>1. IsSock(m) /\ Silent(s, m) /\ m.state = s.state
        BY DEF IsSock, SockField, Numeric, Silent, Quiet
  <2> HIDE DEF m
  <2> QED BY <2>1, CarefulSelf, SilentCareful
<1> HIDE DEF m
<1>8. Careful(s, Tcp_Abort(m)) /\ Careful(s, Tcp_Abort(c))
      BY <1>3, <1>6, <1>7, AbortCareful
<1>9. AcceptChild(s, isn, iss) \in {Tcp_Abort(m), Tcp_Abort(c), h}
      BY DEF AcceptChild, m, h, c, i, b
<1> QED BY <1>5, <1>8, <1>9

----------------------------------------------------------------------------
(* Every step *)

\* The start and the end of a critical section are silent.
LEMMA StartCareful ==
    ASSUME IsSock(sock), Good(sock), NEW f
    PROVE  /\ Good(Start(f)) /\ Start(f).sndNxt = sock.sndNxt
           /\ Start(f).state = sock.state
<1> DEFINE s == Start(f)
<1>1. Silent(sock, s) /\ s.state = sock.state
      BY DEF IsSock, SockField, Silent, Quiet, Start
<1> HIDE DEF s
<1>2. Careful(sock, s)
      BY <1>1, CarefulSelf, SilentCareful
<1> QED BY <1>1, <1>2 DEF Careful, Silent, Quiet, s

\* What is careful from the start on makes a careful step.
LEMMA CommitCareful ==
    ASSUME IsSock(sock), NEW s, s.sndNxt = sock.sndNxt,
           NEW o, IsSock(o.sock), Careful(s, o.sock), Commit(o)
    PROVE  Careful(sock, sock')
<1>1. Silent(o.sock, Settle(o.sock)) /\ Settle(o.sock).state = o.sock.state
      BY DEF IsSock, SockField, Silent, Quiet, Settle
<1>2. Careful(sock, o.sock)
      BY CarefulFrom
<1>3. Careful(sock, Settle(o.sock))
      BY <1>1, <1>2, SilentCareful
<1> QED BY <1>3 DEF Commit

\* The segments of the model offer the windows its constants allow.
LEMMA SegmentsOffer ==
    ASSUME IsSock(sock), NEW seg \in Segments(sock), NEW s, s.state = sock.state
    PROVE  Offer(s, seg)
<1>1. PICK flags \in SegFlags : seg \in SegmentsWith(sock, flags)
      BY DEF Segments
<1>2. PICK window \in IF "ACK" \in flags THEN SegWindow(sock) ELSE {0} :
        seg.flags = flags /\ seg.window = window
      BY <1>1 DEF SegmentsWith
<1>3. window \in Nat
  <2>1. \A k \in 0 .. U16Max : k \in Nat
        BY DEF U16Max
  <2>2. FirstWindows \cup Windows \subseteq 0 .. U16Max
        BY EndpointAssumption
  <2>3. window \in {0} \cup FirstWindows \cup Windows
        BY DEF SegWindow
  <2> QED BY <2>1, <2>2, <2>3
<1>4. Has(seg, "ACK") /\ seg.window = 0 =>
        ~StaysOpen /\ (s.state \in {"SYN_SENT", "SYN_RECEIVED"} => ~StartsOpen)
      BY <1>2 DEF Has, SegWindow, StaysOpen, StartsOpen
<1>5. IsSeg(seg)
      BY SegmentsCarryNumbers
<1> QED BY <1>2, <1>3, <1>4, <1>5 DEF Offer

\* A slot that is opened again starts from nothing.
LEMMA OpenGood ==
    ASSUME NEW s, IsSock(s)
    PROVE  LET t == Socket_Open(s)
           IN  Good(t) /\ t.state = "CLOSED"
<1> DEFINE t == Socket_Open(s)
<1>1. t.sndNxt = 0 /\ t.wndProbeInterval = 0 /\ t.state = "CLOSED"
      BY DEF IsSock, SockField, Socket_Open
<1> HIDE DEF t
<1>2. 0 \in SeqNum
      BY SizeAssumption DEF SeqNum
<1>3. Good(t)
      BY <1>1, <1>2 DEF Good, Plain, DataStates
<1> QED BY <1>1, <1>3 DEF t

\* Every call, and what follows a wait, is careful,
LEMMA CallsStepCareful ==
    ASSUME Linked, Good(sock), NEW f \in TxFault,
           Send(f) \/ Receive(f) \/ Shutdown(f) \/ Wake(f)
    PROVE  Careful(sock, sock')
<1> DEFINE s == Start(f)
<1>1. IsSock(s) /\ IsSock(sock)
      BY Starting DEF Linked, Steady, Shift
<1>2. Good(s) /\ s.sndNxt = sock.sndNxt /\ s.state = sock.state
      BY <1>1, StartCareful
<1> HIDE DEF s
<1>3. CASE Send(f)
  <2>1. PICK data, flags : Commit(Tcp_Send(s, data, flags))
        BY <1>3 DEF Send, s
  <2>2. UserStep(s, Tcp_Send(s, data, flags))
        BY <1>1, SendStep
  <2>3. Careful(s, Tcp_Send(s, data, flags).sock)
        BY <1>1, <1>2, CallsCareful
  <2> QED BY <1>1, <1>2, <2>1, <2>2, <2>3, CommitCareful DEF UserStep, Steady, Shift
<1>4. CASE Receive(f)
  <2>1. PICK n, flags : Commit(Tcp_Receive(s, n, flags))
        BY <1>4 DEF Receive, s
  <2>2. UserStep(s, Tcp_Receive(s, n, flags))
        BY <1>1, ReceiveStep
  <2>3. Careful(s, Tcp_Receive(s, n, flags).sock)
        BY <1>1, <1>2, CallsCareful
  <2> QED BY <1>1, <1>2, <2>1, <2>2, <2>3, CommitCareful DEF UserStep, Steady, Shift
<1>5. CASE Shutdown(f)
  <2>1. PICK flags : Commit(Tcp_Shutdown(s, flags))
        BY <1>5 DEF Shutdown, s
  <2>2. UserStep(s, Tcp_Shutdown(s, flags))
        BY <1>1, ShutdownStep
  <2>3. Careful(s, Tcp_Shutdown(s, flags).sock)
        BY <1>1, <1>2, CallsCareful
  <2> QED BY <1>1, <1>2, <2>1, <2>2, <2>3, CommitCareful DEF UserStep, Steady, Shift
<1>6. CASE Wake(f)
  <2> DEFINE e == [s EXCEPT !.event = FALSE]
  <2>1. Silent(s, e) /\ IsSock(e) /\ e.state = s.state
        BY <1>1 DEF IsSock, SockField, Numeric, Silent, Quiet
  <2>2. Commit(Resume(e, task))
        BY <1>6 DEF Wake, s
  <2> HIDE DEF e
  <2>3. Good(e) /\ e.sndNxt = sock.sndNxt
        BY <1>2, <2>1, CarefulSelf, SilentCareful DEF Careful, Silent, Quiet
  <2>4. UserStep(e, Resume(e, task)) /\ Careful(e, Resume(e, task).sock)
        BY <1>6, <2>1, <2>3, ResumeStep, ResumeCareful DEF Wake, Linked
  <2> QED BY <1>1, <2>2, <2>3, <2>4, CommitCareful DEF UserStep, Steady, Shift
<1> QED BY <1>3, <1>4, <1>5, <1>6

\* so are opening and closing a connection,
LEMMA OpenStepCareful ==
    ASSUME Linked, Good(sock), NEW f \in TxFault,
           Connect(f) \/ Accept(f) \/ Close(f)
    PROVE  Careful(sock, sock')
<1> DEFINE s == Start(f)
<1>1. IsSock(s) /\ IsSock(sock) /\ s.txRoom \in Nat
      BY Starting DEF Linked, Steady, Shift
<1>2. Good(s) /\ s.sndNxt = sock.sndNxt /\ s.state = sock.state
      BY <1>1, StartCareful
<1> HIDE DEF s
<1>3. CASE Connect(f)
  <2>1. PICK iss \in OwnIss : Commit(Tcp_Connect(s, iss))
        BY <1>3 DEF Connect, s
  <2> DEFINE o == Tcp_Connect(s, iss)
  <2>2. iss \in SeqNum /\ iss \in Int
        BY EndpointAssumption, SizeAssumption DEF SeqNum
  <2>3. IsSock(o.sock) /\ Careful(s, o.sock)
    <3>1. CASE s.state = "CLOSED"
          BY <1>1, <1>2, <2>2, <3>1, ConnectStep, ConnectCareful
    <3>2. CASE s.state # "CLOSED"
      <4>1. o = ConnectWait(s)
            BY <3>2 DEF Tcp_Connect
      <4> HIDE DEF o
      <4>2. Steady(s, o.sock) /\ Careful(s, o.sock)
            BY <1>1, <1>2, <4>1, ConnectWaiting, CallsCareful
      <4> QED BY <4>2 DEF Steady, Shift
    <3> QED BY <3>1, <3>2
  <2>4. Commit(o)
        BY <2>1
  <2> HIDE DEF o
  <2> QED BY <1>1, <1>2, <2>3, <2>4, CommitCareful
<1>4. CASE Accept(f)
  <2>1. PICK iss \in OwnIss, isn \in PeerIss :
          LET c == AcceptChild(s, isn, iss)
          IN  Commit(Outcome(c, IF c.type = "UNUSED" THEN NoTask
                                ELSE Returned("NO_ERROR")))
        BY <1>4 DEF Accept, s
  <2> DEFINE c == AcceptChild(s, isn, iss)
             o == Outcome(c, IF c.type = "UNUSED" THEN NoTask
                             ELSE Returned("NO_ERROR"))
  <2>2. iss \in SeqNum /\ iss \in Int
        BY EndpointAssumption, SizeAssumption DEF SeqNum
  <2>3. s.state = "CLOSED"
        BY <1>2, <1>4 DEF Accept, Fresh
  <2>4. IsSock(c) /\ Careful(s, c)
        BY <1>1, <1>2, <2>2, <2>3, AcceptStep, AcceptCareful
  <2>5. Commit(o)
        BY <2>1
  <2> HIDE DEF c
  <2>6. o.sock = c
        BY DEF Outcome
  <2> HIDE DEF o
  <2> QED BY <1>1, <1>2, <2>4, <2>5, <2>6, CommitCareful
<1>5. CASE Close(f)
  <2> DEFINE c == Tcp_Abort(s)
             o == Outcome(c, NoTask)
  <2>1. IsSock(c)
        BY <1>1, AbortStep DEF GivenBack
  <2>2. Careful(s, c)
        BY <1>1, <1>2, CarefulSelf, AbortCareful
  <2>3. Commit(o)
        BY <1>5 DEF Close, s
  <2> HIDE DEF c
  <2>4. o.sock = c
        BY DEF Outcome
  <2> HIDE DEF o
  <2> QED BY <1>1, <1>2, <2>1, <2>2, <2>3, <2>4, CommitCareful
<1> QED BY <1>3, <1>4, <1>5

\* and so are segments and timers.
LEMMA DrivenCareful ==
    ASSUME Linked, Good(sock), NEW f \in TxFault,
           Segment(f) \/ \E elapsed \in Elapsed : Tick(elapsed, f)
    PROVE  Careful(sock, sock')
<1> DEFINE s == Start(f)
<1>1. IsSock(s) /\ IsSock(sock)
      BY Starting DEF Linked, Steady, Shift
<1>2. Good(s) /\ s.sndNxt = sock.sndNxt /\ s.state = sock.state
      BY <1>1, StartCareful
<1>3. s.state \in TcpState \ {"LISTEN"}
      BY <1>2 DEF Linked
<1> HIDE DEF s
<1>4. ASSUME NEW t, IsSock(t), Careful(s, t), Commit(Outcome(t, task))
      PROVE  Careful(sock, sock')
  <2> DEFINE o == Outcome(t, task)
  <2>1. o.sock = t
        BY DEF Outcome
  <2>2. Commit(o)
        BY <1>4
  <2> HIDE DEF o
  <2> QED BY <1>1, <1>2, <1>4, <2>1, <2>2, CommitCareful
<1>5. CASE Segment(f)
  <2>1. PICK seg \in Segments(sock) : Commit(Outcome(tcpProcessSegment(s, seg), task))
        BY <1>5 DEF Segment, s
  <2> DEFINE t == tcpProcessSegment(s, seg)
  <2>2. Offer(s, seg)
        BY <1>1, <1>2, SegmentsOffer
  <2>3. Careful(s, t)
        BY <1>1, <1>2, <1>3, <2>2, SegmentCareful
  <2>4. IsSock(t)
    <3>1. IsSeg(seg)
          BY <2>2 DEF Offer
    <3>2. \/ Steady(s, t)
          \/ s.state # "CLOSED" /\ Ends(s, t)
          \/ s.state = "TIME_WAIT" /\ ~s.ownedFlag /\ GivenBack(s, t)
          \/ \E new \in TcpState : <<s.state, new>> \in Advances /\ Shift(s, t, new)
          BY <1>1, <1>3, <3>1, SegmentStep
    <3> HIDE DEF t
    <3> QED BY <3>2 DEF Steady, Shift, Ends, GivenBack
  <2> HIDE DEF t
  <2> QED BY <1>4, <2>1, <2>3, <2>4 DEF t
<1>6. ASSUME NEW elapsed \in Elapsed, Tick(elapsed, f)
      PROVE  Careful(sock, sock')
  <2> DEFINE t == tcpTick(s, elapsed)
  <2>1. Commit(Outcome(t, task))
        BY <1>6 DEF Tick, s
  <2>2. Careful(s, t)
        BY <1>1, <1>2, TickCareful
  <2>3. IsSock(t)
    <3>1. CASE s.state = "CLOSED"
          BY <1>1, <3>1 DEF tcpTick
    <3>2. CASE s.state # "CLOSED"
      <4>1. \/ Steady(s, t) \/ Ends(s, t)
            \/ s.state = "TIME_WAIT" /\ ~s.ownedFlag /\ GivenBack(s, t)
            BY <1>1, <3>2, TimerStep
      <4> HIDE DEF t
      <4> QED BY <4>1 DEF Steady, Shift, Ends, GivenBack
    <3> QED BY <3>1, <3>2
  <2> HIDE DEF t
  <2> QED BY <1>4, <2>1, <2>2, <2>3
<1> QED BY <1>5, <1>6

\* No step sends beyond the window, forgets to probe a closed one, or leaves
\* TIME-WAIT without its timer.
LEMMA NextCareful ==
    ASSUME Linked, Good(sock), [Next]_vars
    PROVE  Careful(sock, sock')
<1>1. CASE UNCHANGED vars
  <2>1. sock' = sock
        BY <1>1 DEF vars
  <2> QED BY <2>1, CarefulSelf
<1>2. CASE Open
  <2>1. Good(sock') /\ sock'.state = "CLOSED"
        BY <1>2, OpenGood DEF Linked, Open
  <2> QED BY <2>1 DEF Careful, Moves, DataStates
<1>3. ASSUME NEW f \in TxFault, Connect(f) \/ Accept(f) \/ Close(f)
      PROVE  Careful(sock, sock')
      BY <1>3, OpenStepCareful
<1>4. ASSUME NEW f \in TxFault,
             Send(f) \/ Receive(f) \/ Shutdown(f) \/ Wake(f)
      PROVE  Careful(sock, sock')
      BY <1>4, CallsStepCareful
<1>5. ASSUME NEW f \in TxFault,
             Segment(f) \/ \E elapsed \in Elapsed : Tick(elapsed, f)
      PROVE  Careful(sock, sock')
      BY <1>5, DrivenCareful
<1> QED BY <1>1, <1>2, <1>3, <1>4, <1>5 DEF Next

----------------------------------------------------------------------------
(* TIME-WAIT after the user has left *)

\* The inductive part of UnownedLingers
Lingering ==
    task.pc = "free" /\ sock.type = "STREAM" =>
        sock.state = "TIME_WAIT" /\ ~sock.ownedFlag

\* If the window was never closed, nothing but the 2MSL timer or a reset ends
\* TIME-WAIT: the other timers have nothing to do.
LEMMA TickLingering ==
    ASSUME NEW s, IsSock(s), NEW elapsed, s.state = "TIME_WAIT", ~s.ownedFlag,
           Waiting(s), s.wndProbeInterval = 0
    PROVE  LET t == tcpTick(s, elapsed)
           IN  Steady(s, t) \/ GivenBack(s, t)
<1>1. TickRetransmit(s, elapsed) = s
      BY DEF TickRetransmit, Waiting
<1>2. TickPersist(s, elapsed) = s
      BY DEF TickPersist
<1>3. TickOverride(s, elapsed) = s
      BY DEF TickOverride
<1>4. TickFinWait2(s, elapsed) = s
      BY DEF TickFinWait2
<1>5. tcpTick(s, elapsed) = TickTimeWait(s, elapsed)
      BY <1>1, <1>2, <1>3, <1>4, Zenon DEF tcpTick, TickOthers
<1>6. CASE "timeWait" \in elapsed
  <2>1. GivenBack(s, TimeWaitTimeout(s))
        BY Tick2MSL
  <2> QED BY <1>5, <1>6, <2>1 DEF TickTimeWait
<1>7. CASE "timeWait" \notin elapsed
      BY <1>5, <1>7, SteadySelf DEF TickTimeWait
<1> QED BY <1>6, <1>7

\* A segment gives the slot back if it resets the connection, and does
\* nothing to it otherwise.
LEMMA SegmentLingering ==
    ASSUME NEW s, IsSock(s), NEW seg, IsSeg(seg), s.state = "TIME_WAIT",
           ~s.ownedFlag
    PROVE  LET t == tcpProcessSegment(s, seg)
           IN  Steady(s, t) \/ GivenBack(s, t)
<1> DEFINE c == Screened(s, seg)
           r == [SendAck(s) EXCEPT !.timeWaitTimer = TRUE]
<1>1. Steady(s, r)
  <2>1. Steady(s, SendAck(s))
        BY Acknowledge
  <2> QED BY <2>1 DEF IsSock, SockField, Steady, Shift, Armed, Numeric
<1>2. Resets(s, seg) => ~Passes(s, seg)
      BY DEF Resets, Passes
<1>3. Resets(s, seg) => GivenBack(s, Dispose(c))
      BY <1>2, Screening, Disposal
<1>4. ~Resets(s, seg) /\ ~Passes(s, seg) => Steady(s, c)
      BY Screening
<1> HIDE DEF c, r
<1>5. Steady(s, s)
      BY SteadySelf
<1>6. tcpProcessSegment(s, seg) = tcpStateTimeWait(s, seg)
      BY DEF tcpProcessSegment
<1> QED BY <1>1, <1>3, <1>4, <1>5, <1>6 DEF tcpStateTimeWait, c, r

\* A slot nobody owns stays in TIME-WAIT until it is given back.
LEMMA NextLingering ==
    ASSUME StaysOpen, Linked, Good(sock), Lingering, [Next]_vars
    PROVE  Lingering'
<1>1. task'.pc # "free" => Lingering'
      BY DEF Lingering
<1>2. CASE UNCHANGED vars
  <2>1. sock' = sock /\ task' = task
        BY <1>2 DEF vars
  <2> QED BY <2>1 DEF Lingering
<1>3. CASE Open
      BY <1>1, <1>3 DEF Open, Returned, Call
<1>4. ASSUME NEW f \in TxFault, Connect(f)
      PROVE  Lingering'
      BY <1>1, <1>4, ConnectChanges DEF Connected, Called
<1>5. ASSUME NEW f \in TxFault, Accept(f)
      PROVE  Lingering'
      BY <1>5, AcceptChanges DEF Accepted, Lingering
<1>6. ASSUME NEW f \in TxFault,
             Send(f) \/ Receive(f) \/ Shutdown(f) \/ Wake(f)
      PROVE  Lingering'
      BY <1>1, <1>6, CallsChange DEF Called
<1>7. ASSUME NEW f \in TxFault, Close(f)
      PROVE  Lingering'
      BY <1>7, CloseChanges DEF Aborted, GivenBack, Lingering
<1>8. ASSUME NEW s, Steady(sock, s), NEW t, Steady(s, t) \/ GivenBack(s, t),
             sock' = Settle(t), task' = task
      PROVE  Lingering'
  <2>1. IsSock(t) /\ Steady(t, sock')
        BY <1>8, Settling DEF Steady, Shift, GivenBack
  <2> QED BY <1>8, <2>1 DEF Steady, Shift, GivenBack, Lingering
<1>9. ASSUME NEW f \in TxFault,
             Segment(f) \/ \E elapsed \in Elapsed : Tick(elapsed, f)
      PROVE  Lingering'
  <2> DEFINE s == Start(f)
  <2>1. Steady(sock, s) /\ IsSock(s)
        BY Starting DEF Linked, Steady, Shift
  <2>2. Good(s)
        BY StartCareful DEF Linked
  <2> HIDE DEF s
  <2>3. task' = task /\ sock.type = "STREAM"
        BY <1>9 DEF Segment, Tick, Commit, Outcome
  <2>4. CASE task.pc # "free"
        BY <1>1, <2>3, <2>4
  <2>5. CASE task.pc = "free"
    <3>1. s.state = "TIME_WAIT" /\ ~s.ownedFlag
          BY <2>1, <2>3, <2>5 DEF Lingering, Steady, Shift
    <3>2. Waiting(s) /\ s.wndProbeInterval = 0
          BY <2>2, <3>1 DEF Good, Plain
    <3>3. CASE Segment(f)
      <4>1. PICK seg \in Segments(sock) :
              Commit(Outcome(tcpProcessSegment(s, seg), task))
            BY <3>3 DEF Segment, s
      <4> DEFINE t == tcpProcessSegment(s, seg)
      <4>2. IsSeg(seg)
            BY SegmentsCarryNumbers DEF Linked
      <4>3. Steady(s, t) \/ GivenBack(s, t)
            BY <2>1, <3>1, <4>2, SegmentLingering
      <4>4. sock' = Settle(t)
            BY <4>1 DEF Commit, Outcome
      <4> HIDE DEF t
      <4> QED BY <1>8, <2>1, <2>3, <4>3, <4>4
    <3>4. ASSUME NEW elapsed \in Elapsed, Tick(elapsed, f)
          PROVE  Lingering'
      <4> DEFINE t == tcpTick(s, elapsed)
      <4>1. Steady(s, t) \/ GivenBack(s, t)
            BY <2>1, <3>1, <3>2, TickLingering
      <4>2. sock' = Settle(t)
            BY <3>4 DEF Tick, Commit, Outcome, s
      <4> HIDE DEF t
      <4> QED BY <1>8, <2>1, <2>3, <4>1, <4>2
    <3> QED BY <1>9, <3>3, <3>4
  <2> QED BY <2>4, <2>5
<1> QED BY <1>2, <1>3, <1>4, <1>5, <1>6, <1>7, <1>9 DEF Next

----------------------------------------------------------------------------
(* Theorems *)

\* A slot that was never used satisfies the invariant.
LEMMA InitGood == Init => Good(sock)
<1> SUFFICES ASSUME Init PROVE Good(sock)
    OBVIOUS
<1>1. sock.sndNxt = 0 /\ sock.wndProbeInterval = 0 /\ sock.state = "CLOSED"
      BY DEF Init, UnusedSocket, SockField
<1>2. 0 \in SeqNum
      BY SizeAssumption DEF SeqNum
<1> QED BY <1>1, <1>2 DEF Good, Plain, DataStates

\* The invariant holds in every reachable state.
THEOREM GoodInvariant == Spec => []Good(sock)
<1>1. Linked /\ Good(sock) /\ [Next]_vars => Good(sock)'
  <2> SUFFICES ASSUME Linked, Good(sock), [Next]_vars PROVE Good(sock)'
      OBVIOUS
  <2>1. Good(sock')
        BY NextCareful DEF Careful
  <2> QED BY <2>1
<1> QED BY <1>1, InitGood, LinkedInvariant, PTL DEF Spec

\* New data is sent only inside the window the peer has advertised and the
\* congestion window, by whatever step: a send, an acknowledgment, a loss
\* recovery, the override timer or a task that wakes up.
THEOREM SendsWithinWindowAlways == Spec => SendsWithinWindow
<1>1. ASSUME Linked, Good(sock), [Next]_vars
      PROVE  sock.sndNxt # sock.sndNxt' /\ sock.state' \in {"ESTABLISHED", "CLOSE_WAIT"}
               => LET flight == SeqSub(sock.sndNxt', sock.sndUna')
                  IN  /\ flight <= sock.sndWnd'
                      /\ CongestControl => flight <= sock.cwnd'
      BY <1>1, NextCareful DEF Careful, Moves, Fits, DataStates
<1> QED BY <1>1, LinkedInvariant, GoodInvariant, PTL DEF Spec, SendsWithinWindow

\* While the peer's window is closed and data waits, the persist timer runs,
\* if the window was open when the connection was established: a window that
\* is closed in the handshake starts no timer (the run zero_window).
THEOREM ZeroWindowAlwaysProbed == StartsOpen /\ Spec => []ZeroWindowProbed
<1>1. StartsOpen /\ Good(sock) => ZeroWindowProbed
      BY DEF Good, Probing, DataStates, ZeroWindowProbed
<1>2. CASE StartsOpen
  <2>1. Good(sock) => ZeroWindowProbed
        BY <1>1, <1>2
  <2> QED BY <2>1, GoodInvariant, PTL
<1> QED BY <1>2

\* A slot the user has closed lives on only in TIME-WAIT, with the 2MSL timer
\* running, until it is given back, if the peer never closes its window: the
\* persist timer of a closed window may fire in TIME-WAIT and leave the slot
\* closed but in use (the run leak).
THEOREM UnownedAlwaysLingers == StaysOpen /\ Spec => []UnownedLingers
<1>1. Init => Lingering
      BY DEF Init, UnusedSocket, SockField, Lingering
<1>2. StaysOpen /\ Linked /\ Good(sock) /\ Lingering /\ [Next]_vars => Lingering'
      BY NextLingering
<1>3. Good(sock) /\ Lingering => UnownedLingers
      BY DEF Good, Waiting, Lingering, UnownedLingers
<1>4. CASE StaysOpen
  <2>1. Linked /\ Good(sock) /\ Lingering /\ [Next]_vars => Lingering'
        BY <1>2, <1>4
  <2> QED BY <1>1, <1>3, <2>1, LinkedInvariant, GoodInvariant, PTL DEF Spec
<1> QED BY <1>4

=============================================================================
