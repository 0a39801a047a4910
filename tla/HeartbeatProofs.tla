-------------------------- MODULE HeartbeatProofs --------------------------
(***************************************************************************)
(* Proofs about Heartbeat: its types, the balance of the loop's reference  *)
(* count, what timed() tells, and that only a silent server is given up -  *)
(* for every timeout, and however long callbacks block.                    *)
(***************************************************************************)
EXTENDS Heartbeat, TLAPS

(* TypeOK without the two flags, whose type is a matter of its own. *)
NumbersOK ==
  /\ conn \in States /\ timeout \in Timeouts \cup {0}
  /\ nextIn \in Int \cup {Never} /\ expireIn \in Int \cup {Never}
  /\ timerIn \in Int \cup {Never}
  /\ refs \in {-1, 0}
  /\ pending \subseteq Events /\ lag \in 0..MaxLag
  /\ quiet \in Nat /\ unsent \in Nat
  /\ closedBy \in {"none", "late", "inactivity", "peer"}

FlagsOK == busy \in BOOLEAN /\ pollDue \in BOOLEAN

(* Only an attached connection is watched, and its end has a reason. *)
Attachment ==
  /\ closedBy = "none" <=> attached
  /\ "io" \in pending => attached

(* While the timer waits to be handled it is stopped and still counted;    *)
(* otherwise it runs exactly when timed() says so, and then is counted.    *)
TimerInv ==
  /\ "timer" \in pending => attached /\ timed /\ timerIn = Never /\ refs = -1
  /\ "timer" \notin pending => refs = IF timerIn = Never THEN 0 ELSE -1
  /\ attached /\ "timer" \notin pending => (timed <=> timerIn # Never)
  /\ ~attached => timerIn = Never /\ "timer" \notin pending /\ ~timed

(* The end always lies 1.5 timeouts after the last time data was read. *)
Deadline ==
  /\ conn \in {"protocol", "handshake"} => expireIn # Never
  /\ attached /\ timeout # 0 =>
       nextIn # Never /\ expireIn # Never /\ expireIn + quiet = Patience(timeout)

(* The timer is set no later than the next heartbeat, and is handled in    *)
(* the iteration after the one in which it becomes due.                    *)
Pace ==
  attached /\ timeout # 0 =>
    /\ unsent + nextIn <= Interval(timeout)
    /\ "timer" \in pending => nextIn + lag >= 1 - MaxLag
    /\ "timer" \notin pending =>
         /\ timerIn <= nextIn
         /\ timerIn >= 0 \/ timerIn + lag >= 1
         /\ busy \/ pending # {} => timerIn + lag >= 1

IInv == NumbersOK /\ Attachment /\ TimerInv /\ Deadline /\ Pace

(* The constructor leaves a Wrapper whose timer is set and counted. *)
THEOREM InitInv == Init => IInv
<1> SUFFICES ASSUME Init PROVE IInv OBVIOUS
<1>1. NumbersOK BY TimeAssumption DEF Init, NumbersOK, States, Events
<1>2. Attachment BY DEF Init, Attachment, attached
<1>3. TimerInv BY TimeAssumption DEF Init, TimerInv, attached, timed
<1>4. Deadline BY TimeAssumption DEF Init, Deadline, attached
<1>5. Pace BY DEF Init, Pace
<1> QED BY <1>1, <1>2, <1>3, <1>4, <1>5 DEF IInv

-----------------------------------------------------------------------------
(* A step of the loop that has nothing to do with the timer. *)
LEMMA TickInv ==
  ASSUME IInv, NEW readable \in BOOLEAN, Tick(readable)
  PROVE  IInv'
<1> USE DEF attached, IInv, Later, States, Events
<1>1. NumbersOK' BY TimeAssumption DEF NumbersOK, Tick
<1>2. Attachment' BY DEF Attachment, Tick
<1>3. TimerInv' BY TimeAssumption DEF TimerInv, NumbersOK, Tick, timed
<1>4. Deadline' BY TimeAssumption DEF Deadline, NumbersOK, Tick, Patience
<1>5. Pace'
  <2> SUFFICES ASSUME attached, timeout # 0 PROVE Pace' BY DEF Pace, Tick
  <2>1. nextIn \in Int /\ Never \notin Int /\ timerIn \in Int \cup {Never}
        /\ lag \in Nat /\ MaxLag \in Nat /\ unsent \in Nat
        /\ ("timer" \notin pending => timerIn \in Int)
    BY TimeAssumption DEF NumbersOK, Deadline, TimerInv, timed
  <2>2. /\ nextIn' = nextIn - 1 /\ unsent' = unsent + 1 /\ timeout' = timeout
        /\ pending' = pending /\ busy' = busy
        /\ "timer" \notin pending => timerIn' = timerIn - 1
    BY <2>1 DEF Tick
  <2>3. CASE busy BY <2>1, <2>2, <2>3 DEF Pace, Tick, Interval
  <2>4. CASE ~busy
    <3>1. pending = {} /\ lag' = lag /\ timerIn > 0 BY <2>1, <2>4 DEF Tick, Due
    <3> QED BY <2>1, <2>2, <2>4, <3>1 DEF Pace, Interval
  <2> QED BY <2>3, <2>4
<1> QED BY <1>1, <1>2, <1>3, <1>4, <1>5

(* Nor does an iteration that collects what is due. *)
LEMMA IterateInv ==
  ASSUME IInv, NEW readable \in BOOLEAN, readable => conn # "closed", Iterate(readable)
  PROVE  IInv'
<1> USE DEF attached, IInv, Due, States, Events
<1>1. NumbersOK' BY TimeAssumption DEF NumbersOK, Iterate
<1>2. Attachment' BY DEF Attachment, Iterate
<1>3. TimerInv' BY TimeAssumption DEF TimerInv, Attachment, NumbersOK, Iterate, timed
<1>4. Deadline' BY TimeAssumption DEF Deadline, NumbersOK, Iterate, Patience
<1>5. Pace' BY TimeAssumption DEF Pace, NumbersOK, Deadline, TimerInv, Iterate, timed, Interval
<1> QED BY <1>1, <1>2, <1>3, <1>4, <1>5

(* A blocked callback, of whatever length, changes no time. *)
LEMMA BusyInv == ASSUME IInv, PollTimer \/ Unblock PROVE IInv'
<1> USE DEF attached, IInv, PollTimer, Unblock
<1>1. NumbersOK' BY DEF NumbersOK, Events
<1>2. Attachment' BY DEF Attachment
<1>3. TimerInv' BY DEF TimerInv, timed
<1>4. Deadline' BY DEF Deadline, Patience
<1>5. Pace' BY DEF Pace, Interval
<1> QED BY <1>1, <1>2, <1>3, <1>4, <1>5

-----------------------------------------------------------------------------
(* When onExpired() is called the timer is stopped and counted, so giving  *)
(* up the connection leaves no timer and no count.                         *)
LEMMA ExpiredInv == ASSUME IInv, OnExpired PROVE IInv'
<1> USE DEF attached, IInv, OnExpired, States, Events
<1>1. attached /\ timed /\ timerIn = Never /\ refs = -1
  BY DEF TimerInv, Attachment
<1>2. CASE timeout = 0 /\ initialized /\ ExpiredUnnegotiated
  <2>1. NumbersOK' BY <1>1, <1>2 DEF NumbersOK, ExpiredUnnegotiated
  <2>2. Attachment' BY <1>1, <1>2 DEF Attachment, ExpiredUnnegotiated
  <2>3. TimerInv' BY <1>1, <1>2 DEF TimerInv, NumbersOK, ExpiredUnnegotiated, timed
  <2>4. Deadline' BY <1>1, <1>2 DEF Deadline, ExpiredUnnegotiated, initialized, Patience
  <2>5. Pace' BY <1>2 DEF Pace, ExpiredUnnegotiated
  <2> QED BY <2>1, <2>2, <2>3, <2>4, <2>5
<1>3. CASE \/ timeout = 0 /\ ~initialized /\ ExpiredUnnegotiated
           \/ ExpiredInactive
  <2>1. /\ conn' = "closed" /\ timerIn' = Never /\ refs' = 0
        /\ nextIn' = Never /\ expireIn' = Never /\ timeout' \in {timeout, 0}
        /\ closedBy' \in {"late", "inactivity"} /\ unsent' = unsent
        /\ pending' = pending \ {"timer", "io"}
    BY <1>1, <1>3 DEF ExpiredUnnegotiated, ExpiredInactive, CloseNow, Detach
  <2>2. NumbersOK' BY <2>1 DEF NumbersOK
  <2>3. Attachment' BY <2>1 DEF Attachment
  <2>4. TimerInv' BY <2>1 DEF TimerInv, timed
  <2>5. Deadline' /\ Pace' BY <2>1 DEF Deadline, Pace
  <2> QED BY <2>2, <2>3, <2>4, <2>5
<1>4. CASE ExpiredAlive
  <2>1. nextIn \in Int /\ expireIn \in Int /\ expireIn + quiet = Patience(timeout)
    BY <1>1, <1>4 DEF ExpiredAlive, Deadline, NumbersOK
  <2>2. nextIn' \in Int /\ timerIn' \in Int /\ unsent' \in Nat
    BY <1>4, <2>1, TimeAssumption DEF ExpiredAlive, NumbersOK, Interval, Earliest
  <2>3. NumbersOK' BY <1>1, <1>4, <2>2 DEF ExpiredAlive, NumbersOK
  <2>4. Attachment' BY <1>1, <1>4 DEF ExpiredAlive, Attachment
  <2>5. TimerInv' BY <1>1, <1>4, <2>1, <2>2, TimeAssumption DEF ExpiredAlive, TimerInv, timed
  <2>6. Deadline' BY <1>1, <1>4, <2>1, <2>2, TimeAssumption DEF ExpiredAlive, Deadline, Patience
  <2>7. Pace' BY <1>1, <1>4, <2>1, <2>2, TimeAssumption
              DEF ExpiredAlive, Pace, NumbersOK, Interval, Earliest
  <2> QED BY <2>3, <2>4, <2>5, <2>6, <2>7
<1> QED BY <1>2, <1>3, <1>4 DEF ExpiredUnnegotiated

-----------------------------------------------------------------------------
(* onActive() only puts the end off. *)
LEMMA ReadDataInv ==
  ASSUME IInv, NEW to \in States, Follows(to), ReadData(to)
  PROVE  IInv'
<1> USE DEF attached, IInv, ReadData, IoReady
<1>1. attached /\ "timer" \notin pending /\ conn # "closed" /\ to # "closed"
  BY DEF TimerInv, Attachment, Follows
<1>2. /\ expireIn' \in Int \cup {Never} /\ (expireIn' = Never <=> expireIn = Never)
      /\ timeout # 0 => expireIn' = Patience(timeout) - lag
  BY <1>1, TimeAssumption DEF Extended, NumbersOK, Deadline, Patience
<1>3. NumbersOK' BY <1>1, <1>2 DEF NumbersOK, Events
<1>4. Attachment' BY <1>1 DEF Attachment
<1>5. TimerInv' BY <1>1, <1>2 DEF TimerInv, timed
<1>6. Deadline' BY <1>1, <1>2, TimeAssumption DEF Deadline, Patience, Follows, NumbersOK
<1>7. Pace' BY <1>1, TimeAssumption DEF Pace, NumbersOK, Deadline, TimerInv, timed, Interval
<1> QED BY <1>3, <1>4, <1>5, <1>6, <1>7

(* start() finds the timer of the connect timeout running. *)
LEMMA ReadTuneInv == ASSUME IInv, ReadTune PROVE IInv'
<1> USE DEF attached, IInv, ReadTune, IoReady
<1>1. attached /\ "timer" \notin pending /\ timed /\ timerIn # Never
  BY DEF TimerInv, Attachment, Deadline, timed
<1>2. PICK t \in Timeouts :
        /\ timeout' = t
        /\ IF t = 0 THEN UNCHANGED <<nextIn, expireIn, timerIn>>
           ELSE /\ nextIn' = Interval(t) - lag /\ expireIn' = Patience(t) - lag
                /\ timerIn' = Earliest(nextIn', expireIn')
  OBVIOUS
<1>3. /\ t # 0 => nextIn' \in Int /\ expireIn' \in Int /\ timerIn' \in Int
      /\ lag \in Nat
  BY <1>2, TimeAssumption DEF NumbersOK, Interval, Patience, Earliest
<1>4. NumbersOK' BY <1>2, <1>3 DEF NumbersOK, Events
<1>5. Attachment' BY DEF Attachment
<1>6. TimerInv' BY <1>1, <1>2, <1>3, TimeAssumption DEF TimerInv, timed
<1>7. Deadline' BY <1>1, <1>2, <1>3, TimeAssumption DEF Deadline, Patience
<1>8. Pace' BY <1>1, <1>2, <1>3, TimeAssumption DEF Pace, NumbersOK, Interval, Patience, Earliest
<1> QED BY <1>4, <1>5, <1>6, <1>7, <1>8

(* onDetached(): the destructor stops the timer and restores the count. *)
LEMMA ReadEndInv == ASSUME IInv, ReadEnd PROVE IInv'
<1> USE DEF attached, IInv, ReadEnd, IoReady, States, Events
<1>1. attached /\ "timer" \notin pending
  BY DEF TimerInv, Attachment
<1>2. (nextIn = Never /\ Extended = Never) <=> ~timed
  BY <1>1, TimeAssumption DEF timed, Extended, NumbersOK, Deadline, Patience
<1>3. conn' = "closed" /\ timerIn' = Never /\ refs' = 0
  BY <1>1, <1>2 DEF TimerInv, Detach
<1>4. NumbersOK' BY <1>3 DEF NumbersOK
<1>5. Attachment' BY <1>3 DEF Attachment
<1>6. TimerInv' BY <1>1, <1>3 DEF TimerInv, timed
<1>7. Deadline' /\ Pace' BY <1>3 DEF Deadline, Pace
<1> QED BY <1>4, <1>5, <1>6, <1>7

-----------------------------------------------------------------------------
(* Every callback, and every turn of the loop, keeps the timer's books.    *)
THEOREM NextInv == IInv /\ [Next]_hbVars => IInv'
<1> SUFFICES ASSUME IInv, [Next]_hbVars PROVE IInv' OBVIOUS
<1>1. ASSUME NEW readable \in BOOLEAN, readable => conn # "closed",
             Tick(readable) \/ Iterate(readable)
      PROVE  IInv'
  BY <1>1, TickInv, IterateInv
<1>2. CASE PollTimer \/ Unblock BY <1>2, BusyInv
<1>3. CASE OnExpired BY <1>3, ExpiredInv
<1>4. ASSUME NEW to \in States, Follows(to), ReadData(to) PROVE IInv'
  BY <1>4, ReadDataInv
<1>5. CASE ReadTune BY <1>5, ReadTuneInv
<1>6. CASE ReadEnd BY <1>6, ReadEndInv
<1>7. CASE UNCHANGED hbVars
  BY <1>7 DEF hbVars, IInv, NumbersOK, Attachment, TimerInv, Deadline, Pace,
              timed, attached
<1> QED BY <1>1, <1>2, <1>3, <1>4, <1>5, <1>6, <1>7 DEF Next

(* The timer, its times and the loop's count agree at all times. *)
THEOREM Invariance == Spec => []IInv
  BY InitInv, NextInv, PTL DEF Spec

(* The flags of the loop and the connection's state keep their types. *)
THEOREM FlagsInvariance == Spec => []FlagsOK
<1>1. Init => FlagsOK BY DEF Init, FlagsOK
<1>2. FlagsOK /\ [Next]_hbVars => FlagsOK'
  BY DEF FlagsOK, Next, hbVars, Tick, Iterate, PollTimer, Unblock, OnExpired, ReadData, ReadTune,
         ReadEnd
<1> QED BY <1>1, <1>2, PTL DEF Spec

(* Every variable keeps its type; the count is 0 or -1 at all times. *)
THEOREM HeartbeatTypes == Spec => []TypeOK
<1>1. IInv /\ FlagsOK => TypeOK BY DEF IInv, NumbersOK, FlagsOK, TypeOK
<1> QED BY <1>1, Invariance, FlagsInvariance, PTL

(* The Wrapper neither keeps the loop alive nor ends it, on any path. *)
THEOREM HeartbeatBalanced == Spec => []LoopBalanced
<1>1. IInv => LoopBalanced BY DEF IInv, TimerInv, LoopBalanced
<1> QED BY <1>1, Invariance, PTL

(* What timed() tells start() and the destructor is true. *)
THEOREM HeartbeatTimerKnown == Spec => []TimerKnown
<1>1. IInv => TimerKnown
  BY DEF IInv, TimerInv, Deadline, TimerKnown, timed
<1> QED BY <1>1, Invariance, PTL

(* A heartbeat leaves in every interval, or two blocked iterations later.  *)
THEOREM HeartbeatPaced == Spec => []HeartbeatsFlow
<1>1. ASSUME IInv, attached, timeout # 0
      PROVE  unsent < Interval(timeout) + 2 * MaxLag
  <2>1. /\ nextIn \in Int /\ lag \in 0..MaxLag /\ MaxLag \in Nat \ {0} /\ unsent \in Nat
        /\ Interval(timeout) \in Int /\ unsent + nextIn <= Interval(timeout)
        /\ "timer" \notin pending => timerIn \in Int
    BY <1>1, TimeAssumption DEF IInv, NumbersOK, Deadline, TimerInv, Pace, timed, Interval
  <2>2. nextIn + lag >= 1 - MaxLag
    BY <1>1, <2>1 DEF IInv, Pace
  <2> QED BY <2>1, <2>2
<1>2. IInv => HeartbeatsFlow BY <1>1 DEF HeartbeatsFlow
<1> QED BY <1>2, Invariance, PTL

(* Only a server that was silent for 1.5 timeouts is given up. *)
THEOREM HeartbeatSilence == Spec => ClosedOnlyAfterSilence
<1> DEFINE Silence == closedBy' = "inactivity" /\ closedBy = "none" => quiet - lag >= Patience(timeout)
<1>1. ASSUME IInv, Next, closedBy' = "inactivity", closedBy = "none"
      PROVE  quiet - lag >= Patience(timeout)
  <2>1. OnExpired /\ ExpiredInactive
    BY <1>1 DEF Next, Tick, Iterate, PollTimer, Unblock, ReadData, ReadTune, ReadEnd, OnExpired,
                ExpiredUnnegotiated, ExpiredAlive, CloseNow
  <2>2. /\ expireIn \in Int /\ quiet \in Nat /\ lag \in Nat /\ timeout \in Nat
        /\ expireIn + quiet = Patience(timeout) /\ expireIn + lag <= 0
    BY <1>1, <2>1, TimeAssumption
    DEF IInv, NumbersOK, TimerInv, Deadline, OnExpired, ExpiredInactive
  <2> QED BY <2>2 DEF Patience
<1>2. IInv /\ [Next]_hbVars => [Silence]_hbVars BY <1>1 DEF hbVars
<1> QED BY <1>2, Invariance, PTL DEF Spec, ClosedOnlyAfterSilence

-----------------------------------------------------------------------------
(* As long as the connection has an end it is watched: the timer comes no  *)
(* later, and is handled in the iteration after the one it becomes due in. *)
Watched ==
  attached /\ ~(initialized /\ timeout = 0) =>
    /\ expireIn # Never /\ (timeout # 0 => lag <= quiet)
    /\ "timer" \in pending => expireIn + lag >= 1 - MaxLag
    /\ "timer" \notin pending =>
         /\ timerIn <= expireIn
         /\ timerIn >= 0 \/ timerIn + lag >= 1
         /\ busy \/ pending # {} => timerIn + lag >= 1

(* Whatever happens to a connection that has an end, the end stays timed.  *)
LEMMA WatchedNext == IInv /\ Watched /\ [Next]_hbVars => Watched'
<1> SUFFICES ASSUME IInv, Watched, [Next]_hbVars, attached', ~(initialized /\ timeout = 0)'
             PROVE  /\ expireIn' # Never /\ (timeout' # 0 => lag' <= quiet')
                    /\ "timer" \in pending' => expireIn' + lag' >= 1 - MaxLag
                    /\ "timer" \notin pending' =>
                         /\ timerIn' <= expireIn'
                         /\ timerIn' >= 0 \/ timerIn' + lag' >= 1
                         /\ busy' \/ pending' # {} => timerIn' + lag' >= 1
  BY DEF Watched
<1>1. /\ nextIn \in Int \cup {Never} /\ expireIn \in Int \cup {Never}
      /\ timerIn \in Int \cup {Never} /\ pending \subseteq Events /\ lag \in 0..MaxLag
      /\ quiet \in Nat /\ timeout \in Nat /\ MaxLag \in Nat \ {0} /\ Never \notin Int
  BY TimeAssumption DEF IInv, NumbersOK
<1>2. /\ attached /\ timed /\ "timer" \notin pending => timerIn # Never
      /\ "timer" \in pending => timerIn = Never
      /\ attached /\ timeout # 0 => expireIn + quiet = Patience(timeout)
  BY DEF IInv, TimerInv, Deadline
<1>3. ASSUME NEW readable \in BOOLEAN, Tick(readable) PROVE Watched'
  <2>1. CASE attached /\ ~(initialized /\ timeout = 0)
    <3>1. expireIn \in Int /\ ("timer" \notin pending => timerIn \in Int)
      BY <1>1, <1>2, <2>1 DEF Watched, timed
    <3>2. /\ expireIn' = expireIn - 1 /\ pending' = pending /\ busy' = busy
          /\ timeout' = timeout /\ conn' = conn
          /\ "timer" \notin pending => timerIn' = timerIn - 1
          /\ timeout # 0 => quiet' = quiet + 1
      <4>1. expireIn' = Later(expireIn) /\ timerIn' = Later(timerIn) BY <1>3 DEF Tick
      <4>2. pending' = pending /\ busy' = busy /\ timeout' = timeout /\ conn' = conn
        BY <1>3 DEF Tick
      <4>3. timeout # 0 => quiet' = quiet + 1 BY <1>3, <2>1 DEF Tick
      <4>4. expireIn # Never /\ ("timer" \notin pending => timerIn # Never) BY <1>1, <3>1
      <4> QED BY <4>1, <4>2, <4>3, <4>4 DEF Later
    <3>3. CASE busy
      <4>1. lag' = lag + 1 BY <3>3, <1>3 DEF Tick
      <4> QED BY <1>1, <2>1, <3>1, <3>2, <3>3, <4>1 DEF Watched
    <3>4. CASE ~busy
      <4>1. lag' = lag /\ pending = {} /\ timerIn > 0 BY <1>1, <3>1, <3>4, <1>3 DEF Tick, Due
      <4> QED BY <1>1, <2>1, <3>1, <3>2, <3>4, <4>1 DEF Watched
    <3> QED BY <3>3, <3>4
  <2>2. CASE ~(attached /\ ~(initialized /\ timeout = 0))
    BY <1>3, <2>2 DEF Tick, Watched, attached, initialized
  <2> QED BY <2>1, <2>2
<1>4. ASSUME NEW readable \in BOOLEAN, Iterate(readable) PROVE Watched'
  BY <1>1, <1>2, <1>4 DEF Iterate, Watched, Due, Events, timed, attached, initialized
<1>5. CASE PollTimer \/ Unblock
  BY <1>5 DEF PollTimer, Unblock, Watched, attached, initialized
<1>6. CASE OnExpired
  <2>1. conn' # "closed" BY DEF attached
  <2>2. timeout # 0 => ExpiredAlive
    BY <1>6, <2>1 DEF OnExpired, ExpiredUnnegotiated, ExpiredInactive, CloseNow
  <2>3. timeout # 0
    BY <1>6, <2>1 DEF OnExpired, ExpiredUnnegotiated, ExpiredInactive, ExpiredAlive, CloseNow, initialized
  <2>4. /\ expireIn + lag > 0 /\ expireIn' = expireIn /\ lag' = lag /\ quiet' = quiet
        /\ timeout' = timeout /\ conn' = conn /\ "timer" \notin pending'
        /\ timerIn' = Earliest(nextIn', expireIn) /\ attached
    BY <1>6, <2>1, <2>2, <2>3 DEF OnExpired, ExpiredAlive, attached
  <2>5. nextIn \in Int /\ expireIn \in Int BY <1>1, <2>3, <2>4 DEF IInv, Deadline
  <2>6. nextIn' \in Int /\ nextIn' + lag >= 1
    BY <1>1, <1>6, <2>2, <2>3, <2>5 DEF ExpiredAlive, Interval
  <2>7. lag <= quiet BY <2>3, <2>4 DEF Watched
  <2>8. timerIn' \in Int /\ timerIn' <= expireIn /\ timerIn' + lag >= 1
    <3>1. lag \in Int /\ expireIn + lag >= 1 BY <1>1, <2>4, <2>5
    <3>2. timerIn' = IF nextIn' <= expireIn THEN nextIn' ELSE expireIn
      BY <2>4 DEF Earliest
    <3>3. CASE nextIn' <= expireIn
      <4>1. timerIn' = nextIn' BY <3>2, <3>3
      <4> QED BY <2>6, <3>3, <4>1
    <3>4. CASE ~(nextIn' <= expireIn)
      <4>1. timerIn' = expireIn BY <3>2, <3>4
      <4> QED BY <2>5, <3>1, <4>1
    <3> QED BY <3>3, <3>4
  <2>9. expireIn' # Never BY <1>1, <2>4, <2>5
  <2>10. /\ "timer" \notin pending' /\ timerIn' <= expireIn' /\ timerIn' + lag' >= 1
         /\ lag' <= quiet'
    BY <2>4, <2>7, <2>8
  <2> QED BY <2>9, <2>10, Zenon
<1>7. ASSUME NEW to \in States, Follows(to), ReadData(to) PROVE Watched'
  <2>1. /\ pending = {"io"} /\ pending' = {} /\ ~busy /\ lag' = lag /\ quiet' = lag
        /\ timeout' = timeout /\ timerIn' = timerIn /\ expireIn' = Extended /\ conn' = to
    BY <1>7 DEF ReadData, IoReady
  <2>2. attached /\ (initialized /\ timeout = 0 => initialized' /\ timeout' = 0)
    BY <1>7, <2>1 DEF Follows, initialized, attached, IInv, Attachment
  <2>3. expireIn \in Int /\ timerIn \in Int
    BY <1>1, <1>2, <2>1, <2>2 DEF Watched, timed
  <2> QED BY <1>1, <1>2, <2>1, <2>2, <2>3 DEF Watched, Extended, Patience
<1>8. CASE ReadTune
  <2>1. /\ pending = {"io"} /\ pending' = {} /\ ~busy /\ busy' = busy /\ lag' = lag
        /\ quiet' = lag /\ conn = "handshake" /\ conn' = conn
    BY <1>8 DEF ReadTune, IoReady
  <2>2. PICK t \in Timeouts :
          /\ timeout' = t
          /\ IF t = 0 THEN UNCHANGED <<nextIn, expireIn, timerIn>>
             ELSE /\ nextIn' = Interval(t) - lag /\ expireIn' = Patience(t) - lag
                  /\ timerIn' = Earliest(nextIn', expireIn')
    BY <1>8 DEF ReadTune
  <2>3. t \in Nat BY TimeAssumption
  <2>4. CASE t = 0 BY <1>1, <2>1, <2>2, <2>4 DEF Watched, attached, initialized
  <2>5. CASE t # 0 BY <1>1, <2>1, <2>2, <2>3, <2>5 DEF Watched, Interval, Patience, Earliest
  <2> QED BY <2>4, <2>5
<1>9. CASE ReadEnd BY <1>9 DEF ReadEnd, attached
<1>10. CASE UNCHANGED hbVars BY <1>10 DEF hbVars, Watched, attached, initialized
<1> QED BY <1>3, <1>4, <1>5, <1>6, <1>7, <1>8, <1>9, <1>10 DEF Next, Watched

THEOREM HeartbeatWatched == Spec => []Watched
<1>1. Init => Watched BY TimeAssumption DEF Init, Watched, attached, initialized
<1> QED BY <1>1, WatchedNext, Invariance, PTL DEF Spec
=============================================================================
