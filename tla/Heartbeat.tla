------------------------------ MODULE Heartbeat ------------------------------
(***************************************************************************)
(* LibEvHandler::Wrapper (src/tmp_install/include/amqpcpp/libev.h): the    *)
(* timer that limits the time to connect, sends heartbeats and closes a    *)
(* connection to a silent server, inside the libev loop that also runs the *)
(* program's polls and commands.                                           *)
(*                                                                         *)
(* Time is kept relative: nextIn is _next minus the present, and so on.    *)
(* Callbacks may block, so ev_now(), the time at which the loop's present  *)
(* iteration began, lags behind the clock by lag.  A tick is half a second,*)
(* which makes _timeout * 1.5 whole.                                       *)
(***************************************************************************)
EXTENDS Integers

CONSTANTS
  ConnectTimeout,   \* ticks reserved for setting up the connection: 60 seconds
  Timeouts,         \* heartbeat timeouts, in seconds, the server may suggest
  MaxLag,           \* bound: the ticks one iteration of the loop may take
  Never             \* 0.0 in _next and _expire, and a timer that is not active

ASSUME TimeAssumption ==
  /\ ConnectTimeout \in Nat \ {0} /\ MaxLag \in Nat \ {0}
  /\ Timeouts \subseteq Nat
  /\ Never \notin Int

VARIABLES
  conn,       \* _state of ConnectionImpl
  timeout,    \* _timeout, in seconds
  nextIn, expireIn,  \* ticks until _next and _expire, or Never
  timerIn,    \* ticks until _timer is due, or Never when it is not active
  refs,       \* what the Wrapper has added to the reference count of the loop
  pending,    \* events of this iteration that still have to be handled
  busy,       \* a callback is blocked
  lag,        \* ticks since this iteration began
  pollDue,    \* the program's poll timer is due
  quiet,      \* with heartbeats: ticks since the loop's time of the last read
  unsent,     \* with heartbeats: ticks since the last one was sent
  closedBy    \* why the connection was closed: "none" while it is not

hbVars == <<conn, timeout, nextIn, expireIn, timerIn, refs, pending, busy, lag,
            pollDue, quiet, unsent, closedBy>>

States == {"protocol", "handshake", "connected", "closing", "closed"}
Events == {"timer", "poll", "io"}

initialized == conn \in {"connected", "closing", "closed"}

(* In ticks: a heartbeat every max(_timeout / 2, 1) seconds, the end after *)
(* _timeout * 1.5 seconds.                                                 *)
Interval(t) == IF t \div 2 > 1 THEN 2 * (t \div 2) ELSE 2
Patience(t) == 3 * t

Earliest(a, b) == IF a <= b THEN a ELSE b

(* A connection has its Wrapper until it is closed. *)
attached == conn # "closed"

timed == expireIn # Never \/ nextIn # Never

-----------------------------------------------------------------------------
(* The constructor: the timer runs, but must not keep the loop alive. *)
Init ==
  /\ conn = "protocol" /\ timeout = 0
  /\ nextIn = Never /\ expireIn = ConnectTimeout /\ timerIn = ConnectTimeout
  /\ refs = -1
  /\ pending = {} /\ busy = FALSE /\ lag = 0 /\ pollDue = FALSE
  /\ quiet = 0 /\ unsent = 0 /\ closedBy = "none"

Later(x) == IF x = Never THEN Never ELSE x - 1

Due == timerIn # Never /\ timerIn <= 0

(* Time passes while a callback is blocked, or while the loop has nothing  *)
(* to do; readable says that data waits on the socket.                     *)
Tick(readable) ==
  /\ IF busy THEN lag < MaxLag ELSE pending = {} /\ ~Due /\ ~pollDue /\ ~readable
  /\ lag' = IF busy THEN lag + 1 ELSE lag
  /\ nextIn' = Later(nextIn) /\ expireIn' = Later(expireIn) /\ timerIn' = Later(timerIn)
  /\ pollDue' \in IF pollDue THEN {TRUE} ELSE BOOLEAN
  /\ IF attached /\ timeout # 0 THEN quiet' = quiet + 1 /\ unsent' = unsent + 1
     ELSE UNCHANGED <<quiet, unsent>>
  /\ UNCHANGED <<conn, timeout, refs, pending, busy, closedBy>>

(* ev_run(): an iteration takes the time and collects what is due; a timer *)
(* that does not repeat is no longer active then.                          *)
Iterate(readable) ==
  /\ pending = {} /\ ~busy
  /\ Due \/ pollDue \/ readable
  /\ pending' = {e \in Events : \/ e = "timer" /\ Due
                                \/ e = "poll" /\ pollDue
                                \/ e = "io" /\ readable}
  /\ timerIn' = IF Due THEN Never ELSE timerIn
  /\ lag' = 0 /\ pollDue' = FALSE
  /\ UNCHANGED <<conn, timeout, nextIn, expireIn, refs, busy, quiet, unsent, closedBy>>

(* The program's poll timer: it may block on Liquidsoap. *)
PollTimer ==
  /\ "poll" \in pending /\ ~busy
  /\ pending' = pending \ {"poll"} /\ busy' = TRUE
  /\ UNCHANGED <<conn, timeout, nextIn, expireIn, timerIn, refs, lag, pollDue, quiet,
                 unsent, closedBy>>

Unblock ==
  /\ busy /\ busy' = FALSE
  /\ UNCHANGED <<conn, timeout, nextIn, expireIn, timerIn, refs, pending, lag, pollDue,
                 quiet, unsent, closedBy>>

-----------------------------------------------------------------------------
(* onDetached() and ~Wrapper(), given what onExpired() has left behind: the*)
(* timer is stopped and the count restored unless it was stopped already.  *)
Detach(next, expire, timer, count) ==
  IF next = Never /\ expire = Never
  THEN timerIn' = timer /\ refs' = count
  ELSE timerIn' = Never /\ refs' = count + 1

(* close(true) from the timer: the connection is gone at once. *)
CloseNow(why) ==
  /\ conn' = "closed" /\ closedBy' = why
  /\ nextIn' = Never /\ expireIn' = Never
  /\ Detach(Never, Never, timerIn, refs + 1)

(* Mutant: as below, without the reset that tells the destructor. *)
ExpiredKeepsTimes ==
  /\ timeout = 0
  /\ IF initialized
     THEN /\ refs' = refs + 1
          /\ UNCHANGED <<conn, closedBy, nextIn, expireIn, timerIn>>
     ELSE CloseNow("late")
  /\ UNCHANGED <<timeout, unsent>>

(* The connect timeout, or the one that finds heartbeats disabled. *)
ExpiredUnnegotiated ==
  /\ timeout = 0
  /\ IF initialized
     THEN /\ nextIn' = Never /\ expireIn' = Never /\ refs' = refs + 1
          /\ UNCHANGED <<conn, timerIn, closedBy>>
     ELSE CloseNow("late")
  /\ UNCHANGED <<timeout, unsent>>

ExpiredInactive ==
  /\ timeout # 0 /\ expireIn + lag <= 0
  /\ timeout' = 0
  /\ CloseNow("inactivity")
  /\ UNCHANGED unsent

(* Mutant: as below, with the next heartbeat put off for as long as the end. *)
ExpiredMixesTimes ==
  /\ timeout # 0 /\ expireIn + lag > 0
  /\ IF nextIn + lag <= 0
     THEN nextIn' = Patience(timeout) - lag /\ unsent' = 0
     ELSE UNCHANGED <<nextIn, unsent>>
  /\ timerIn' = Earliest(nextIn', expireIn)
  /\ refs' = (refs + 1) - 1
  /\ UNCHANGED <<conn, timeout, expireIn, closedBy>>

(* Mutant: as below, with the timer set again only when one was sent. *)
ExpiredSetAgainToSend ==
  /\ timeout # 0 /\ expireIn + lag > 0
  /\ IF nextIn + lag <= 0
     THEN /\ nextIn' = Interval(timeout) - lag /\ unsent' = 0
          /\ timerIn' = Earliest(nextIn', expireIn)
     ELSE UNCHANGED <<nextIn, unsent, timerIn>>
  /\ refs' = (refs + 1) - 1
  /\ UNCHANGED <<conn, timeout, expireIn, closedBy>>

(* A heartbeat if it is time for one; either way the timer is set again. *)
ExpiredAlive ==
  /\ timeout # 0 /\ expireIn + lag > 0
  /\ IF nextIn + lag <= 0
     THEN nextIn' = Interval(timeout) - lag /\ unsent' = 0
     ELSE UNCHANGED <<nextIn, unsent>>
  /\ timerIn' = Earliest(nextIn', expireIn)
  /\ refs' = (refs + 1) - 1
  /\ UNCHANGED <<conn, timeout, expireIn, closedBy>>

(* onExpired(). *)
OnExpired ==
  /\ "timer" \in pending /\ ~busy
  /\ ExpiredUnnegotiated \/ ExpiredInactive \/ ExpiredAlive
  /\ pending' = pending \ (IF conn' = "closed" THEN {"timer", "io"} ELSE {"timer"})
  /\ UNCHANGED <<busy, lag, pollDue, quiet>>

-----------------------------------------------------------------------------
(* Mutant: an onActive() that leaves the end where it is. *)
ExtendedNever == expireIn

(* onActive() on a readable socket: the server gets more time, then the    *)
(* connection processes what it reads.                                     *)
Extended == IF timeout # 0 THEN Patience(timeout) - lag ELSE expireIn

(* libev invokes the timers of an iteration first. *)
IoReady == pending = {"io"} /\ ~busy

(* What is read does not concern the timer; it may run a command. *)
ReadData(to) ==
  /\ IoReady
  /\ pending' = pending \ {"io"}
  /\ expireIn' = Extended
  /\ quiet' = lag
  /\ conn' = to
  /\ busy' \in BOOLEAN
  /\ UNCHANGED <<timeout, nextIn, timerIn, refs, lag, pollDue, unsent, closedBy>>

(* The tune frame: onNegotiate() and start(). *)
ReadTune ==
  /\ IoReady /\ conn = "handshake"
  /\ pending' = pending \ {"io"}
  /\ quiet' = lag
  /\ \E t \in Timeouts :
       /\ timeout' = t
       /\ IF t = 0 THEN UNCHANGED <<nextIn, expireIn, timerIn>>
          ELSE /\ nextIn' = Interval(t) - lag /\ expireIn' = Patience(t) - lag
               /\ timerIn' = Earliest(nextIn', expireIn')
  /\ unsent' = lag
  /\ UNCHANGED <<conn, refs, busy, lag, pollDue, closedBy>>

(* The server or the network closes the connection, which is detached. *)
ReadEnd ==
  /\ IoReady
  /\ pending' = pending \ {"io"}
  /\ conn' = "closed" /\ closedBy' = "peer"
  /\ Detach(nextIn, Extended, timerIn, refs)
  /\ nextIn' = Never /\ expireIn' = Never
  /\ UNCHANGED <<timeout, busy, lag, pollDue, quiet, unsent>>

-----------------------------------------------------------------------------
(* The order in which the handshake goes through the states. *)
Follows(to) ==
  \/ to = conn
  \/ conn = "protocol" /\ to = "handshake"
  \/ conn = "handshake" /\ to = "connected"

Next ==
  \/ \E readable \in BOOLEAN :
       /\ readable => conn # "closed"
       /\ Tick(readable) \/ Iterate(readable)
  \/ PollTimer \/ Unblock
  \/ OnExpired
  \/ \E to \in States : Follows(to) /\ ReadData(to)
  \/ ReadTune
  \/ ReadEnd

Spec == Init /\ [][Next]_hbVars

-----------------------------------------------------------------------------
TypeOK ==
  /\ conn \in States /\ timeout \in Timeouts \cup {0}
  /\ nextIn \in Int \cup {Never} /\ expireIn \in Int \cup {Never}
  /\ timerIn \in Int \cup {Never}
  /\ refs \in {-1, 0}
  /\ pending \subseteq Events /\ busy \in BOOLEAN /\ lag \in 0..MaxLag /\ pollDue \in BOOLEAN
  /\ quiet \in Nat /\ unsent \in Nat
  /\ closedBy \in {"none", "late", "inactivity", "peer"}

(* The timer never keeps the loop alive, nor ends it: its own count and    *)
(* what the Wrapper adds cancel out, on every path through onExpired(),    *)
(* start() and the destructor, and none is left when the connection is     *)
(* gone.  (While it is pending libev has stopped it already.)              *)
LoopBalanced ==
  "timer" \notin pending => refs = IF timerIn = Never THEN 0 ELSE -1

(* timed() tells the destructor whether the timer runs, and no timer is    *)
(* left that would call a destroyed Wrapper; start() finds it running.     *)
TimerKnown ==
  /\ ~attached => timerIn = Never /\ "timer" \notin pending
  /\ attached /\ "timer" \notin pending => (timed <=> timerIn # Never)
  /\ conn \in {"protocol", "handshake"} => timed

(* A heartbeat leaves in every interval, give or take the iterations that  *)
(* were blocked: one that began before it was due and the one that sends.  *)
HeartbeatsFlow ==
  attached /\ timeout # 0 => unsent < Interval(timeout) + 2 * MaxLag

(* The server is only given up when nothing was read from it for 1.5       *)
(* timeouts of the loop's time.                                            *)
ClosedOnlyAfterSilence ==
  [][closedBy' = "inactivity" /\ closedBy = "none" => quiet - lag >= Patience(timeout)]_hbVars
=============================================================================
