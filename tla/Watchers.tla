------------------------------- MODULE Watchers -------------------------------
(***************************************************************************)
(* How the four event loops that AMQP-CPP supports watch file descriptors  *)
(* (src/tmp_install/include/amqpcpp: libev.h, which main() uses, libuv.h,  *)
(* libevent.h and libboostasio.h), all in one thread.                      *)
(*                                                                         *)
(* The first three keep a watcher per descriptor; a loop collects the      *)
(* descriptors that are ready and calls them one after the other, and      *)
(* forgets what it has collected when a watcher is stopped.  Boost starts  *)
(* operations, each of which ends once and calls its handler: also when    *)
(* nobody wants to know any more, or its Watcher has been destroyed.       *)
(***************************************************************************)
EXTENDS Naturals, FiniteSets, Bags, BagsExt

CONSTANTS
  Handlers,      \* the classes of handlers
  Connections,
  Fds,           \* file descriptors
  Nobody,
  MaxMade,       \* bound: Watchers that Boost's handler creates
  MaxOperations  \* bound: operations of Boost's that have not been dealt with

VARIABLES
  handler,
  asked,         \* history, for each descriptor: who asked for which events last
  broken,        \* descriptors with an error
  activity,      \* the call of process() or heartbeat() that has not returned
  watchers,      \* _watchers: what is kept for each descriptor
  made,          \* how many Watchers Boost's handler has created
  armed,         \* Boost's operations that have not ended
  fired          \* what the loop has collected and still has to call

Readiness == {"readable", "writable"}
Signs     == Readiness \cup {"heartbeat"}
Flags     == Readiness \cup {"UV_READABLE", "UV_WRITABLE", "EV_PERSIST", "EV_READ", "EV_WRITE"}

ASSUME HandlersAssumption ==
  Handlers \subseteq {"LibEvHandler", "LibUvHandler", "LibEventHandler", "LibBoostAsioHandler"}

ASSUME NobodyAssumption ==
  /\ Nobody \notin [connection : Connections, events : SUBSET Signs]
  /\ Nobody \notin [connection : Connections, fd : Fds, events : SUBSET Signs]
  /\ Nobody \notin [connection : Connections, fd : Fds, events : SUBSET Signs, watcher : Nat]
  /\ Nobody \notin [connection : Connections, flags : SUBSET Flags]
  /\ Nobody \notin [id : Nat, events : SUBSET Readiness, pending : SUBSET Readiness]

watchVars == <<handler, asked, broken, activity, watchers, made, armed, fired>>

Boost == handler = "LibBoostAsioHandler"

-----------------------------------------------------------------------------
(* The flags of the loops. *)
UV == [readable |-> "UV_READABLE", writable |-> "UV_WRITABLE"]

amqp_to_uv_events(events) == {UV[e] : e \in events}

uv_to_amqp_events(status, flags) ==
  IF status # 0 THEN Readiness ELSE {e \in Readiness : UV[e] \in flags}

EV == [readable |-> "EV_READ", writable |-> "EV_WRITE"]

event_flags(events) == {"EV_PERSIST"} \cup {EV[e] : e \in events}

amqp_flags(what) == {e \in Readiness : EV[e] \in what}

-----------------------------------------------------------------------------
(* monitor() of libev, libuv and libevent.  To start, change or stop a     *)
(* watcher makes the loop forget what it has collected for it.             *)
Watch(fd, watcher) ==
  /\ watchers' = [watchers EXCEPT ![fd] = watcher]
  /\ fired' = [e \in {e \in DOMAIN fired : e.fd # fd} |-> fired[e]]
  /\ UNCHANGED <<made, armed>>

LibEvWatcher(connection, events) == [connection |-> connection, flags |-> events]

(* Each connection has a list of its own, in its Wrapper. *)
MonitorLibEv(connection, fd, events) ==
  LET found == IF watchers[fd] = Nobody THEN FALSE ELSE watchers[fd].connection = connection
  IN  IF events = {} THEN Watch(fd, IF found THEN Nobody ELSE watchers[fd])
      ELSE Watch(fd, LibEvWatcher(connection, events))

LibUvWatcher(connection, events) ==
  [connection |-> connection, flags |-> amqp_to_uv_events(events)]

LibUvChanged(watcher, events) == [watcher EXCEPT !.flags = amqp_to_uv_events(events)]

MonitorLibUv(connection, fd, events) ==
  Watch(fd, IF events = {} THEN Nobody
            ELSE IF watchers[fd] = Nobody THEN LibUvWatcher(connection, events)
            ELSE LibUvChanged(watchers[fd], events))

LibEventWatcher(connection, events) == [connection |-> connection, flags |-> event_flags(events)]

LibEventChanged(watcher, events) == [watcher EXCEPT !.flags = event_flags(events)]

MonitorLibEvent(connection, fd, events) ==
  Watch(fd, IF events = {} THEN Nobody
            ELSE IF watchers[fd] = Nobody THEN LibEventWatcher(connection, events)
            ELSE LibEventChanged(watchers[fd], events))

-----------------------------------------------------------------------------
(* Boost.  An operation holds a weak pointer to its Watcher. *)
Operation(id, connection, fd, kind) ==
  [watcher |-> id, connection |-> connection, fd |-> fd, kind |-> kind, aborted |-> FALSE]

Alive(op) == IF watchers[op.fd] = Nobody THEN FALSE ELSE watchers[op.fd].id = op.watcher

Room(n) == BagCardinality(armed) + BagCardinality(fired) + n <= MaxOperations

(* Operations that are cancelled end with an error. *)
Spared(ops) == [op \in DOMAIN armed \ ops |-> armed[op]]

Aborted(ops) ==
  [o \in {[op EXCEPT !.aborted = TRUE] : op \in ops \cap DOMAIN armed} |->
     armed[[o EXCEPT !.aborted = FALSE]]]

(* Watcher::events(): an operation is started unless one is under way. *)
Events(watcher, connection, fd, events) ==
  LET started == {Operation(watcher.id, connection, fd, kind) : kind \in events \ watcher.pending}
  IN  /\ Room(Cardinality(started))
      /\ watchers' = [watchers EXCEPT ![fd] = [watcher EXCEPT !.events = events,
                                                            !.pending = @ \cup events]]
      /\ armed' = armed (+) SetToBag(started)
      /\ UNCHANGED fired

(* The destructor cancels what is under way. *)
Destroy(fd) ==
  LET ops == {op \in DOMAIN armed : op.fd = fd}
  IN  /\ watchers' = [watchers EXCEPT ![fd] = Nobody]
      /\ armed' = Spared(ops) /\ fired' = fired (+) Aborted(ops)

MonitorBoost(connection, fd, events) ==
  IF watchers[fd] = Nobody
  THEN IF events = {} THEN UNCHANGED <<watchers, made, armed, fired>>
       ELSE /\ made < MaxMade /\ made' = made + 1
            /\ Events([id |-> made', events |-> {}, pending |-> {}], connection, fd, events)
  ELSE /\ IF events = {} THEN Destroy(fd) ELSE Events(watchers[fd], connection, fd, events)
       /\ UNCHANGED made

Start(op) == Room(1) /\ armed' = BagAdd(armed, op) /\ UNCHANGED fired

(* A timer has one end: to set it cancels what waits for the one before.   *)
StartTimer(op) ==
  /\ Room(1)
  /\ armed' = Spared({op}) (+) SetToBag({op})
  /\ fired' = fired (+) Aborted({op})

SetTimer(connection, fd) == StartTimer(Operation(watchers[fd].id, connection, fd, "heartbeat"))

(* onNegotiate(): a timer for heartbeats; the server suggests an interval. *)
Negotiate ==
  /\ Boost /\ activity # Nobody /\ "readable" \in activity.events
  /\ LET fd == activity.fd
     IN  /\ watchers[fd] # Nobody
         /\ SetTimer(activity.connection, fd)
         /\ asked' = [asked EXCEPT ![fd].events = @ \cup {"heartbeat"}]
  /\ UNCHANGED <<handler, broken, activity, watchers, made>>

-----------------------------------------------------------------------------
Owns(connection, fd) ==
  IF asked[fd] = Nobody THEN FALSE ELSE asked[fd].connection = connection

(* The call that has not returned is about this descriptor. *)
Called(fd) == IF activity = Nobody THEN FALSE ELSE activity.fd = fd

(* The connection: it may call monitor() at any time, also from process(). *)
(* A descriptor given up is closed, and not in use again before the call   *)
(* that gave it up has returned.                                           *)
Asks(connection, fd, events) ==
  /\ Owns(connection, fd) \/ (asked[fd] = Nobody /\ ~Called(fd))
  /\ asked' = [asked EXCEPT ![fd] =
                 IF events = {} THEN Nobody
                 ELSE [connection |-> connection,
                       events |-> events \cup (IF @ = Nobody THEN {} ELSE @.events \ Readiness)]]
  /\ broken' = IF events = {} THEN broken \ {fd} ELSE broken
  /\ UNCHANGED <<handler, activity>>

Monitor(connection, fd, events) ==
  /\ Asks(connection, fd, events)
  /\ CASE handler = "LibEvHandler"        -> MonitorLibEv(connection, fd, events)
       [] handler = "LibUvHandler"        -> MonitorLibUv(connection, fd, events)
       [] handler = "LibEventHandler"     -> MonitorLibEvent(connection, fd, events)
       [] handler = "LibBoostAsioHandler" -> MonitorBoost(connection, fd, events)

(* onDetached(): the Wrapper is destroyed with its watchers. *)
Detach(connection) ==
  LET own == {fd \in Fds : Owns(connection, fd)}
  IN  /\ handler = "LibEvHandler" /\ own # {}
      /\ asked' = [fd \in Fds |-> IF fd \in own THEN Nobody ELSE asked[fd]]
      /\ watchers' = [fd \in Fds |-> IF watchers[fd] = Nobody THEN Nobody
                                     ELSE IF watchers[fd].connection = connection THEN Nobody
                                     ELSE watchers[fd]]
      /\ fired' = [e \in {e \in DOMAIN fired : watchers'[e.fd] # Nobody} |-> fired[e]]
      /\ broken' = broken \ own
      /\ UNCHANGED <<handler, activity, made, armed>>

Break(fd) ==
  /\ asked[fd] # Nobody /\ fd \notin broken /\ activity = Nobody
  /\ broken' = broken \cup {fd}
  /\ UNCHANGED <<handler, asked, activity, watchers, made, armed, fired>>

-----------------------------------------------------------------------------
(* The loop finds descriptors that are ready; one with an error is ready   *)
(* for everything, and libuv stops its poll and hands the status on.       *)
Collect(fd) ==
  /\ ~Boost /\ activity = Nobody
  /\ watchers[fd] # Nobody /\ \A e \in DOMAIN fired : e.fd # fd
  /\ LET flags == watchers[fd].flags \ {"EV_PERSIST"}
         error == handler = "LibUvHandler" /\ fd \in broken
     IN  /\ flags # {}
         /\ \E ready \in (SUBSET flags) \ {{}} :
              /\ fd \in broken => ready = flags
              /\ fired' = BagAdd(fired, [fd |-> fd, status |-> IF error THEN 1 ELSE 0,
                                         flags |-> ready])
         /\ watchers' = IF error THEN [watchers EXCEPT ![fd].flags = {}] ELSE watchers
  /\ UNCHANGED <<handler, asked, broken, activity, made, armed>>

OperationEnds ==
  /\ Boost /\ activity = Nobody
  /\ \E op \in DOMAIN armed : armed' = BagRemove(armed, op) /\ fired' = BagAdd(fired, op)
  /\ UNCHANGED <<handler, asked, broken, activity, watchers, made>>

Call(connection, fd, events, id) ==
  activity' = [connection |-> connection, fd |-> fd, events |-> events, watcher |-> id]

Told(e) ==
  CASE handler = "LibEvHandler"    -> e.flags
    [] handler = "LibUvHandler"    -> uv_to_amqp_events(e.status, e.flags)
    [] handler = "LibEventHandler" -> amqp_flags(e.flags)

(* Watcher::callback(): process() of the connection it was made for. *)
Callback ==
  /\ ~Boost /\ activity = Nobody
  /\ \E e \in DOMAIN fired :
       /\ fired' = BagRemove(fired, e)
       /\ Call(watchers[e.fd].connection, e.fd, Told(e), 0)
  /\ UNCHANGED <<handler, asked, broken, watchers, made, armed>>

(* Mutant: handlers that believe what was asked when they were started. *)
HandleUnasked(op) ==
  IF ~Alive(op) \/ op.aborted THEN UNCHANGED <<activity, watchers>>
  ELSE IF op.kind = "heartbeat"
  THEN Call(op.connection, op.fd, {op.kind}, op.watcher) /\ UNCHANGED watchers
  ELSE /\ watchers' = [watchers EXCEPT ![op.fd].pending = @ \ {op.kind}]
       /\ Call(op.connection, op.fd, {op.kind}, op.watcher)

(* Mutant: handlers that leave the pending flag when nobody wants the event. *)
HandleFlagKept(op) ==
  IF ~Alive(op) \/ op.aborted THEN UNCHANGED <<activity, watchers>>
  ELSE IF op.kind = "heartbeat"
  THEN Call(op.connection, op.fd, {op.kind}, op.watcher) /\ UNCHANGED watchers
  ELSE IF op.kind \in watchers[op.fd].events
       THEN /\ watchers' = [watchers EXCEPT ![op.fd].pending = @ \ {op.kind}]
            /\ Call(op.connection, op.fd, {op.kind}, op.watcher)
       ELSE UNCHANGED <<activity, watchers>>

(* read_handler(), write_handler() and timeout_handler(), up to the call.  *)
Handle(op) ==
  IF ~Alive(op) \/ op.aborted THEN UNCHANGED <<activity, watchers>>
  ELSE IF op.kind = "heartbeat"
  THEN Call(op.connection, op.fd, {op.kind}, op.watcher) /\ UNCHANGED watchers
  ELSE /\ watchers' = [watchers EXCEPT ![op.fd].pending = @ \ {op.kind}]
       /\ IF op.kind \in watchers[op.fd].events
          THEN Call(op.connection, op.fd, {op.kind}, op.watcher)
          ELSE UNCHANGED activity

Dispatch ==
  /\ Boost /\ activity = Nobody
  /\ \E op \in DOMAIN fired : fired' = BagRemove(fired, op) /\ Handle(op)
  /\ UNCHANGED <<handler, asked, broken, made, armed>>

(* The call returns; a connection has given up a descriptor with an error. *)
(* Boost's handlers start the next operation, whatever was asked meanwhile.*)
Return ==
  /\ activity # Nobody
  /\ activity.events \cap Readiness # {} => activity.fd \notin broken
  /\ activity' = Nobody
  /\ LET kind == CHOOSE k \in activity.events : TRUE
         op   == Operation(activity.watcher, activity.connection, activity.fd, kind)
     IN  IF Boost /\ Alive(op)
         THEN /\ IF kind = "heartbeat" THEN StartTimer(op) ELSE Start(op)
              /\ watchers' = [watchers EXCEPT ![op.fd].pending = @ \cup ({kind} \cap Readiness)]
         ELSE UNCHANGED <<armed, fired, watchers>>
  /\ UNCHANGED <<handler, asked, broken, made>>

WatchInit ==
  /\ handler \in Handlers
  /\ asked = [fd \in Fds |-> Nobody] /\ broken = {} /\ activity = Nobody
  /\ watchers = [fd \in Fds |-> Nobody] /\ made = 0 /\ armed = EmptyBag /\ fired = EmptyBag

WatchNext ==
  \/ \E connection \in Connections, fd \in Fds, events \in SUBSET Readiness :
       Monitor(connection, fd, events)
  \/ Negotiate
  \/ \E connection \in Connections : Detach(connection)
  \/ \E fd \in Fds : Break(fd) \/ Collect(fd)
  \/ OperationEnds \/ Callback \/ Dispatch \/ Return

WatchSpec == WatchInit /\ [][WatchNext]_watchVars

-----------------------------------------------------------------------------
Telling == INSTANCE Monitoring WITH
  activity <- IF activity = Nobody THEN Nobody
              ELSE [connection |-> activity.connection, fd |-> activity.fd,
                    events |-> activity.events]

(* Whichever loop is used: a connection is called only while the descriptor*)
(* is its own, and for what it asked for last, although operations for what*)
(* was asked before may still be under way.                                *)
Monitors == Telling!Monitor

(* What the loop is watching for on behalf of a descriptor. *)
Watched(fd) ==
  IF watchers[fd] = Nobody THEN {}
  ELSE CASE handler = "LibEvHandler"    -> watchers[fd].flags
         [] handler = "LibUvHandler"    -> {e \in Readiness : UV[e] \in watchers[fd].flags}
         [] handler = "LibEventHandler" -> amqp_flags(watchers[fd].flags)
         [] handler = "LibBoostAsioHandler" ->
              {op.kind : op \in {o \in DOMAIN armed \cup DOMAIN fired :
                                   o.fd = fd /\ Alive(o) /\ ~o.aborted}}

(* Nothing that was asked for is forgotten: the loop watches for it, or    *)
(* the connection is being told, after which it will be watched for again. *)
(* An error that libuv has yet to report is the exception: it ends in the  *)
(* connection giving the descriptor up.                                    *)
NothingUnwatched ==
  \A fd \in Fds :
    asked[fd] # Nobody /\ ~(handler = "LibUvHandler" /\ fd \in broken) =>
      asked[fd].events \subseteq Watched(fd) \cup (IF Called(fd) THEN activity.events ELSE {})
=============================================================================
