--------------------------- MODULE WatchersProofs ---------------------------
(***************************************************************************)
(* Proofs about Watchers: each of the four event loops keeps the promise   *)
(* of Monitoring, and forgets nothing that it was asked to watch - for any *)
(* connections and descriptors, however operations of Boost's overtake     *)
(* each other.                                                             *)
(***************************************************************************)
EXTENDS Watchers, TLAPS

-----------------------------------------------------------------------------
(* Of a bag the proofs need no more than what is in it. *)
LEMMA AddedToBag == ASSUME NEW B, NEW x PROVE DOMAIN BagAdd(B, x) = DOMAIN B \cup {x}
BY DEF BagAdd

LEMMA RemovedFromBag ==
  ASSUME NEW B, NEW x
  PROVE  /\ DOMAIN BagRemove(B, x) \subseteq DOMAIN B
         /\ DOMAIN B \ {x} \subseteq DOMAIN BagRemove(B, x)
BY DEF BagRemove

LEMMA BagsTogether == ASSUME NEW B, NEW C PROVE DOMAIN (B (+) C) = DOMAIN B \cup DOMAIN C
BY DEF (+)

LEMMA BagOfSet == ASSUME NEW S PROVE DOMAIN SetToBag(S) = S
BY DEF SetToBag

LEMMA NothingInBag == DOMAIN EmptyBag = {}
BY DEF EmptyBag, SetToBag

-----------------------------------------------------------------------------
(* The invariant. *)
Types ==
  /\ handler \in {"LibEvHandler", "LibUvHandler", "LibEventHandler", "LibBoostAsioHandler"}
  /\ asked \in [Fds -> [connection : Connections, events : SUBSET Signs] \cup {Nobody}]
  /\ activity \in [connection : Connections, fd : Fds, events : SUBSET Signs, watcher : Nat]
                    \cup {Nobody}
  /\ made \in Nat
  /\ ~Boost => watchers \in [Fds -> [connection : Connections, flags : SUBSET Flags] \cup {Nobody}]
  /\ Boost => watchers \in [Fds -> [id : Nat, events : SUBSET Readiness,
                                    pending : SUBSET Readiness] \cup {Nobody}]

(* A watcher is kept exactly for what was asked for, and matches it. *)
Keeps(fd) ==
  /\ watchers[fd] = Nobody <=> asked[fd] = Nobody
  /\ asked[fd] # Nobody =>
       /\ ~Boost => /\ asked[fd].events \subseteq Readiness
                    /\ watchers[fd].connection = asked[fd].connection
       /\ handler = "LibEvHandler" => watchers[fd].flags = asked[fd].events
       /\ handler = "LibUvHandler" => \/ watchers[fd].flags = amqp_to_uv_events(asked[fd].events)
                                      \/ watchers[fd].flags = {} /\ fd \in broken
       /\ handler = "LibEventHandler" => watchers[fd].flags = event_flags(asked[fd].events)
       /\ Boost => /\ watchers[fd].id <= made
                   /\ watchers[fd].events = asked[fd].events \cap Readiness

(* What libev, libuv and libevent have collected is still meant. *)
Meant(e) ==
  /\ e.fd \in Fds /\ asked[e.fd] # Nobody
  /\ Told(e) # {}
  /\ Told(e) \subseteq asked[e.fd].events \/ (e.fd \in broken /\ Told(e) = Readiness)

Operations == DOMAIN armed \cup DOMAIN fired

(* An operation of Boost's whose Watcher lives is its connection's own.    *)
Honest(op) ==
  /\ op \in [watcher : Nat, connection : Connections, fd : Fds, kind : Signs, aborted : BOOLEAN]
  /\ op.watcher <= made
  /\ Alive(op) => /\ asked[op.fd].connection = op.connection
                  /\ op.kind = "heartbeat" => "heartbeat" \in asked[op.fd].events

(* While a connection is being told its descriptor cannot change hands.    *)
Calling ==
  activity # Nobody =>
    /\ Boost => \E kind \in Signs : activity.events = {kind}
    /\ asked[activity.fd] # Nobody =>
         /\ asked[activity.fd].connection = activity.connection
         /\ Boost => /\ watchers[activity.fd].id = activity.watcher
                     /\ "heartbeat" \in activity.events =>
                          "heartbeat" \in asked[activity.fd].events

MInv ==
  /\ Types
  /\ \A fd \in Fds : Keeps(fd)
  /\ ~Boost => \A e \in DOMAIN fired : Meant(e)
  /\ Boost => \A op \in Operations : Honest(op)
  /\ Calling

(* Nothing is watched before anything was asked. *)
THEOREM InitMInv == WatchInit => MInv
<1> SUFFICES ASSUME WatchInit PROVE MInv OBVIOUS
<1>1. Types BY HandlersAssumption DEF WatchInit, Types
<1>2. \A fd \in Fds : Keeps(fd) BY DEF WatchInit, Keeps
<1>3. Operations = {} /\ DOMAIN fired = {} BY NothingInBag DEF WatchInit, Operations
<1>4. Calling BY DEF WatchInit, Calling
<1> QED BY <1>1, <1>2, <1>3, <1>4 DEF MInv
-----------------------------------------------------------------------------
(* What a connection asks for is recorded by everybody. *)
LEMMA AskedIsTyped ==
  ASSUME MInv, NEW connection \in Connections, NEW fd \in Fds,
         NEW events \in SUBSET Readiness, Asks(connection, fd, events)
  PROVE  /\ asked' \in [Fds -> [connection : Connections, events : SUBSET Signs] \cup {Nobody}]
         /\ \A other \in Fds \ {fd} : asked'[other] = asked[other]
         /\ events = {} => asked'[fd] = Nobody
         /\ events # {} => /\ asked'[fd] # Nobody
                           /\ asked'[fd].connection = connection
                           /\ asked'[fd].events \cap Readiness = events
                           /\ asked[fd] = Nobody => asked'[fd].events = events
                           /\ asked[fd] # Nobody =>
                                asked'[fd].events = events \cup (asked[fd].events \ Readiness)
         /\ asked[fd] # Nobody => asked[fd].connection = connection
         /\ asked[fd] = Nobody => ~Called(fd)
         /\ \A other \in Fds \ {fd} : other \in broken' <=> other \in broken
         /\ events # {} => broken' = broken
         /\ handler' = handler /\ activity' = activity
<1> DEFINE Entry == [connection |-> connection,
                     events |-> events \cup (IF asked[fd] = Nobody THEN {}
                                             ELSE asked[fd].events \ Readiness)]
<1>1. asked \in [Fds -> [connection : Connections, events : SUBSET Signs] \cup {Nobody}]
  BY DEF MInv, Types
<1>2. asked' = [asked EXCEPT ![fd] = IF events = {} THEN Nobody ELSE Entry]
  BY DEF Asks
<1>3. Entry \in [connection : Connections, events : SUBSET Signs] BY <1>1 DEF Signs
<1>4. Entry # Nobody BY <1>3, NobodyAssumption
<1>5. asked'[fd] = IF events = {} THEN Nobody ELSE Entry BY <1>1, <1>2
<1>6. /\ asked' \in [Fds -> [connection : Connections, events : SUBSET Signs] \cup {Nobody}]
      /\ \A other \in Fds \ {fd} : asked'[other] = asked[other]
  BY <1>1, <1>2, <1>3
<1>7. events # {} => /\ asked'[fd] # Nobody
                     /\ asked'[fd].connection = connection
                     /\ asked'[fd].events \cap Readiness = events
                     /\ asked[fd] = Nobody => asked'[fd].events = events
                     /\ asked[fd] # Nobody =>
                          asked'[fd].events = events \cup (asked[fd].events \ Readiness)
  BY <1>4, <1>5
<1>8. /\ asked[fd] # Nobody => asked[fd].connection = connection
      /\ asked[fd] = Nobody => ~Called(fd)
  BY DEF Asks, Owns
<1> QED BY <1>5, <1>6, <1>7, <1>8 DEF Asks

(* To ask again does not disturb a call that is under way. *)
LEMMA CallingKept ==
  ASSUME MInv, NEW connection \in Connections, NEW fd \in Fds,
         NEW events \in SUBSET Readiness, Asks(connection, fd, events),
         Boost /\ asked[fd] # Nobody /\ events # {} => watchers'[fd].id = watchers[fd].id,
         \A other \in Fds \ {fd} : watchers'[other] = watchers[other]
  PROVE  Calling'
<1>1. CASE activity = Nobody BY <1>1, AskedIsTyped DEF Calling
<1>2. CASE activity # Nobody
  <2>1. activity' = activity /\ handler' = handler /\ activity.fd \in Fds
    BY <1>2, AskedIsTyped DEF MInv, Types
  <2>2. CASE activity.fd # fd
    <3>1. asked'[activity.fd] = asked[activity.fd] /\ watchers'[activity.fd] = watchers[activity.fd]
      BY <2>1, <2>2, AskedIsTyped
    <3> QED BY <1>2, <2>1, <3>1 DEF MInv, Calling, Boost
  <2>3. CASE activity.fd = fd
    <3>1. asked[fd] # Nobody BY <1>2, <2>3, AskedIsTyped DEF Called
    <3>2. CASE events = {} BY <1>2, <2>1, <2>3, <3>2, AskedIsTyped DEF MInv, Calling, Boost
    <3>3. CASE events # {}
      <4>1. /\ asked'[fd].connection = asked[fd].connection
            /\ asked[fd].events \ Readiness \subseteq asked'[fd].events
        BY <3>1, <3>3, AskedIsTyped
      <4>2. "heartbeat" \notin Readiness BY DEF Readiness
      <4> QED BY <1>2, <2>1, <2>3, <3>1, <3>3, <4>1, <4>2 DEF MInv, Calling, Boost
    <3> QED BY <3>2, <3>3
  <2> QED BY <2>2, <2>3
<1> QED BY <1>1, <1>2

(* A loop that forgets what it has collected for a descriptor keeps the    *)
(* rest, which is as meant as before.                                      *)
LEMMA WatchKeepsMeant ==
  ASSUME MInv, ~Boost, NEW connection \in Connections, NEW fd \in Fds,
         NEW events \in SUBSET Readiness, Asks(connection, fd, events),
         NEW watcher, Watch(fd, watcher)
  PROVE  \A e \in DOMAIN fired' : Meant(e)'
<1> SUFFICES ASSUME NEW e \in DOMAIN fired' PROVE Meant(e)' OBVIOUS
<1>1. e \in DOMAIN fired /\ e.fd # fd BY DEF Watch
<1>2. Meant(e) BY <1>1 DEF MInv
<1>3. /\ asked'[e.fd] = asked[e.fd] /\ (e.fd \in broken' <=> e.fd \in broken)
      /\ handler' = handler
  BY <1>1, <1>2, AskedIsTyped DEF Meant
<1> QED BY <1>2, <1>3 DEF Meant, Told

(* A call of monitor() in the three loops that keep flags. *)
LEMMA WatchInv ==
  ASSUME MInv, ~Boost, NEW connection \in Connections, NEW fd \in Fds,
         NEW events \in SUBSET Readiness, Asks(connection, fd, events),
         NEW watcher, Watch(fd, watcher),
         watcher \in [connection : Connections, flags : SUBSET Flags] \cup {Nobody},
         watcher = Nobody <=> events = {},
         events # {} =>
           /\ watcher.connection = connection
           /\ handler = "LibEvHandler" => watcher.flags = events
           /\ handler = "LibUvHandler" => watcher.flags = amqp_to_uv_events(events)
           /\ handler = "LibEventHandler" => watcher.flags = event_flags(events)
  PROVE  MInv'
<1>1. /\ watchers \in [Fds -> [connection : Connections, flags : SUBSET Flags] \cup {Nobody}]
      /\ watchers' = [watchers EXCEPT ![fd] = watcher] /\ made' = made /\ armed' = armed
  BY DEF MInv, Types, Watch
<1>2. handler' = handler /\ activity' = activity /\ ~Boost' BY AskedIsTyped DEF Boost
<1>3. /\ watchers'[fd] = watcher
      /\ \A other \in Fds \ {fd} : watchers'[other] = watchers[other]
      /\ watchers' \in [Fds -> [connection : Connections, flags : SUBSET Flags] \cup {Nobody}]
  BY <1>1
<1>4. Types' BY <1>1, <1>2, <1>3, AskedIsTyped DEF MInv, Types
<1>5. asked[fd] # Nobody => asked[fd].events \subseteq Readiness BY DEF MInv, Keeps
<1>6. Keeps(fd)'
  <2>1. CASE events = {} BY <1>3, <2>1, AskedIsTyped DEF Keeps
  <2>2. CASE events # {}
    <3>1. asked[fd] # Nobody => events \cup (asked[fd].events \ Readiness) = events BY <1>5
    <3>2. asked'[fd] # Nobody /\ asked'[fd].connection = connection /\ asked'[fd].events = events
      BY <2>2, <3>1, AskedIsTyped, ZenonT(40)
    <3> QED BY <1>2, <1>3, <2>2, <3>2 DEF Keeps
  <2> QED BY <2>1, <2>2
<1>7. \A other \in Fds : Keeps(other)'
  <2> SUFFICES ASSUME NEW other \in Fds, other # fd PROVE Keeps(other)' BY <1>6
  <2>1. Keeps(other) BY DEF MInv
  <2>2. /\ asked'[other] = asked[other] /\ watchers'[other] = watchers[other]
        /\ (other \in broken' <=> other \in broken)
    BY <1>3, AskedIsTyped
  <2> QED BY <1>2, <2>1, <2>2 DEF Keeps
<1>8. Calling' BY <1>3, CallingKept
<1>9. \A e \in DOMAIN fired' : Meant(e)' BY WatchKeepsMeant
<1> QED BY <1>2, <1>4, <1>7, <1>8, <1>9 DEF MInv

(* monitor() of LibEvHandler, LibUvHandler and LibEventHandler. *)
LEMMA MonitorInv ==
  ASSUME MInv, ~Boost, NEW connection \in Connections, NEW fd \in Fds,
         NEW events \in SUBSET Readiness, Monitor(connection, fd, events)
  PROVE  MInv'
<1>1. Asks(connection, fd, events) BY DEF Monitor
<1>2. /\ asked[fd] # Nobody => asked[fd].connection = connection
      /\ watchers[fd] = Nobody <=> asked[fd] = Nobody
      /\ watchers[fd] # Nobody => /\ watchers[fd].connection = connection
                                  /\ watchers[fd] \in [connection : Connections, flags : SUBSET Flags]
  BY <1>1, AskedIsTyped DEF MInv, Keeps, Types
<1>3. \A f \in SUBSET Flags :
        /\ [connection |-> connection, flags |-> f] \in [connection : Connections, flags : SUBSET Flags]
        /\ [connection |-> connection, flags |-> f] # Nobody
  BY NobodyAssumption
<1>4. /\ events \in SUBSET Flags /\ amqp_to_uv_events(events) \in SUBSET Flags
      /\ event_flags(events) \in SUBSET Flags
  <2>1. \A e \in Readiness : UV[e] \in Flags /\ EV[e] \in Flags BY DEF Flags, Readiness, UV, EV
  <2>2. Readiness \subseteq Flags /\ "EV_PERSIST" \in Flags BY DEF Flags
  <2> QED BY <2>1, <2>2 DEF amqp_to_uv_events, event_flags
<1>5. CASE handler = "LibEvHandler"
  <2> DEFINE watcher == IF events = {} THEN Nobody ELSE LibEvWatcher(connection, events)
  <2>1. Watch(fd, watcher) BY <1>2, <1>5 DEF Monitor, MonitorLibEv
  <2> QED BY <1>1, <1>3, <1>4, <1>5, <2>1, WatchInv DEF LibEvWatcher
<1>6. CASE handler = "LibUvHandler"
  <2> DEFINE watcher == IF events = {} THEN Nobody ELSE LibUvWatcher(connection, events)
  <2>1. watchers[fd] # Nobody => LibUvChanged(watchers[fd], events) = LibUvWatcher(connection, events)
    BY <1>2 DEF LibUvChanged, LibUvWatcher
  <2>2. Watch(fd, watcher) BY <1>2, <1>6, <2>1 DEF Monitor, MonitorLibUv
  <2> QED BY <1>1, <1>3, <1>4, <1>6, <2>2, WatchInv DEF LibUvWatcher
<1>7. CASE handler = "LibEventHandler"
  <2> DEFINE watcher == IF events = {} THEN Nobody ELSE LibEventWatcher(connection, events)
  <2>1. watchers[fd] # Nobody =>
          LibEventChanged(watchers[fd], events) = LibEventWatcher(connection, events)
    BY <1>2 DEF LibEventChanged, LibEventWatcher
  <2>2. Watch(fd, watcher) BY <1>2, <1>7, <2>1 DEF Monitor, MonitorLibEvent
  <2> QED BY <1>1, <1>3, <1>4, <1>7, <2>2, WatchInv DEF LibEventWatcher
<1> QED BY <1>5, <1>6, <1>7 DEF MInv, Types, Boost
-----------------------------------------------------------------------------
(* A connection that goes away takes its watchers with it, and no others.  *)
LEMMA DetachInv ==
  ASSUME MInv, NEW connection \in Connections, Detach(connection) PROVE MInv'
<1> DEFINE own == {fd \in Fds : Owns(connection, fd)}
           Entry == [connection : Connections, events : SUBSET Signs]
           Watcher == [connection : Connections, flags : SUBSET Flags]
<1>1. /\ handler = "LibEvHandler" /\ handler' = handler /\ activity' = activity /\ made' = made
      /\ broken' = broken \ own
      /\ asked' = [fd \in Fds |-> IF fd \in own THEN Nobody ELSE asked[fd]]
      /\ watchers' = [fd \in Fds |-> IF watchers[fd] = Nobody THEN Nobody
                                     ELSE IF watchers[fd].connection = connection THEN Nobody
                                     ELSE watchers[fd]]
      /\ fired' = [e \in {e \in DOMAIN fired : watchers'[e.fd] # Nobody} |-> fired[e]]
  BY DEF Detach
<1>2. ~Boost /\ ~Boost' BY <1>1 DEF Boost
<1>3. asked \in [Fds -> Entry \cup {Nobody}] /\ watchers \in [Fds -> Watcher \cup {Nobody}]
  BY <1>2 DEF MInv, Types
<1>4. asked' \in [Fds -> Entry \cup {Nobody}] /\ watchers' \in [Fds -> Watcher \cup {Nobody}]
  BY <1>1, <1>3
<1>5. \A fd \in Fds :
        IF fd \in own THEN asked'[fd] = Nobody /\ watchers'[fd] = Nobody
        ELSE asked'[fd] = asked[fd] /\ watchers'[fd] = watchers[fd]
  <2> SUFFICES ASSUME NEW fd \in Fds
               PROVE  IF fd \in own THEN asked'[fd] = Nobody /\ watchers'[fd] = Nobody
                      ELSE asked'[fd] = asked[fd] /\ watchers'[fd] = watchers[fd]
    OBVIOUS
  <2>1. Keeps(fd) BY DEF MInv
  <2>2. fd \in own <=> asked[fd] # Nobody /\ asked[fd].connection = connection BY DEF Owns
  <2>3. fd \in own <=> watchers[fd] # Nobody /\ watchers[fd].connection = connection
    BY <1>2, <2>1, <2>2 DEF Keeps
  <2>4. watchers'[fd] = IF watchers[fd] = Nobody THEN Nobody
                        ELSE IF watchers[fd].connection = connection THEN Nobody ELSE watchers[fd]
    BY <1>1
  <2> QED BY <1>1, <2>3, <2>4
<1>6. Types' BY <1>1, <1>2, <1>4 DEF MInv, Types
<1>7. \A fd \in Fds : Keeps(fd)'
  BY <1>1, <1>2, <1>5 DEF MInv, Keeps
<1>8. \A e \in DOMAIN fired' : Meant(e)'
  <2> SUFFICES ASSUME NEW e \in DOMAIN fired' PROVE Meant(e)' OBVIOUS
  <2>1. e \in DOMAIN fired /\ watchers'[e.fd] # Nobody BY <1>1
  <2>2. Meant(e) BY <1>2, <2>1 DEF MInv
  <2>3. e.fd \in Fds BY <2>2 DEF Meant
  <2>4. asked'[e.fd] = asked[e.fd] /\ e.fd \notin own BY <1>5, <2>1, <2>3
  <2> QED BY <1>1, <2>2, <2>4 DEF Meant, Told
<1>9. Calling'
  <2> SUFFICES ASSUME activity # Nobody, asked'[activity.fd] # Nobody
               PROVE  asked'[activity.fd].connection = activity.connection
    BY <1>1, <1>2 DEF Calling
  <2>1. activity.fd \in Fds BY DEF MInv, Types
  <2>2. asked'[activity.fd] = asked[activity.fd] BY <1>5, <2>1
  <2> QED BY <2>2 DEF MInv, Calling
<1> QED BY <1>2, <1>6, <1>7, <1>8, <1>9 DEF MInv

LEMMA BreakInv == ASSUME MInv, NEW fd \in Fds, Break(fd) PROVE MInv'
<1>1. /\ handler' = handler /\ asked' = asked /\ activity' = activity /\ watchers' = watchers
      /\ made' = made /\ armed' = armed /\ fired' = fired /\ broken \subseteq broken'
  BY DEF Break
<1>2. Types' BY <1>1 DEF MInv, Types, Boost
<1>3. \A other \in Fds : Keeps(other)' BY <1>1 DEF MInv, Keeps, Boost
<1>4. ~Boost => \A e \in DOMAIN fired : Meant(e)' BY <1>1 DEF MInv, Meant, Told
<1>5. Boost => \A op \in Operations : Honest(op)' BY <1>1 DEF MInv, Honest, Alive
<1>6. Calling' BY <1>1 DEF MInv, Calling, Boost
<1> QED BY <1>1, <1>2, <1>3, <1>4, <1>5, <1>6 DEF MInv, Boost, Operations

(* What the loop finds ready, it was asked to watch. *)
LEMMA CollectInv == ASSUME MInv, NEW fd \in Fds, Collect(fd) PROVE MInv'
<1> DEFINE error == handler = "LibUvHandler" /\ fd \in broken
           flags == watchers[fd].flags \ {"EV_PERSIST"}
           Watcher == [connection : Connections, flags : SUBSET Flags]
<1>0. PICK ready \in (SUBSET flags) \ {{}} :
        fired' = BagAdd(fired, [fd |-> fd, status |-> IF error THEN 1 ELSE 0, flags |-> ready])
  BY DEF Collect
<1>1. PICK event :
        /\ event = [fd |-> fd, status |-> IF error THEN 1 ELSE 0, flags |-> ready]
        /\ fired' = BagAdd(fired, event)
  BY <1>0
<1>2. /\ ~Boost /\ activity = Nobody /\ watchers[fd] # Nobody
      /\ handler' = handler /\ asked' = asked /\ broken' = broken /\ activity' = activity
      /\ made' = made
      /\ watchers' = IF error THEN [watchers EXCEPT ![fd].flags = {}] ELSE watchers
  BY DEF Collect
<1>3. watchers \in [Fds -> Watcher \cup {Nobody}] BY <1>2 DEF MInv, Types
<1>4. watchers[fd] \in Watcher /\ asked[fd] # Nobody BY <1>2, <1>3 DEF MInv, Keeps
<1>5. error => /\ watchers' \in [Fds -> Watcher \cup {Nobody}]
               /\ watchers'[fd] # Nobody /\ watchers'[fd].flags = {}
               /\ watchers'[fd].connection = watchers[fd].connection
               /\ \A other \in Fds \ {fd} : watchers'[other] = watchers[other]
  <2> SUFFICES ASSUME error
               PROVE  /\ watchers' \in [Fds -> Watcher \cup {Nobody}]
                      /\ watchers'[fd] # Nobody /\ watchers'[fd].flags = {}
                      /\ watchers'[fd].connection = watchers[fd].connection
                      /\ \A other \in Fds \ {fd} : watchers'[other] = watchers[other]
    OBVIOUS
  <2>1. watchers' = [watchers EXCEPT ![fd] = [watchers[fd] EXCEPT !.flags = {}]] BY <1>2
  <2>2. [watchers[fd] EXCEPT !.flags = {}] \in Watcher BY <1>4
  <2>3. [watchers[fd] EXCEPT !.flags = {}] # Nobody BY <2>2, NobodyAssumption
  <2>4. /\ [watchers[fd] EXCEPT !.flags = {}].flags = {}
        /\ [watchers[fd] EXCEPT !.flags = {}].connection = watchers[fd].connection
    BY <1>4
  <2> QED BY <1>3, <2>1, <2>2, <2>3, <2>4
<1>6. Types' BY <1>2, <1>3, <1>5 DEF MInv, Types, Boost
<1>7. \A other \in Fds : Keeps(other)'
  <2>1. CASE ~error BY <1>2, <2>1 DEF MInv, Keeps, Boost
  <2>2. CASE error
    <3>1. Keeps(fd)' BY <1>2, <1>4, <1>5, <2>2 DEF MInv, Keeps, Boost
    <3>2. ASSUME NEW other \in Fds \ {fd} PROVE Keeps(other)'
      BY <1>2, <1>5, <2>2 DEF MInv, Keeps, Boost
    <3> QED BY <3>1, <3>2
  <2> QED BY <2>1, <2>2
<1>8. Meant(event)'
  <2>1. Keeps(fd) BY DEF MInv
  <2>2. Told(event) # {} /\ (\/ Told(event) \subseteq asked[fd].events
                             \/ fd \in broken /\ Told(event) = Readiness)
    <3>1. CASE handler = "LibEvHandler"
      <4>1. Told(event) = ready BY <1>1, <3>1 DEF Told
      <4> QED BY <2>1, <1>1, <1>4, <3>1, <4>1 DEF Keeps
    <3>2. CASE error
      <4>1. event.status # 0 BY <1>1, <3>2
      <4>2. Told(event) = Readiness BY <3>2, <4>1 DEF Told, uv_to_amqp_events
      <4> QED BY <3>2, <4>2 DEF Readiness
    <3>3. CASE handler = "LibUvHandler" /\ ~error
      <4>1. event.status = 0 BY <1>1, <3>3
      <4>2. Told(event) = {e \in Readiness : UV[e] \in ready}
        BY <1>1, <3>3, <4>1 DEF Told, uv_to_amqp_events
      <4>3. watchers[fd].flags = {UV[e] : e \in asked[fd].events} /\ asked[fd].events \subseteq Readiness
        BY <1>2, <1>4, <2>1, <3>3 DEF Keeps, amqp_to_uv_events
      <4>4. \A e, f \in Readiness : UV[e] = UV[f] => e = f BY DEF Readiness, UV
      <4>5. ready # {} /\ \A f \in ready : \E e \in asked[fd].events : f = UV[e] BY <1>1, <4>3
      <4> QED BY <4>2, <4>3, <4>4, <4>5
    <3>4. CASE handler = "LibEventHandler"
      <4>1. Told(event) = {e \in Readiness : EV[e] \in ready} BY <1>1, <3>4 DEF Told, amqp_flags
      <4>2. /\ watchers[fd].flags = {"EV_PERSIST"} \cup {EV[e] : e \in asked[fd].events}
            /\ asked[fd].events \subseteq Readiness
        BY <1>2, <1>4, <2>1, <3>4 DEF Keeps, event_flags
      <4>3. \A e, f \in Readiness : EV[e] = EV[f] => e = f BY DEF Readiness, EV
      <4>4. ready # {} /\ \A f \in ready : \E e \in asked[fd].events : f = EV[e] BY <1>1, <4>2
      <4> QED BY <4>1, <4>2, <4>3, <4>4
    <3> QED BY <1>2, <3>1, <3>2, <3>3, <3>4 DEF MInv, Types, Boost
  <2> QED BY <1>1, <1>2, <1>4, <2>2 DEF Meant, Told
<1>9. \A e \in DOMAIN fired' : Meant(e)'
  <2>1. DOMAIN fired' = DOMAIN fired \cup {event} BY <1>1, AddedToBag
  <2>2. \A e \in DOMAIN fired : Meant(e)' BY <1>2 DEF MInv, Meant, Told
  <2> QED BY <1>8, <2>1, <2>2
<1>10. Calling' BY <1>2 DEF Calling
<1> QED BY <1>2, <1>6, <1>7, <1>9, <1>10 DEF MInv, Boost

(* The connection that is called is the one that asked. *)
LEMMA CallbackCalls ==
  ASSUME MInv, NEW e \in DOMAIN fired, Callback,
         fired' = BagRemove(fired, e), Call(watchers[e.fd].connection, e.fd, Told(e), 0)
  PROVE  /\ e.fd \in Fds /\ asked[e.fd] # Nobody /\ activity = Nobody /\ ~Boost
         /\ activity' = [connection |-> asked[e.fd].connection, fd |-> e.fd,
                         events |-> Told(e), watcher |-> 0]
         /\ activity' \in [connection : Connections, fd : Fds, events : SUBSET Signs, watcher : Nat]
         /\ Told(e) \subseteq Signs /\ activity' # Nobody
<1>1. ~Boost /\ activity = Nobody BY DEF Callback
<1>2. Meant(e) BY <1>1 DEF MInv
<1>3. Keeps(e.fd) /\ asked[e.fd] \in [connection : Connections, events : SUBSET Signs]
  BY <1>2 DEF Meant, MInv, Types
<1>4. watchers[e.fd].connection = asked[e.fd].connection BY <1>1, <1>2, <1>3 DEF Keeps, Meant
<1>5. Told(e) \subseteq Signs BY <1>2, <1>3 DEF Meant, Signs
<1>6. activity' = [connection |-> asked[e.fd].connection, fd |-> e.fd,
                   events |-> Told(e), watcher |-> 0]
  BY <1>4 DEF Call
<1>7. activity' \in [connection : Connections, fd : Fds, events : SUBSET Signs, watcher : Nat]
  BY <1>2, <1>3, <1>5, <1>6 DEF Meant
<1> QED BY <1>1, <1>2, <1>5, <1>6, <1>7, NobodyAssumption DEF Meant

LEMMA CallbackInv == ASSUME MInv, Callback PROVE MInv'
<1>1. PICK e \in DOMAIN fired :
        fired' = BagRemove(fired, e) /\ Call(watchers[e.fd].connection, e.fd, Told(e), 0)
  BY DEF Callback
<1>2. /\ handler' = handler /\ asked' = asked /\ broken' = broken /\ watchers' = watchers
      /\ made' = made
  BY DEF Callback
<1>3. ~Boost /\ ~Boost' BY <1>2 DEF Callback, Boost
<1>4. Types' BY <1>1, <1>2, <1>3, CallbackCalls DEF MInv, Types
<1>5. \A fd \in Fds : Keeps(fd)' BY <1>2 DEF MInv, Keeps, Boost
<1>6. \A x \in DOMAIN fired' : Meant(x)'
  BY <1>1, <1>2, <1>3, RemovedFromBag DEF MInv, Meant, Told
<1>7. Calling' BY <1>1, <1>2, <1>3, CallbackCalls DEF Calling
<1> QED BY <1>3, <1>4, <1>5, <1>6, <1>7 DEF MInv

LEMMA ReturnInv == ASSUME MInv, ~Boost, Return PROVE MInv'
<1>1. /\ handler' = handler /\ asked' = asked /\ broken' = broken /\ watchers' = watchers
      /\ made' = made /\ fired' = fired /\ activity' = Nobody
  BY DEF Return
<1>2. Types' BY <1>1 DEF MInv, Types, Boost
<1>3. \A fd \in Fds : Keeps(fd)' BY <1>1 DEF MInv, Keeps, Boost
<1>4. \A e \in DOMAIN fired : Meant(e)' BY <1>1 DEF MInv, Meant, Told
<1> QED BY <1>1, <1>2, <1>3, <1>4 DEF MInv, Boost, Calling
-----------------------------------------------------------------------------
(* Boost's operations. *)
OperationSet ==
  [watcher : Nat, connection : Connections, fd : Fds, kind : Signs, aborted : BOOLEAN]

Watcher == [id : Nat, events : SUBSET Readiness, pending : SUBSET Readiness]

(* Cancelling moves operations from the one bag to the other and marks them.*)
LEMMA Cancelled ==
  ASSUME NEW ops
  PROVE  /\ DOMAIN Spared(ops) = DOMAIN armed \ ops
         /\ DOMAIN (fired (+) Aborted(ops)) =
              DOMAIN fired \cup {[op EXCEPT !.aborted = TRUE] : op \in ops \cap DOMAIN armed}
<1>1. DOMAIN Spared(ops) = DOMAIN armed \ ops BY DEF Spared
<1>2. DOMAIN Aborted(ops) = {[op EXCEPT !.aborted = TRUE] : op \in ops \cap DOMAIN armed}
  BY DEF Aborted
<1> QED BY <1>1, <1>2, BagsTogether

(* What is started is under way, with all that was, cancelled or not. *)
LEMMA Launched ==
  ASSUME NEW op, StartTimer(op) \/ Start(op)
  PROVE  /\ Operations \cup {op} \subseteq Operations'
         /\ \A x \in Operations' :
              x = op \/ \E was \in Operations : x \in {was, [was EXCEPT !.aborted = TRUE]}
<1>1. CASE StartTimer(op)
  <2>1. DOMAIN armed' = (DOMAIN armed \ {op}) \cup {op}
    <3>1. DOMAIN Spared({op}) = DOMAIN armed \ {op} BY Cancelled
    <3>2. DOMAIN SetToBag({op}) = {op} BY BagOfSet
    <3>3. DOMAIN armed' = DOMAIN Spared({op}) \cup DOMAIN SetToBag({op})
      BY <1>1, BagsTogether DEF StartTimer
    <3> QED BY <3>1, <3>2, <3>3
  <2>2. DOMAIN fired' = DOMAIN fired \cup {[o EXCEPT !.aborted = TRUE] : o \in {op} \cap DOMAIN armed}
    BY <1>1, Cancelled DEF StartTimer
  <2> QED BY <2>1, <2>2 DEF Operations
<1>2. CASE Start(op)
  <2>1. DOMAIN armed' = DOMAIN armed \cup {op} BY <1>2, AddedToBag DEF Start
  <2>2. fired' = fired BY <1>2 DEF Start
  <2> QED BY <2>1, <2>2 DEF Operations
<1> QED BY <1>1, <1>2

(* An operation remains its connection's own when it is cancelled, when the*)
(* other descriptors change and when its own only hears of more.           *)
LEMMA HonestRemains ==
  ASSUME NEW op, Honest(op), made \in Nat, made' \in Nat, made <= made',
         NEW x \in {op, [op EXCEPT !.aborted = TRUE]},
         Alive(op)' => /\ Alive(op) /\ asked'[op.fd].connection = asked[op.fd].connection
                       /\ "heartbeat" \in asked[op.fd].events =>
                            "heartbeat" \in asked'[op.fd].events
  PROVE  Honest(x)'
<1>1. op \in OperationSet BY DEF Honest, OperationSet
<1>2. /\ x \in OperationSet /\ x.watcher = op.watcher /\ x.connection = op.connection
      /\ x.fd = op.fd /\ x.kind = op.kind
  BY <1>1 DEF OperationSet
<1>3. x.watcher <= made' BY <1>1, <1>2 DEF Honest, OperationSet
<1>4. Alive(x)' <=> Alive(op)' BY <1>2 DEF Alive
<1> QED BY <1>2, <1>3, <1>4 DEF Honest, OperationSet

LEMMA EventsInv ==
  ASSUME MInv, Boost, NEW connection \in Connections, NEW fd \in Fds,
         NEW events \in SUBSET Readiness, Asks(connection, fd, events), events # {},
         NEW watcher \in Watcher, Events(watcher, connection, fd, events),
         made' \in Nat, made <= made', watcher.id <= made',
         asked[fd] # Nobody => watcher.id = watchers[fd].id,
         asked[fd] = Nobody => watcher.id > made
  PROVE  MInv'
<1> DEFINE started == {Operation(watcher.id, connection, fd, kind) : kind \in events \ watcher.pending}
           new == [watcher EXCEPT !.events = events, !.pending = @ \cup events]
<1>1. /\ watchers \in [Fds -> Watcher \cup {Nobody}] /\ made \in Nat /\ handler' = handler
      /\ activity' = activity /\ Boost'
  BY AskedIsTyped DEF MInv, Types, Watcher, Boost
<1>2. /\ watchers' = [watchers EXCEPT ![fd] = new]
      /\ armed' = armed (+) SetToBag(started) /\ fired' = fired
  BY DEF Events
<1>3. /\ new \in Watcher /\ new.id = watcher.id /\ new.events = events /\ new # Nobody
      /\ new.pending = watcher.pending \cup events
  <2>1. /\ new \in Watcher /\ new.id = watcher.id /\ new.events = events
        /\ new.pending = watcher.pending \cup events
    BY DEF Watcher
  <2> QED BY <2>1, NobodyAssumption DEF Watcher
<1>4. /\ watchers' \in [Fds -> Watcher \cup {Nobody}] /\ watchers'[fd] = new
      /\ \A other \in Fds \ {fd} : watchers'[other] = watchers[other]
  BY <1>1, <1>2, <1>3
<1>5. Types' BY <1>1, <1>4, AskedIsTyped DEF MInv, Types, Watcher
<1>6. \A other \in Fds : Keeps(other)'
  <2>1. Keeps(fd)' BY <1>1, <1>3, <1>4, AskedIsTyped DEF Keeps, Boost
  <2>2. ASSUME NEW other \in Fds \ {fd} PROVE Keeps(other)'
    <3>1. Keeps(other) BY DEF MInv
    <3>2. asked'[other] = asked[other] /\ watchers'[other] = watchers[other]
      BY <1>4, AskedIsTyped
    <3>3. asked[other] # Nobody => watchers[other].id \in Nat BY <1>1, <3>1 DEF Keeps, Watcher
    <3> QED BY <1>1, <3>1, <3>2, <3>3 DEF Keeps, Boost
  <2> QED BY <2>1, <2>2
<1>7. Operations' = Operations \cup started
  <2>1. DOMAIN armed' = DOMAIN armed \cup started BY <1>2, BagsTogether, BagOfSet
  <2> QED BY <1>2, <2>1 DEF Operations
<1>8. ASSUME NEW op \in started PROVE Honest(op)'
  <2>1. PICK kind \in events : op = Operation(watcher.id, connection, fd, kind) BY <1>8
  <2>2. watcher.id \in Nat /\ kind \in Signs /\ kind # "heartbeat" BY DEF Watcher, Readiness, Signs
  <2>3. op \in OperationSet /\ op.watcher = watcher.id /\ op.connection = connection
        /\ op.fd = fd /\ op.kind = kind
    BY <2>1, <2>2 DEF Operation, OperationSet
  <2> QED BY <2>2, <2>3, AskedIsTyped DEF Honest, OperationSet
<1>9. ASSUME NEW op \in Operations PROVE Honest(op)'
  <2>1. Honest(op) BY DEF MInv
  <2>2. op.fd \in Fds /\ op.watcher \in Nat /\ op.watcher <= made BY <2>1 DEF Honest
  <2>3. CASE op.fd # fd
    <3>1. asked'[op.fd] = asked[op.fd] /\ watchers'[op.fd] = watchers[op.fd]
      BY <1>4, <2>2, <2>3, AskedIsTyped
    <3> QED BY <1>1, <2>1, <3>1, HonestRemains DEF Alive
  <2>4. CASE op.fd = fd
    <3>1. Alive(op)' => op.watcher = watcher.id BY <1>3, <1>4, <2>4 DEF Alive
    <3>2. asked[fd] = Nobody => ~Alive(op)' BY <1>1, <2>2, <3>1 DEF Watcher
    <3>3. asked[fd] # Nobody => (Alive(op)' => Alive(op))
      BY <2>4, <3>1 DEF MInv, Keeps, Alive
    <3>4. asked[fd] # Nobody => /\ asked'[fd].connection = asked[fd].connection
                                /\ asked[fd].events \ Readiness \subseteq asked'[fd].events
      BY AskedIsTyped
    <3>5. "heartbeat" \notin Readiness BY DEF Readiness
    <3> QED BY <1>1, <2>1, <2>4, <3>2, <3>3, <3>4, <3>5, HonestRemains
  <2> QED BY <2>3, <2>4
<1>10. Calling' BY <1>3, <1>4, CallingKept
<1> QED BY <1>1, <1>5, <1>6, <1>7, <1>8, <1>9, <1>10 DEF MInv

(* A Watcher that is destroyed leaves operations that are not alive.       *)
LEMMA DestroyInv ==
  ASSUME MInv, Boost, NEW connection \in Connections, NEW fd \in Fds,
         Asks(connection, fd, {}), Destroy(fd), made' = made
  PROVE  MInv'
<1> DEFINE ops == {op \in DOMAIN armed : op.fd = fd}
<1>1. /\ watchers \in [Fds -> Watcher \cup {Nobody}] /\ made \in Nat /\ handler' = handler
      /\ activity' = activity /\ Boost'
  BY AskedIsTyped DEF MInv, Types, Watcher, Boost
<1>2. watchers' = [watchers EXCEPT ![fd] = Nobody] /\ armed' = Spared(ops)
      /\ fired' = fired (+) Aborted(ops)
  BY DEF Destroy
<1>3. /\ watchers' \in [Fds -> Watcher \cup {Nobody}] /\ watchers'[fd] = Nobody
      /\ \A other \in Fds \ {fd} : watchers'[other] = watchers[other]
  BY <1>1, <1>2
<1>4. Types' BY <1>1, <1>3, AskedIsTyped DEF MInv, Types, Watcher
<1>5. \A other \in Fds : Keeps(other)'
  <2>1. Keeps(fd)' BY <1>3, AskedIsTyped DEF Keeps
  <2>2. ASSUME NEW other \in Fds \ {fd} PROVE Keeps(other)'
    BY <1>1, <1>3, AskedIsTyped DEF MInv, Keeps, Boost
  <2> QED BY <2>1, <2>2
<1>6. \A op \in Operations' : \E was \in Operations : op \in {was, [was EXCEPT !.aborted = TRUE]}
  <2>1. DOMAIN armed' \subseteq DOMAIN armed BY <1>2, Cancelled
  <2>2. DOMAIN fired' = DOMAIN fired \cup {[op EXCEPT !.aborted = TRUE] : op \in ops \cap DOMAIN armed}
    BY <1>2, Cancelled
  <2> QED BY <2>1, <2>2 DEF Operations
<1>7. ASSUME NEW op \in Operations' PROVE Honest(op)'
  <2>1. PICK was \in Operations : op \in {was, [was EXCEPT !.aborted = TRUE]} BY <1>6
  <2>2. Honest(was) BY DEF MInv
  <2>3. was.fd \in Fds BY <2>2 DEF Honest
  <2>4. was.fd = fd => ~Alive(was)' BY <1>3 DEF Alive
  <2>5. was.fd # fd => asked'[was.fd] = asked[was.fd] /\ watchers'[was.fd] = watchers[was.fd]
    BY <1>3, <2>3, AskedIsTyped
  <2>6. Alive(was)' => Alive(was) /\ asked'[was.fd] = asked[was.fd]
    BY <2>4, <2>5 DEF Alive
  <2>7. made' \in Nat /\ made <= made' BY <1>1
  <2> QED BY <1>1, <2>1, <2>2, <2>6, <2>7, HonestRemains
<1>8. Calling' BY <1>3, CallingKept
<1> QED BY <1>1, <1>4, <1>5, <1>7, <1>8 DEF MInv

LEMMA MonitorBoostInv ==
  ASSUME MInv, Boost, NEW connection \in Connections, NEW fd \in Fds,
         NEW events \in SUBSET Readiness, Monitor(connection, fd, events)
  PROVE  MInv'
<1>1. Asks(connection, fd, events) /\ MonitorBoost(connection, fd, events)
  BY DEF Monitor, Boost
<1>2. /\ made \in Nat /\ watchers \in [Fds -> Watcher \cup {Nobody}]
      /\ watchers[fd] = Nobody <=> asked[fd] = Nobody
      /\ watchers[fd] # Nobody => watchers[fd].id <= made /\ watchers[fd] \in Watcher
  BY DEF MInv, Types, Keeps, Watcher
<1>3. CASE watchers[fd] = Nobody /\ events = {}
  <2>1. /\ watchers' = watchers /\ made' = made /\ armed' = armed /\ fired' = fired
        /\ handler' = handler /\ activity' = activity
    BY <1>1, <1>3, AskedIsTyped DEF MonitorBoost
  <2>2. asked' = asked BY <1>1, <1>2, <1>3, AskedIsTyped DEF MInv, Types
  <2>3. Types' BY <2>1, <2>2 DEF MInv, Types, Boost
  <2>4. \A other \in Fds : Keeps(other)' BY <2>1, <2>2 DEF MInv, Keeps, Boost
  <2>5. \A op \in Operations' : Honest(op)' BY <2>1, <2>2 DEF MInv, Honest, Alive, Operations
  <2>6. Calling' BY <2>1, <2>2 DEF MInv, Calling, Boost
  <2> QED BY <2>1, <2>3, <2>4, <2>5, <2>6 DEF MInv, Boost
<1>4. CASE watchers[fd] = Nobody /\ events # {}
  <2>1. made' = made + 1 /\ Events([id |-> made', events |-> {}, pending |-> {}], connection, fd, events)
    BY <1>1, <1>4 DEF MonitorBoost
  <2>2. [id |-> made', events |-> {}, pending |-> {}] \in Watcher BY <1>2, <2>1 DEF Watcher
  <2>3. made' \in Nat /\ made <= made' /\ made' > made BY <1>2, <2>1
  <2> QED BY <1>1, <1>2, <1>4, <2>1, <2>2, <2>3, EventsInv
<1>5. CASE watchers[fd] # Nobody /\ events = {}
  BY <1>1, <1>5, DestroyInv DEF MonitorBoost
<1>6. CASE watchers[fd] # Nobody /\ events # {}
  <2>1. made' = made /\ Events(watchers[fd], connection, fd, events)
    BY <1>1, <1>6 DEF MonitorBoost
  <2> QED BY <1>1, <1>2, <1>6, <2>1, EventsInv
<1> QED BY <1>3, <1>4, <1>5, <1>6
(* Steps that change neither descriptors nor who is told keep the rest of  *)
(* the invariant, whatever becomes of the operations.                      *)
LEMMA OperationsInv ==
  ASSUME MInv, Boost, handler' = handler, asked' = asked, broken' = broken, made' = made,
         watchers' \in [Fds -> Watcher \cup {Nobody}],
         \A fd \in Fds : /\ watchers'[fd] = Nobody <=> watchers[fd] = Nobody
                         /\ watchers[fd] # Nobody => /\ watchers'[fd].id = watchers[fd].id
                                                     /\ watchers'[fd].events = watchers[fd].events
  PROVE  /\ Boost' /\ \A fd \in Fds : Keeps(fd)'
         /\ activity' \in [connection : Connections, fd : Fds, events : SUBSET Signs, watcher : Nat]
                            \cup {Nobody} => Types'
         /\ activity' \in {activity, Nobody} => Calling'
         /\ \A op \in Operations : Honest(op)'
         /\ \A op : op.fd \in Fds => (Alive(op)' <=> Alive(op))
<1>1. Boost' BY DEF Boost
<1>2. \A fd \in Fds : Keeps(fd)' BY DEF MInv, Keeps, Boost
<1>3. ASSUME activity' \in [connection : Connections, fd : Fds, events : SUBSET Signs, watcher : Nat]
                             \cup {Nobody}
      PROVE  Types'
  BY <1>1, <1>3 DEF MInv, Types, Watcher
<1>4. ASSUME activity' \in {activity, Nobody} PROVE Calling'
  <2>1. CASE activity' = Nobody BY <2>1 DEF Calling
  <2>2. CASE activity' = activity /\ activity # Nobody
    <3>1. activity.fd \in Fds /\ Calling BY <2>2 DEF MInv, Types
    <3>2. asked[activity.fd] # Nobody => watchers[activity.fd] # Nobody
      BY <3>1 DEF MInv, Keeps
    <3> QED BY <1>1, <2>2, <3>1, <3>2 DEF Calling
  <2> QED BY <1>4, <2>1, <2>2
<1>5. ASSUME NEW op, op.fd \in Fds PROVE Alive(op)' <=> Alive(op) BY <1>5 DEF Alive
<1>6. ASSUME NEW op \in Operations PROVE Honest(op)'
  <2>1. Honest(op) /\ op.fd \in Fds BY DEF MInv, Honest
  <2>2. Alive(op)' <=> Alive(op) BY <1>5, <2>1
  <2> QED BY <2>1, <2>2 DEF Honest
<1> QED BY <1>1, <1>2, <1>3, <1>4, <1>5, <1>6

(* A timer is set for the connection that negotiates. *)
LEMMA NegotiateInv == ASSUME MInv, Negotiate PROVE MInv'
<1> DEFINE Entry == [connection : Connections, events : SUBSET Signs]
<1>1. PICK fd, op :
        /\ fd = activity.fd /\ op = Operation(watchers[fd].id, activity.connection, fd, "heartbeat")
        /\ watchers[fd] # Nobody /\ StartTimer(op)
        /\ asked' = [asked EXCEPT ![fd].events = @ \cup {"heartbeat"}]
  BY DEF Negotiate, SetTimer
<1>2. /\ Boost /\ Boost' /\ activity # Nobody /\ handler' = handler /\ broken' = broken
      /\ activity' = activity /\ watchers' = watchers /\ made' = made
  BY DEF Negotiate, Boost
<1>3. /\ fd \in Fds /\ asked \in [Fds -> Entry \cup {Nobody}]
      /\ watchers \in [Fds -> Watcher \cup {Nobody}] /\ made \in Nat /\ activity.connection \in Connections
  BY <1>1, <1>2 DEF MInv, Types, Watcher
<1>4. /\ watchers[fd].id \in Nat /\ watchers[fd].id <= made /\ asked[fd] \in Entry
      /\ asked[fd].connection = activity.connection
  BY <1>1, <1>2, <1>3 DEF MInv, Keeps, Calling, Watcher
<1> DEFINE new == [asked[fd] EXCEPT !.events = @ \cup {"heartbeat"}]
<1>5. new \in Entry /\ new.connection = asked[fd].connection /\ new # Nobody
      /\ new.events = asked[fd].events \cup {"heartbeat"}
  <2>1. new \in Entry /\ new.connection = asked[fd].connection
        /\ new.events = asked[fd].events \cup {"heartbeat"}
    BY <1>4 DEF Signs
  <2> QED BY <2>1, NobodyAssumption
<1>6. /\ asked' \in [Fds -> Entry \cup {Nobody}] /\ asked'[fd] = new
      /\ \A other \in Fds \ {fd} : asked'[other] = asked[other]
  BY <1>1, <1>3, <1>5
<1>7. Types' BY <1>2, <1>6 DEF MInv, Types
<1>8. ASSUME NEW other \in Fds PROVE Keeps(other)'
  <2>1. CASE other = fd
    <3>1. new.events \cap Readiness = asked[fd].events \cap Readiness BY <1>5 DEF Readiness
    <3> QED BY <1>1, <1>2, <1>4, <1>5, <1>6, <2>1, <3>1 DEF MInv, Keeps, Boost
  <2>2. CASE other # fd BY <1>2, <1>6, <2>2 DEF MInv, Keeps, Boost
  <2> QED BY <2>1, <2>2
<1>9. Calling'
  <2>1. asked[fd] # Nobody BY <1>1, <1>3 DEF MInv, Keeps
  <2>2. asked'[fd].connection = asked[fd].connection
        /\ ("heartbeat" \in asked[fd].events => "heartbeat" \in asked'[fd].events)
    BY <1>5, <1>6
  <2> QED BY <1>1, <1>2, <2>1, <2>2 DEF MInv, Calling
<1>10. op \in OperationSet /\ op.watcher = watchers[fd].id /\ op.connection = activity.connection
       /\ op.fd = fd
  BY <1>1, <1>3, <1>4 DEF Operation, OperationSet, Signs
<1>11. Honest(op)'
  <2>1. asked'[fd].connection = activity.connection /\ "heartbeat" \in asked'[fd].events
    BY <1>4, <1>5, <1>6
  <2>2. op.watcher <= made' BY <1>2, <1>4, <1>10
  <2> QED BY <1>10, <2>1, <2>2 DEF Honest, OperationSet
<1>12. ASSUME NEW was \in Operations, NEW x \in {was, [was EXCEPT !.aborted = TRUE]} PROVE Honest(x)'
  <2>1. Honest(was) /\ was.fd \in Fds BY <1>2 DEF MInv, Honest
  <2>2. Alive(was)' <=> Alive(was) BY <1>2 DEF Alive
  <2>3. asked'[was.fd].connection = asked[was.fd].connection
        /\ ("heartbeat" \in asked[was.fd].events => "heartbeat" \in asked'[was.fd].events)
    BY <1>5, <1>6, <2>1
  <2>4. made' \in Nat /\ made <= made' BY <1>2, <1>3
  <2> QED BY <1>3, <2>1, <2>2, <2>3, <2>4, HonestRemains
<1>13. \A x \in Operations' : x = op \/ \E was \in Operations : x \in {was, [was EXCEPT !.aborted = TRUE]}
  BY <1>1, Launched
<1>14. \A x \in Operations' : Honest(x)' BY <1>11, <1>12, <1>13
<1> QED BY <1>2, <1>7, <1>8, <1>9, <1>14 DEF MInv

LEMMA OperationEndsInv == ASSUME MInv, OperationEnds PROVE MInv'
<1>1. PICK op \in DOMAIN armed : armed' = BagRemove(armed, op) /\ fired' = BagAdd(fired, op)
  BY DEF OperationEnds
<1>2. /\ Boost /\ handler' = handler /\ asked' = asked /\ broken' = broken
      /\ activity' = activity /\ watchers' = watchers /\ made' = made
  BY DEF OperationEnds
<1>3. Operations' \subseteq Operations
  <2>1. DOMAIN armed' \subseteq DOMAIN armed BY <1>1, RemovedFromBag
  <2>2. DOMAIN fired' = DOMAIN fired \cup {op} BY <1>1, AddedToBag
  <2> QED BY <2>1, <2>2 DEF Operations
<1>4. /\ watchers' \in [Fds -> Watcher \cup {Nobody}]
      /\ activity' \in [connection : Connections, fd : Fds, events : SUBSET Signs, watcher : Nat]
                         \cup {Nobody}
  BY <1>2 DEF MInv, Types, Watcher
<1> QED BY <1>2, <1>3, <1>4, OperationsInv DEF MInv

(* A handler calls the connection that asked for it, or nobody. *)
LEMMA HandleCalls ==
  ASSUME MInv, Boost, activity = Nobody, NEW op \in DOMAIN fired, Handle(op)
  PROVE  /\ Honest(op) /\ op.fd \in Fds /\ op.kind \in Signs
         /\ \/ activity' = Nobody
            \/ /\ Alive(op) /\ ~op.aborted /\ asked[op.fd] # Nobody
               /\ op.kind \in asked[op.fd].events /\ op.connection = asked[op.fd].connection
               /\ activity' = [connection |-> op.connection, fd |-> op.fd,
                               events |-> {op.kind}, watcher |-> op.watcher]
               /\ activity' \in [connection : Connections, fd : Fds, events : SUBSET Signs,
                                 watcher : Nat]
               /\ activity' # Nobody
         /\ \/ watchers' = watchers
            \/ /\ Alive(op) /\ ~op.aborted
               /\ op.kind \in watchers[op.fd].events =>
                    activity' = [connection |-> op.connection, fd |-> op.fd,
                                 events |-> {op.kind}, watcher |-> op.watcher]
               /\ watchers' = [watchers EXCEPT ![op.fd].pending = @ \ {op.kind}]
<1>1. Honest(op) /\ op.fd \in Fds /\ op.kind \in Signs BY DEF MInv, Operations, Honest
<1>2. Alive(op) => /\ asked[op.fd] # Nobody /\ asked[op.fd].connection = op.connection
                   /\ op.kind = "heartbeat" => op.kind \in asked[op.fd].events
                   /\ op.kind \in watchers[op.fd].events => op.kind \in asked[op.fd].events
  BY <1>1 DEF MInv, Keeps, Honest, Alive
<1>3. /\ [connection |-> op.connection, fd |-> op.fd, events |-> {op.kind}, watcher |-> op.watcher]
           \in [connection : Connections, fd : Fds, events : SUBSET Signs, watcher : Nat]
      /\ [connection |-> op.connection, fd |-> op.fd, events |-> {op.kind}, watcher |-> op.watcher]
           # Nobody
  BY <1>1, NobodyAssumption DEF Honest
<1>4. CASE ~Alive(op) \/ op.aborted BY <1>1, <1>4 DEF Handle
<1>5. CASE Alive(op) /\ ~op.aborted /\ op.kind = "heartbeat"
  BY <1>1, <1>2, <1>3, <1>5 DEF Handle, Call
<1>6. CASE Alive(op) /\ ~op.aborted /\ op.kind # "heartbeat"
  BY <1>1, <1>2, <1>3, <1>6 DEF Handle, Call
<1> QED BY <1>4, <1>5, <1>6

(* A flag less leaves a Watcher. *)
LEMMA FlagsChange ==
  ASSUME MInv, Boost, NEW fd \in Fds, watchers[fd] # Nobody, NEW pending \in SUBSET Readiness,
         watchers' = [watchers EXCEPT ![fd].pending = pending]
  PROVE  /\ watchers' \in [Fds -> Watcher \cup {Nobody}]
         /\ watchers'[fd].pending = pending
         /\ \A other \in Fds :
              /\ watchers'[other] = Nobody <=> watchers[other] = Nobody
              /\ other # fd => watchers'[other] = watchers[other]
              /\ watchers[other] # Nobody =>
                   /\ watchers'[other].id = watchers[other].id
                   /\ watchers'[other].events = watchers[other].events
<1> DEFINE new == [watchers[fd] EXCEPT !.pending = pending]
<1>1. watchers \in [Fds -> Watcher \cup {Nobody}] /\ watchers[fd] \in Watcher
  BY DEF MInv, Types, Watcher
<1>2. new \in Watcher /\ new.id = watchers[fd].id /\ new.events = watchers[fd].events
      /\ new.pending = pending
  BY <1>1 DEF Watcher
<1>3. new # Nobody BY <1>2, NobodyAssumption DEF Watcher
<1>4. watchers' = [watchers EXCEPT ![fd] = new] OBVIOUS
<1>5. watchers'[fd] = new /\ \A other \in Fds \ {fd} : watchers'[other] = watchers[other]
  BY <1>1, <1>4
<1> QED BY <1>1, <1>2, <1>3, <1>4, <1>5

LEMMA WatcherOf ==
  ASSUME MInv, Boost, NEW fd \in Fds, watchers[fd] # Nobody
  PROVE  watchers[fd] \in Watcher /\ watchers[fd].pending \subseteq Readiness
BY DEF MInv, Types, Watcher

LEMMA DispatchInv == ASSUME MInv, Dispatch PROVE MInv'
<1>1. PICK op \in DOMAIN fired : fired' = BagRemove(fired, op) /\ Handle(op) BY DEF Dispatch
<1>2. /\ Boost /\ activity = Nobody /\ handler' = handler /\ asked' = asked /\ broken' = broken
      /\ made' = made /\ armed' = armed
  BY DEF Dispatch
<1>3. /\ watchers' \in [Fds -> Watcher \cup {Nobody}]
      /\ \A fd \in Fds : /\ watchers'[fd] = Nobody <=> watchers[fd] = Nobody
                         /\ watchers[fd] # Nobody => /\ watchers'[fd].id = watchers[fd].id
                                                     /\ watchers'[fd].events = watchers[fd].events
  <2>1. CASE watchers' = watchers BY <1>2, <2>1 DEF MInv, Types, Watcher
  <2>2. CASE watchers' # watchers
    <3>1. /\ op.fd \in Fds /\ watchers[op.fd] # Nobody
          /\ watchers' = [watchers EXCEPT ![op.fd].pending = watchers[op.fd].pending \ {op.kind}]
      BY <1>1, <1>2, <2>2, HandleCalls DEF Alive
    <3>2. watchers[op.fd].pending \ {op.kind} \in SUBSET Readiness BY <1>2, <3>1, WatcherOf
    <3> QED BY <1>2, <3>1, <3>2, FlagsChange
  <2> QED BY <2>1, <2>2
<1>4. Operations' \subseteq Operations BY <1>1, <1>2, RemovedFromBag DEF Operations
<1>5. Boost' /\ (\A fd \in Fds : Keeps(fd)') /\ \A x \in Operations : Honest(x)'
  BY <1>2, <1>3, OperationsInv
<1>6. Types' BY <1>1, <1>2, <1>3, HandleCalls, OperationsInv
<1>7. Calling'
  <2>1. CASE activity' = Nobody BY <2>1 DEF Calling
  <2>2. CASE activity' # Nobody
    <3>1. /\ Alive(op) /\ op.fd \in Fds /\ op.kind \in asked[op.fd].events
          /\ op.kind \in Signs /\ op.connection = asked[op.fd].connection
          /\ activity' = [connection |-> op.connection, fd |-> op.fd,
                          events |-> {op.kind}, watcher |-> op.watcher]
      BY <1>1, <1>2, <2>2, HandleCalls
    <3>2. watchers'[op.fd].id = op.watcher BY <1>3, <3>1 DEF Alive
    <3> QED BY <1>2, <3>1, <3>2 DEF Calling
  <2> QED BY <2>1, <2>2
<1> QED BY <1>4, <1>5, <1>6, <1>7 DEF MInv

(* The operation that is started after a call is again the connection's own.*)
LEMMA ReturnBoostInv == ASSUME MInv, Boost, Return PROVE MInv'
<1>1. /\ activity # Nobody /\ activity' = Nobody /\ handler' = handler /\ asked' = asked
      /\ broken' = broken /\ made' = made
  BY DEF Return
<1>2. PICK kind, op :
        /\ kind = CHOOSE k \in activity.events : TRUE
        /\ op = Operation(activity.watcher, activity.connection, activity.fd, kind)
        /\ IF Alive(op)
           THEN /\ StartTimer(op) \/ Start(op)
                /\ watchers' = [watchers EXCEPT ![op.fd].pending = @ \cup ({kind} \cap Readiness)]
           ELSE armed' = armed /\ fired' = fired /\ watchers' = watchers
  BY DEF Return
<1>3. activity.events = {kind} /\ kind \in Signs BY <1>1, <1>2 DEF MInv, Calling
<1>4. activity \in [connection : Connections, fd : Fds, events : SUBSET Signs, watcher : Nat]
  BY <1>1 DEF MInv, Types
<1>5. /\ op \in OperationSet /\ op.watcher = activity.watcher /\ op.fd = activity.fd
      /\ op.connection = activity.connection /\ op.kind = kind
  BY <1>2, <1>3, <1>4 DEF Operation, OperationSet
<1>6. CASE ~Alive(op)
  <2>1. armed' = armed /\ fired' = fired /\ watchers' = watchers BY <1>2, <1>6
  <2>2. watchers' \in [Fds -> Watcher \cup {Nobody}] BY <2>1 DEF MInv, Types, Watcher
  <2> QED BY <1>1, <2>1, <2>2, OperationsInv DEF MInv, Operations
<1>7. CASE Alive(op)
  <2>1. /\ StartTimer(op) \/ Start(op)
        /\ op.fd \in Fds /\ watchers[op.fd] # Nobody
        /\ watchers' = [watchers EXCEPT ![op.fd].pending =
                          watchers[op.fd].pending \cup ({kind} \cap Readiness)]
    BY <1>2, <1>4, <1>5, <1>7 DEF Alive
  <2>2. watchers[op.fd].pending \cup ({kind} \cap Readiness) \in SUBSET Readiness
    BY <2>1, WatcherOf
  <2>3. /\ watchers' \in [Fds -> Watcher \cup {Nobody}]
        /\ \A fd \in Fds : /\ watchers'[fd] = Nobody <=> watchers[fd] = Nobody
                           /\ watchers[fd] # Nobody => /\ watchers'[fd].id = watchers[fd].id
                                                       /\ watchers'[fd].events = watchers[fd].events
    BY <2>1, <2>2, FlagsChange
  <2>4. Boost' /\ Types' /\ Calling' /\ (\A fd \in Fds : Keeps(fd)') /\ \A x \in Operations : Honest(x)'
    BY <1>1, <2>3, OperationsInv
  <2>5. \A x \in Operations' :
          x = op \/ \E was \in Operations : x \in {was, [was EXCEPT !.aborted = TRUE]}
    BY <2>1, Launched
  <2>6. Honest(op)'
    <3>1. Alive(op)' <=> Alive(op) BY <1>1, <2>1, <2>3, OperationsInv
    <3>2. watchers[op.fd].id = op.watcher /\ watchers[op.fd].id <= made /\ asked[op.fd] # Nobody
      BY <1>7, <2>1 DEF Alive, MInv, Keeps
    <3>3. /\ asked[op.fd].connection = op.connection
          /\ op.kind = "heartbeat" => "heartbeat" \in asked[op.fd].events
      BY <1>1, <1>3, <1>5, <3>2 DEF MInv, Calling
    <3> QED BY <1>1, <1>5, <3>1, <3>2, <3>3 DEF Honest, OperationSet
  <2>7. ASSUME NEW was \in Operations, NEW x \in {was, [was EXCEPT !.aborted = TRUE]} PROVE Honest(x)'
    <3>1. Honest(was) /\ was.fd \in Fds /\ made \in Nat BY DEF MInv, Honest, Types
    <3>2. Alive(was)' => Alive(was) BY <1>1, <2>3, <3>1, OperationsInv
    <3>3. /\ asked'[was.fd].connection = asked[was.fd].connection
          /\ "heartbeat" \in asked[was.fd].events => "heartbeat" \in asked'[was.fd].events
      BY <1>1
    <3>4. made' \in Nat /\ made <= made' BY <1>1, <3>1
    <3> QED BY <3>1, <3>2, <3>3, <3>4, HonestRemains
  <2>8. \A x \in Operations' : Honest(x)' BY <2>5, <2>6, <2>7
  <2> QED BY <2>4, <2>8 DEF MInv
<1> QED BY <1>6, <1>7

THEOREM NextMInv == MInv /\ [WatchNext]_watchVars => MInv'
<1> SUFFICES ASSUME MInv, [WatchNext]_watchVars PROVE MInv' OBVIOUS
<1>1. CASE \E connection \in Connections, fd \in Fds, events \in SUBSET Readiness :
             Monitor(connection, fd, events)
  BY <1>1, MonitorInv, MonitorBoostInv
<1>2. CASE Negotiate BY <1>2, NegotiateInv
<1>3. CASE \E connection \in Connections : Detach(connection) BY <1>3, DetachInv
<1>4. CASE \E fd \in Fds : Break(fd) \/ Collect(fd) BY <1>4, BreakInv, CollectInv
<1>5. CASE OperationEnds \/ Dispatch BY <1>5, OperationEndsInv, DispatchInv
<1>6. CASE Callback BY <1>6, CallbackInv
<1>7. CASE Return BY <1>7, ReturnInv, ReturnBoostInv
<1>8. CASE UNCHANGED watchVars
  BY <1>8 DEF watchVars, MInv, Types, Keeps, Meant, Told, Honest, Alive, Operations, Calling, Boost
<1> QED BY <1>1, <1>2, <1>3, <1>4, <1>5, <1>6, <1>7, <1>8 DEF WatchNext
-----------------------------------------------------------------------------
(* The refinement. *)
Mapped == IF activity = Nobody THEN Nobody
          ELSE [connection |-> activity.connection, fd |-> activity.fd,
                events |-> activity.events]

(* What a connection asks for is something it may ask for.                 *)
LEMMA AsksIsAsking ==
  ASSUME MInv, NEW connection \in Connections, NEW fd \in Fds,
         NEW events \in SUBSET Readiness, Asks(connection, fd, events)
  PROVE  Telling!Asks(fd)
<1>1. asked \in [Fds -> [connection : Connections, events : SUBSET Signs] \cup {Nobody}]
  BY DEF MInv, Types
<1>2. asked[fd] # Nobody => asked[fd].connection = connection BY AskedIsTyped
<1> DEFINE wanted == events \cup (IF asked[fd] = Nobody THEN {} ELSE asked[fd].events \ Readiness)
           new == [connection |-> connection, events |-> wanted]
<1>3. /\ asked' = [asked EXCEPT ![fd] = IF events = {} THEN Nobody ELSE new]
      /\ broken' = IF events = {} THEN broken \ {fd} ELSE broken
      /\ activity' = activity
  BY DEF Asks
<1>4. wanted \in SUBSET Telling!Signs
  BY <1>1 DEF Signs, Telling!Signs, Readiness, Telling!Readiness
<1>5. asked' \in {[asked EXCEPT ![fd] = Nobody]} \cup
                 {[asked EXCEPT ![fd] = [connection |-> connection, events |-> e]] :
                    e \in SUBSET Telling!Signs}
  BY <1>3, <1>4
<1>6. broken' = IF asked'[fd] = Nobody THEN broken \ {fd} ELSE broken
  BY <1>3, AskedIsTyped
<1>7. \E owner \in Connections :
        /\ asked[fd] # Nobody => asked[fd].connection = owner
        /\ asked' \in {[asked EXCEPT ![fd] = Nobody]} \cup
                      {[asked EXCEPT ![fd] = [connection |-> owner, events |-> e]] :
                         e \in SUBSET Telling!Signs}
  BY <1>2, <1>5
<1> QED BY <1>3, <1>6, <1>7 DEF Telling!Asks

LEMMA OtherEvents ==
  ASSUME NEW entry \in [connection : Connections, events : SUBSET Signs], NEW events
  PROVE  [entry EXCEPT !.events = events] =
           [connection |-> entry.connection, events |-> events]
OBVIOUS

(* A timer for heartbeats is asked for by the connection that negotiates.  *)
LEMMA NegotiateIsAsking == ASSUME MInv, Negotiate PROVE Telling!Asks(activity.fd) /\ activity.fd \in Fds
<1> DEFINE fd == activity.fd
           wanted == asked[fd].events \cup {"heartbeat"}
<1>1. /\ activity # Nobody /\ Boost /\ watchers[fd] # Nobody /\ activity' = activity
      /\ asked' = [asked EXCEPT ![fd].events = @ \cup {"heartbeat"}] /\ broken' = broken
  BY DEF Negotiate
<1>2. fd \in Fds /\ asked[fd] # Nobody BY <1>1 DEF MInv, Types, Keeps
<1>3. asked \in [Fds -> [connection : Connections, events : SUBSET Signs] \cup {Nobody}]
      /\ asked[fd] \in [connection : Connections, events : SUBSET Signs]
  BY <1>2 DEF MInv, Types
<1>4. [asked[fd] EXCEPT !.events = @ \cup {"heartbeat"}] =
        [connection |-> asked[fd].connection, events |-> wanted]
  BY <1>3, OtherEvents
<1>5. asked' = [asked EXCEPT ![fd] = [connection |-> asked[fd].connection, events |-> wanted]]
  BY <1>1, <1>4
<1>6. wanted \in SUBSET Telling!Signs /\ wanted \in SUBSET Signs
  BY <1>3 DEF Signs, Telling!Signs, Readiness, Telling!Readiness
<1>7. [connection |-> asked[fd].connection, events |-> wanted] # Nobody
  <2>1. [connection |-> asked[fd].connection, events |-> wanted]
          \in [connection : Connections, events : SUBSET Signs]
    BY <1>3, <1>6
  <2> QED BY <2>1, NobodyAssumption
<1>8. asked'[fd] # Nobody BY <1>2, <1>3, <1>5, <1>7
<1>9. \E connection \in Connections :
        /\ asked[fd] # Nobody => asked[fd].connection = connection
        /\ asked' \in {[asked EXCEPT ![fd] = Nobody]} \cup
                      {[asked EXCEPT ![fd] = [connection |-> connection, events |-> e]] :
                         e \in SUBSET Telling!Signs}
  BY <1>3, <1>5, <1>6
<1> QED BY <1>1, <1>2, <1>8, <1>9 DEF Telling!Asks

LEMMA DetachIsGoingAway ==
  ASSUME MInv, NEW connection \in Connections, Detach(connection)
  PROVE  Telling!GoesAway(connection)
<1>1. {fd \in Fds : Owns(connection, fd)} =
        {fd \in Fds : asked[fd] # Nobody /\ asked[fd].connection = connection}
  BY DEF Owns
<1> QED BY <1>1 DEF Detach, Telling!GoesAway

LEMMA CallbackIsTelling == ASSUME MInv, Callback PROVE \E fd \in Fds : Telling!Tells(fd)
<1>1. PICK e \in DOMAIN fired :
        fired' = BagRemove(fired, e) /\ Call(watchers[e.fd].connection, e.fd, Told(e), 0)
  BY DEF Callback
<1>2. /\ e.fd \in Fds /\ asked[e.fd] # Nobody /\ activity = Nobody /\ ~Boost
      /\ activity' = [connection |-> asked[e.fd].connection, fd |-> e.fd,
                      events |-> Told(e), watcher |-> 0]
      /\ Told(e) \subseteq Signs /\ activity' # Nobody
  BY <1>1, CallbackCalls
<1>3. Meant(e) BY <1>2 DEF MInv
<1>4. Told(e) \in (SUBSET Telling!Signs) \ {{}}
  BY <1>2, <1>3 DEF Meant, Signs, Telling!Signs, Readiness, Telling!Readiness
<1>5. Told(e) \subseteq asked[e.fd].events \/ (e.fd \in broken /\ Told(e) = Telling!Readiness)
  BY <1>3 DEF Meant, Readiness, Telling!Readiness
<1>6. Mapped = Nobody /\ Mapped' = [connection |-> asked[e.fd].connection, fd |-> e.fd,
                                    events |-> Told(e)]
  BY <1>2 DEF Mapped
<1>7. asked' = asked /\ broken' = broken BY DEF Callback
<1> QED BY <1>2, <1>4, <1>5, <1>6, <1>7 DEF Telling!Tells, Mapped

LEMMA DispatchIsTelling ==
  ASSUME MInv, Dispatch
  PROVE  (\E fd \in Fds : Telling!Tells(fd)) \/ UNCHANGED <<asked, broken, Mapped>>
<1>1. PICK op \in DOMAIN fired : Handle(op) BY DEF Dispatch
<1>2. Boost /\ activity = Nobody /\ asked' = asked /\ broken' = broken BY DEF Dispatch
<1>3. CASE activity' = Nobody BY <1>2, <1>3 DEF Mapped
<1>4. CASE activity' # Nobody
  <2>1. /\ op.fd \in Fds /\ op.kind \in Signs /\ asked[op.fd] # Nobody
        /\ op.kind \in asked[op.fd].events /\ op.connection = asked[op.fd].connection
        /\ activity' = [connection |-> op.connection, fd |-> op.fd,
                        events |-> {op.kind}, watcher |-> op.watcher]
    BY <1>1, <1>2, <1>4, HandleCalls
  <2>2. {op.kind} \in (SUBSET Telling!Signs) \ {{}}
    BY <2>1 DEF Signs, Telling!Signs, Readiness, Telling!Readiness
  <2>3. Mapped = Nobody /\ Mapped' = [connection |-> asked[op.fd].connection, fd |-> op.fd,
                                      events |-> {op.kind}]
    BY <1>2, <1>4, <2>1 DEF Mapped
  <2> QED BY <1>2, <2>1, <2>2, <2>3 DEF Telling!Tells, Mapped
<1> QED BY <1>3, <1>4

(* Every step of a loop is one of Monitoring's, or none of its concern.    *)
THEOREM StepSimulation == MInv /\ [WatchNext]_watchVars => [Telling!Step]_<<asked, broken, Mapped>>
<1> SUFFICES ASSUME MInv, [WatchNext]_watchVars
             PROVE  Telling!Step \/ UNCHANGED <<asked, broken, Mapped>>
  OBVIOUS
<1>1. CASE \E connection \in Connections, fd \in Fds, events \in SUBSET Readiness :
             Monitor(connection, fd, events)
  BY <1>1, AsksIsAsking DEF Monitor, Telling!Step
<1>2. CASE Negotiate BY <1>2, NegotiateIsAsking DEF Telling!Step
<1>3. CASE \E connection \in Connections : Detach(connection)
  BY <1>3, DetachIsGoingAway DEF Telling!Step
<1>4. CASE \E fd \in Fds : Break(fd)
  <2>1. \E fd \in Fds : Telling!Breaks(fd) BY <1>4 DEF Break, Telling!Breaks
  <2> QED BY <2>1 DEF Telling!Step
<1>5. CASE (\E fd \in Fds : Collect(fd)) \/ OperationEnds
  BY <1>5 DEF Collect, OperationEnds, Mapped
<1>6. CASE Callback BY <1>6, CallbackIsTelling DEF Telling!Step
<1>7. CASE Dispatch BY <1>7, DispatchIsTelling DEF Telling!Step
<1>8. CASE Return
  <2>1. Telling!Returns BY <1>8 DEF Return, Telling!Returns
  <2> QED BY <2>1 DEF Telling!Step
<1>9. CASE UNCHANGED watchVars BY <1>9 DEF watchVars, Mapped
<1> QED BY <1>1, <1>2, <1>3, <1>4, <1>5, <1>6, <1>7, <1>8, <1>9 DEF WatchNext

(* Whichever loop is used, it keeps the promise: a connection is called    *)
(* only while the descriptor is its own, and for what it asked for last.   *)
THEOREM LoopsKeepPromise == WatchSpec => Monitors
<1>1. WatchInit => Telling!Idle BY DEF WatchInit, Telling!Idle
<1>2. [Telling!Step]_<<asked, broken, Mapped>> => [Telling!Step]_(Telling!watching)
  BY DEF Mapped, Telling!watching
<1> QED BY <1>1, <1>2, InitMInv, NextMInv, StepSimulation, PTL
        DEF WatchSpec, Monitors, Telling!Monitor
-----------------------------------------------------------------------------
(* Nothing is forgotten.  For Boost this needs to be known: for each       *)
(* pending flag there is an operation that will be handled.                *)
Live(fd, kind) ==
  \E op \in Operations : op.fd = fd /\ op.kind = kind /\ Alive(op) /\ ~op.aborted

Being(fd) == IF Called(fd) THEN activity.events ELSE {}

Waits(fd) ==
  asked[fd] # Nobody =>
    /\ \A kind \in watchers[fd].pending : Live(fd, kind)
    /\ watchers[fd].events \subseteq watchers[fd].pending \cup Being(fd)
    /\ "heartbeat" \in asked[fd].events =>
         Live(fd, "heartbeat") \/ "heartbeat" \in Being(fd)

WInv == MInv /\ (Boost => \A fd \in Fds : Waits(fd))

LEMMA LiveRemains ==
  ASSUME NEW fd, NEW kind, Live(fd, kind),
         \A op \in Operations : op.fd = fd /\ op.kind = kind /\ Alive(op) /\ ~op.aborted =>
                                  op \in Operations' /\ Alive(op)'
  PROVE  Live(fd, kind)'
BY DEF Live

(* A descriptor of which nothing changes goes on waiting for the same. *)
LEMMA WaitsRemains ==
  ASSUME NEW fd, Waits(fd), asked'[fd] = asked[fd], watchers'[fd] = watchers[fd],
         Being(fd)' = Being(fd),
         \A op \in Operations : op.fd = fd /\ ~op.aborted => op \in Operations'
  PROVE  Waits(fd)'
<1>1. \A kind : Live(fd, kind) => Live(fd, kind)'
  <2> SUFFICES ASSUME NEW kind, Live(fd, kind) PROVE Live(fd, kind)' OBVIOUS
  <2>1. ASSUME NEW op \in Operations, op.fd = fd, Alive(op) PROVE Alive(op)' BY <2>1 DEF Alive
  <2> QED BY <2>1, LiveRemains
<1> QED BY <1>1 DEF Waits

LEMMA EventsWait ==
  ASSUME WInv, Boost, NEW connection \in Connections, NEW fd \in Fds,
         NEW events \in SUBSET Readiness, Asks(connection, fd, events), events # {},
         NEW watcher \in Watcher, Events(watcher, connection, fd, events),
         asked[fd] # Nobody => watcher = watchers[fd],
         asked[fd] = Nobody => watcher.pending = {}
  PROVE  \A other \in Fds : Waits(other)'
<1> DEFINE started == {Operation(watcher.id, connection, fd, kind) : kind \in events \ watcher.pending}
           new == [watcher EXCEPT !.events = events, !.pending = @ \cup events]
<1>1. /\ MInv /\ watchers \in [Fds -> Watcher \cup {Nobody}] /\ activity' = activity
  BY AskedIsTyped DEF WInv, MInv, Types, Watcher
<1>2. /\ watchers' = [watchers EXCEPT ![fd] = new]
      /\ armed' = armed (+) SetToBag(started) /\ fired' = fired
  BY DEF Events
<1>3. /\ new.id = watcher.id /\ new.events = events /\ new # Nobody
      /\ new.pending = watcher.pending \cup events
  <2>1. /\ new \in Watcher /\ new.id = watcher.id /\ new.events = events
        /\ new.pending = watcher.pending \cup events
    BY DEF Watcher
  <2> QED BY <2>1, NobodyAssumption DEF Watcher
<1>4. watchers'[fd] = new /\ \A other \in Fds \ {fd} : watchers'[other] = watchers[other]
  BY <1>1, <1>2
<1>5. Operations' = Operations \cup started
  <2>1. DOMAIN SetToBag(started) = started BY BagOfSet
  <2>2. DOMAIN armed' = DOMAIN armed \cup DOMAIN SetToBag(started) BY <1>2, BagsTogether
  <2> QED BY <1>2, <2>1, <2>2 DEF Operations
<1>6. Being(fd)' = Being(fd) /\ \A other \in Fds : Being(other)' = Being(other)
  BY <1>1 DEF Being, Called
<1>7. ASSUME NEW other \in Fds \ {fd} PROVE Waits(other)'
  <2>1. asked'[other] = asked[other] BY <1>1, AskedIsTyped
  <2> QED BY <1>4, <1>5, <1>6, <2>1, WaitsRemains DEF WInv
<1>8. Waits(fd)'
  <2>1. ASSUME NEW kind, asked[fd] # Nobody, Live(fd, kind) PROVE Live(fd, kind)'
    <3>1. watchers'[fd].id = watchers[fd].id BY <1>3, <1>4, <2>1
    <3>2. ASSUME NEW op \in Operations, op.fd = fd, Alive(op) PROVE op \in Operations' /\ Alive(op)'
      BY <1>3, <1>4, <1>5, <3>1, <3>2 DEF Alive
    <3> QED BY <2>1, <3>2, LiveRemains
  <2>2. ASSUME NEW kind \in events \ watcher.pending PROVE Live(fd, kind)'
    <3>1. PICK op : op = Operation(watcher.id, connection, fd, kind) OBVIOUS
    <3>2. op \in Operations' BY <1>5, <3>1
    <3>3. op.watcher = watcher.id /\ op.fd = fd /\ op.kind = kind /\ op.aborted = FALSE
      BY <3>1 DEF Operation
    <3>4. Alive(op)' BY <1>3, <1>4, <3>3 DEF Alive
    <3> QED BY <3>2, <3>3, <3>4 DEF Live
  <2>3. ASSUME NEW kind \in watchers'[fd].pending PROVE Live(fd, kind)'
    <3>1. CASE kind \in watcher.pending
      <4>1. asked[fd] # Nobody /\ kind \in watchers[fd].pending BY <3>1
      <4>2. Live(fd, kind) BY <4>1 DEF WInv, Waits
      <4> QED BY <2>1, <4>1, <4>2
    <3>2. CASE kind \notin watcher.pending BY <1>3, <1>4, <2>2, <2>3, <3>2
    <3> QED BY <3>1, <3>2
  <2>4. watchers'[fd].events \subseteq watchers'[fd].pending BY <1>3, <1>4
  <2>5. ASSUME "heartbeat" \in asked'[fd].events
        PROVE  Live(fd, "heartbeat")' \/ "heartbeat" \in Being(fd)
    <3>1. asked[fd] # Nobody /\ "heartbeat" \in asked[fd].events
      BY <1>1, <2>5, AskedIsTyped DEF Readiness
    <3> QED BY <2>1, <3>1 DEF WInv, Waits
  <2> QED BY <1>6, <2>3, <2>4, <2>5 DEF Waits
<1> QED BY <1>7, <1>8

LEMMA MonitorBoostWaits ==
  ASSUME WInv, Boost, NEW connection \in Connections, NEW fd \in Fds,
         NEW events \in SUBSET Readiness, Monitor(connection, fd, events)
  PROVE  \A other \in Fds : Waits(other)'
<1>1. Asks(connection, fd, events) /\ MonitorBoost(connection, fd, events) /\ MInv
  BY DEF Monitor, Boost, WInv
<1>2. /\ made \in Nat /\ watchers \in [Fds -> Watcher \cup {Nobody}]
      /\ watchers[fd] = Nobody <=> asked[fd] = Nobody
      /\ watchers[fd] # Nobody => watchers[fd] \in Watcher
      /\ activity' = activity
  BY <1>1, AskedIsTyped DEF MInv, Types, Keeps, Watcher
<1>3. CASE watchers[fd] = Nobody /\ events # {}
  <2>1. made' = made + 1 /\ Events([id |-> made', events |-> {}, pending |-> {}], connection, fd, events)
    BY <1>1, <1>3 DEF MonitorBoost
  <2>2. [id |-> made', events |-> {}, pending |-> {}] \in Watcher BY <1>2, <2>1 DEF Watcher
  <2> QED BY <1>1, <1>2, <1>3, <2>1, <2>2, EventsWait
<1>4. CASE watchers[fd] # Nobody /\ events # {}
  <2>1. Events(watchers[fd], connection, fd, events) BY <1>1, <1>4 DEF MonitorBoost
  <2> QED BY <1>1, <1>2, <1>4, <2>1, EventsWait
<1>5. CASE events = {}
  <2>1. Waits(fd)' BY <1>1, <1>5, AskedIsTyped DEF Waits
  <2>2. ASSUME NEW other \in Fds \ {fd} PROVE Waits(other)'
    <3>1. asked'[other] = asked[other] /\ Being(other)' = Being(other)
      BY <1>1, <1>2, AskedIsTyped DEF Being, Called
    <3>2. CASE watchers[fd] = Nobody
      <4>1. watchers' = watchers /\ armed' = armed /\ fired' = fired
        BY <1>1, <1>5, <3>2 DEF MonitorBoost
      <4> QED BY <3>1, <4>1, WaitsRemains DEF WInv, Operations
    <3>3. CASE watchers[fd] # Nobody
      <4> DEFINE ops == {op \in DOMAIN armed : op.fd = fd}
      <4>1. watchers' = [watchers EXCEPT ![fd] = Nobody] /\ armed' = Spared(ops)
            /\ fired' = fired (+) Aborted(ops)
        BY <1>1, <1>5, <3>3 DEF MonitorBoost, Destroy
      <4>2. DOMAIN armed' = DOMAIN armed \ ops /\ DOMAIN fired \subseteq DOMAIN fired'
        BY <4>1, Cancelled
      <4>3. \A op \in Operations : op.fd = other => op \in Operations' BY <4>2 DEF Operations
      <4>4. watchers'[other] = watchers[other] BY <1>2, <4>1
      <4> QED BY <3>1, <4>3, <4>4, WaitsRemains DEF WInv
    <3> QED BY <3>2, <3>3
  <2> QED BY <2>1, <2>2
<1> QED BY <1>3, <1>4, <1>5

LEMMA NegotiateWaits == ASSUME WInv, Negotiate PROVE \A other \in Fds : Waits(other)'
<1>1. PICK fd, op :
        /\ fd = activity.fd /\ op = Operation(watchers[fd].id, activity.connection, fd, "heartbeat")
        /\ watchers[fd] # Nobody /\ StartTimer(op)
        /\ asked' = [asked EXCEPT ![fd].events = @ \cup {"heartbeat"}]
  BY DEF Negotiate, SetTimer
<1>2. /\ Boost /\ activity # Nobody /\ activity' = activity /\ watchers' = watchers /\ MInv
  BY DEF Negotiate, WInv
<1>3. /\ fd \in Fds /\ asked \in [Fds -> [connection : Connections, events : SUBSET Signs] \cup {Nobody}]
      /\ asked[fd] # Nobody
  BY <1>1, <1>2 DEF MInv, Types, Keeps
<1>4. \A other \in Fds \ {fd} : asked'[other] = asked[other] BY <1>1, <1>3
<1>5. Operations \cup {op} \subseteq Operations' BY <1>1, Launched
<1>6. \A other \in Fds : Being(other)' = Being(other) BY <1>2 DEF Being, Called
<1>7. \A x : Alive(x)' <=> Alive(x) BY <1>2 DEF Alive
<1>8. ASSUME NEW other \in Fds \ {fd} PROVE Waits(other)'
  BY <1>2, <1>4, <1>5, <1>6, WaitsRemains DEF WInv
<1>9. Waits(fd)'
  <2>1. op.watcher = watchers[fd].id /\ op.fd = fd /\ op.kind = "heartbeat" /\ op.aborted = FALSE
    BY <1>1 DEF Operation
  <2>2. Alive(op)' BY <1>1, <1>2, <2>1 DEF Alive
  <2>3. Live(fd, "heartbeat")' BY <1>5, <2>1, <2>2 DEF Live
  <2>4. \A kind \in watchers[fd].pending : Live(fd, kind)'
    BY <1>2, <1>3, <1>5, <1>7, LiveRemains DEF WInv, Waits
  <2>5. watchers[fd].events \subseteq watchers[fd].pending \cup Being(fd)
    BY <1>2, <1>3 DEF WInv, Waits
  <2> QED BY <1>2, <1>3, <1>6, <2>3, <2>4, <2>5 DEF Waits
<1> QED BY <1>8, <1>9

LEMMA OperationEndsWaits == ASSUME WInv, OperationEnds PROVE \A fd \in Fds : Waits(fd)'
<1>1. PICK op \in DOMAIN armed : armed' = BagRemove(armed, op) /\ fired' = BagAdd(fired, op)
  BY DEF OperationEnds
<1>2. Boost /\ asked' = asked /\ activity' = activity /\ watchers' = watchers
  BY DEF OperationEnds
<1>3. Operations \subseteq Operations'
  <2>1. DOMAIN armed \ {op} \subseteq DOMAIN armed' BY <1>1, RemovedFromBag
  <2>2. DOMAIN fired' = DOMAIN fired \cup {op} BY <1>1, AddedToBag
  <2> QED BY <2>1, <2>2 DEF Operations
<1> QED BY <1>2, <1>3, WaitsRemains DEF WInv, Being, Called

LEMMA DispatchWaits == ASSUME WInv, Dispatch PROVE \A fd \in Fds : Waits(fd)'
<1>1. PICK op \in DOMAIN fired : fired' = BagRemove(fired, op) /\ Handle(op) BY DEF Dispatch
<1>2. /\ Boost /\ activity = Nobody /\ asked' = asked /\ armed' = armed /\ MInv
  BY DEF Dispatch, WInv
<1>3. Operations \ {op} \subseteq Operations' BY <1>1, <1>2, RemovedFromBag DEF Operations
<1>4. op.fd \in Fds /\ op.kind \in Signs /\ Honest(op) BY <1>1, <1>2, HandleCalls
<1>5. \A fd : Being(fd) = {} BY <1>2 DEF Being, Called
<1>6. CASE ~Alive(op) \/ op.aborted
  <2>1. activity' = activity /\ watchers' = watchers BY <1>1, <1>6 DEF Handle
  <2>2. \A fd, kind : Live(fd, kind) => Live(fd, kind)'
    <3> SUFFICES ASSUME NEW fd, NEW kind, Live(fd, kind) PROVE Live(fd, kind)' OBVIOUS
    <3>1. \A x : Alive(x)' <=> Alive(x) BY <2>1 DEF Alive
    <3> QED BY <1>3, <1>6, <3>1, LiveRemains
  <2>3. \A fd : Being(fd)' = Being(fd) BY <2>1 DEF Being, Called
  <2> QED BY <1>2, <2>1, <2>2, <2>3 DEF WInv, Waits
<1>7. CASE Alive(op) /\ ~op.aborted
  <2>1. watchers[op.fd] # Nobody BY <1>7 DEF Alive
  <2>2. /\ op.kind \in watchers[op.fd].events \/ op.kind = "heartbeat" =>
             activity' = [connection |-> op.connection, fd |-> op.fd,
                          events |-> {op.kind}, watcher |-> op.watcher]
        /\ ~(op.kind \in watchers[op.fd].events \/ op.kind = "heartbeat") => activity' = activity
        /\ watchers' = IF op.kind = "heartbeat" THEN watchers
                       ELSE [watchers EXCEPT ![op.fd].pending = watchers[op.fd].pending \ {op.kind}]
    BY <1>1, <1>7 DEF Handle, Call
  <2>3. /\ watchers'[op.fd].pending = watchers[op.fd].pending \ {op.kind}
        /\ \A fd \in Fds : /\ watchers'[fd] = Nobody <=> watchers[fd] = Nobody
                           /\ fd # op.fd => watchers'[fd] = watchers[fd]
                           /\ watchers[fd] # Nobody =>
                                /\ watchers'[fd].id = watchers[fd].id
                                /\ watchers'[fd].events = watchers[fd].events
    <3>1. watchers[op.fd].pending \subseteq Readiness BY <1>2, <1>4, <2>1, WatcherOf
    <3>2. CASE op.kind = "heartbeat" BY <2>2, <3>1, <3>2 DEF Readiness
    <3>3. CASE op.kind # "heartbeat"
      <4> DEFINE pending == watchers[op.fd].pending \ {op.kind}
      <4>1. pending \in SUBSET Readiness BY <3>1
      <4>2. watchers' = [watchers EXCEPT ![op.fd].pending = pending] BY <2>2, <3>3
      <4> HIDE DEF pending
      <4>3. /\ watchers'[op.fd].pending = pending
            /\ \A other \in Fds :
                 /\ watchers'[other] = Nobody <=> watchers[other] = Nobody
                 /\ other # op.fd => watchers'[other] = watchers[other]
                 /\ watchers[other] # Nobody =>
                      /\ watchers'[other].id = watchers[other].id
                      /\ watchers'[other].events = watchers[other].events
        BY <1>2, <1>4, <2>1, <4>1, <4>2, FlagsChange
      <4> QED BY <4>3 DEF pending
    <3> QED BY <3>2, <3>3
  <2>4. \A fd, kind : Live(fd, kind) /\ fd \in Fds /\ ~(fd = op.fd /\ kind = op.kind) => Live(fd, kind)'
    <3> SUFFICES ASSUME NEW fd \in Fds, NEW kind, Live(fd, kind), ~(fd = op.fd /\ kind = op.kind)
                 PROVE  Live(fd, kind)'
      OBVIOUS
    <3>1. ASSUME NEW x \in Operations, x.fd = fd, Alive(x) PROVE Alive(x)'
      BY <2>3, <3>1 DEF Alive
    <3> QED BY <1>3, <3>1, LiveRemains
  <2>5. activity' # Nobody => activity'.fd = op.fd BY <1>2, <2>2
  <2>6. \A fd \in Fds \ {op.fd} : Being(fd)' = {} BY <2>5 DEF Being, Called
  <2>7. ASSUME NEW fd \in Fds \ {op.fd} PROVE Waits(fd)'
    BY <1>2, <1>5, <2>3, <2>4, <2>6 DEF WInv, Waits
  <2>8. op.kind \in watchers[op.fd].events \/ op.kind = "heartbeat" => op.kind \in Being(op.fd)'
    <3> SUFFICES ASSUME op.kind \in watchers[op.fd].events \/ op.kind = "heartbeat"
                 PROVE  op.kind \in Being(op.fd)'
      OBVIOUS
    <3>1. activity' = [connection |-> op.connection, fd |-> op.fd,
                       events |-> {op.kind}, watcher |-> op.watcher]
      BY <2>2
    <3>2. activity' # Nobody
      <4>1. activity' \in [connection : Connections, fd : Fds, events : SUBSET Signs, watcher : Nat]
        BY <1>4, <3>1 DEF Honest
      <4> QED BY <4>1, NobodyAssumption
    <3> QED BY <3>1, <3>2 DEF Being, Called
  <2>9. Waits(op.fd)'
    <3>1. Waits(op.fd) /\ asked[op.fd] # Nobody BY <1>2, <1>4, <2>1 DEF WInv, MInv, Keeps
    <3>2. \A kind \in watchers'[op.fd].pending : Live(op.fd, kind)'
      BY <1>4, <2>3, <2>4, <3>1 DEF Waits
    <3>3. watchers'[op.fd].events \subseteq watchers'[op.fd].pending \cup Being(op.fd)'
      BY <1>4, <1>5, <2>1, <2>3, <2>8, <3>1 DEF Waits
    <3>4. "heartbeat" \in asked[op.fd].events =>
            Live(op.fd, "heartbeat")' \/ "heartbeat" \in Being(op.fd)'
      BY <1>4, <1>5, <2>4, <2>8, <3>1 DEF Waits
    <3> QED BY <1>2, <3>2, <3>3, <3>4 DEF Waits
  <2> QED BY <2>7, <2>9
<1> QED BY <1>6, <1>7

LEMMA ReturnWaits == ASSUME WInv, Boost, Return PROVE \A fd \in Fds : Waits(fd)'
<1>1. /\ activity # Nobody /\ activity' = Nobody /\ asked' = asked /\ MInv
  BY DEF Return, WInv
<1>2. PICK kind, op :
        /\ kind = CHOOSE k \in activity.events : TRUE
        /\ op = Operation(activity.watcher, activity.connection, activity.fd, kind)
        /\ IF Alive(op)
           THEN /\ StartTimer(op) \/ Start(op)
                /\ watchers' = [watchers EXCEPT ![op.fd].pending = @ \cup ({kind} \cap Readiness)]
           ELSE armed' = armed /\ fired' = fired /\ watchers' = watchers
  BY DEF Return
<1>3. activity.events = {kind} /\ kind \in Signs BY <1>1, <1>2 DEF MInv, Calling
<1>4. op.watcher = activity.watcher /\ op.fd = activity.fd /\ op.kind = kind /\ op.aborted = FALSE
      /\ op.fd \in Fds
  BY <1>1, <1>2 DEF Operation, MInv, Types
<1>5. \A fd : Being(fd)' = {} BY <1>1 DEF Being, Called
<1>6. \A fd \in Fds \ {op.fd} : Being(fd) = {} BY <1>4 DEF Being, Called
<1>7. CASE ~Alive(op)
  <2>1. asked[op.fd] = Nobody
    BY <1>1, <1>4, <1>7 DEF Alive, MInv, Keeps, Calling
  <2>2. armed' = armed /\ fired' = fired /\ watchers' = watchers BY <1>2, <1>7
  <2>3. Waits(op.fd)' BY <1>1, <2>1 DEF Waits
  <2>4. ASSUME NEW fd \in Fds \ {op.fd} PROVE Waits(fd)'
    BY <1>1, <1>5, <1>6, <2>2, WaitsRemains DEF WInv, Operations
  <2> QED BY <2>3, <2>4
<1>8. CASE Alive(op)
  <2>1. /\ StartTimer(op) \/ Start(op)
        /\ watchers[op.fd] # Nobody
        /\ watchers' = [watchers EXCEPT ![op.fd].pending =
                          watchers[op.fd].pending \cup ({kind} \cap Readiness)]
    BY <1>2, <1>4, <1>8 DEF Alive
  <2>2. watchers[op.fd].pending \cup ({kind} \cap Readiness) \in SUBSET Readiness
    BY <1>1, <1>4, <2>1, WatcherOf
  <2>3. /\ watchers'[op.fd].pending = watchers[op.fd].pending \cup ({kind} \cap Readiness)
        /\ \A fd \in Fds : /\ watchers'[fd] = Nobody <=> watchers[fd] = Nobody
                           /\ fd # op.fd => watchers'[fd] = watchers[fd]
                           /\ watchers[fd] # Nobody => /\ watchers'[fd].id = watchers[fd].id
                                                       /\ watchers'[fd].events = watchers[fd].events
    <3> DEFINE pending == watchers[op.fd].pending \cup ({kind} \cap Readiness)
    <3>1. pending \in SUBSET Readiness /\ watchers' = [watchers EXCEPT ![op.fd].pending = pending]
      BY <2>1, <2>2
    <3> HIDE DEF pending
    <3>2. /\ watchers'[op.fd].pending = pending
          /\ \A other \in Fds :
               /\ watchers'[other] = Nobody <=> watchers[other] = Nobody
               /\ other # op.fd => watchers'[other] = watchers[other]
               /\ watchers[other] # Nobody =>
                    /\ watchers'[other].id = watchers[other].id
                    /\ watchers'[other].events = watchers[other].events
      BY <1>1, <1>4, <2>1, <3>1, FlagsChange, ZenonT(40)
    <3> QED BY <3>2 DEF pending
  <2>4. Operations \cup {op} \subseteq Operations' BY <2>1, Launched
  <2>5. ASSUME NEW fd \in Fds \ {op.fd} PROVE Waits(fd)'
    BY <1>1, <1>5, <1>6, <2>3, <2>4, WaitsRemains DEF WInv
  <2>6. Waits(op.fd)'
    <3>1. Waits(op.fd) /\ asked[op.fd] # Nobody BY <1>1, <1>4, <2>1 DEF WInv, MInv, Keeps
    <3>2. watchers[op.fd].events \subseteq Readiness BY <1>1, <1>4, <3>1 DEF MInv, Keeps
    <3>3. Alive(op)' BY <1>4, <1>8, <2>1, <2>3 DEF Alive
    <3>4. Live(op.fd, kind)' BY <1>4, <2>4, <3>3 DEF Live
    <3>5. ASSUME NEW k, Live(op.fd, k) PROVE Live(op.fd, k)'
      <4>1. ASSUME NEW x \in Operations, x.fd = op.fd, Alive(x) PROVE Alive(x)'
        BY <1>4, <2>3, <4>1 DEF Alive
      <4> QED BY <2>4, <3>5, <4>1, LiveRemains
    <3>6. \A k \in watchers'[op.fd].pending : Live(op.fd, k)'
      BY <2>3, <3>1, <3>4, <3>5 DEF Waits
    <3>7. Being(op.fd) = {kind} BY <1>1, <1>3, <1>4 DEF Being, Called
    <3>8. watchers'[op.fd].events \subseteq watchers'[op.fd].pending
      BY <1>4, <2>1, <2>3, <3>1, <3>2, <3>7 DEF Waits
    <3>9. "heartbeat" \in asked[op.fd].events => Live(op.fd, "heartbeat")'
      BY <3>1, <3>4, <3>5, <3>7 DEF Waits
    <3> QED BY <1>1, <3>6, <3>8, <3>9 DEF Waits
  <2> QED BY <2>5, <2>6
<1> QED BY <1>7, <1>8

THEOREM NextWInv == WInv /\ [WatchNext]_watchVars => WInv'
<1> SUFFICES ASSUME WInv, [WatchNext]_watchVars PROVE WInv' OBVIOUS
<1>1. MInv /\ MInv' BY NextMInv DEF WInv
<1>2. handler' = handler
  BY DEF WatchNext, watchVars, Monitor, Asks, Negotiate, Detach, Break, Collect, OperationEnds,
         Callback, Dispatch, Return
<1>3. ASSUME Boost PROVE \A fd \in Fds : Waits(fd)'
  <2>1. CASE \E connection \in Connections, fd \in Fds, events \in SUBSET Readiness :
               Monitor(connection, fd, events)
    BY <1>3, <2>1, MonitorBoostWaits
  <2>2. CASE Negotiate BY <2>2, NegotiateWaits
  <2>3. CASE \E connection \in Connections : Detach(connection) BY <1>3, <2>3 DEF Detach, Boost
  <2>4. CASE \E fd \in Fds : Break(fd)
    <3>1. /\ asked' = asked /\ activity' = activity /\ watchers' = watchers
          /\ armed' = armed /\ fired' = fired
      BY <2>4 DEF Break
    <3> QED BY <1>3, <3>1, WaitsRemains DEF WInv, Operations, Being, Called
  <2>5. CASE \E fd \in Fds : Collect(fd) BY <1>3, <2>5 DEF Collect
  <2>6. CASE OperationEnds BY <2>6, OperationEndsWaits
  <2>7. CASE Callback BY <1>3, <2>7 DEF Callback
  <2>8. CASE Dispatch BY <2>8, DispatchWaits
  <2>9. CASE Return BY <1>3, <2>9, ReturnWaits
  <2>10. CASE UNCHANGED watchVars
    <3>1. /\ asked' = asked /\ activity' = activity /\ watchers' = watchers
          /\ armed' = armed /\ fired' = fired
      BY <2>10 DEF watchVars
    <3> QED BY <1>3, <3>1, WaitsRemains DEF WInv, Operations, Being, Called
  <2> QED BY <2>1, <2>2, <2>3, <2>4, <2>5, <2>6, <2>7, <2>8, <2>9, <2>10 DEF WatchNext
<1> QED BY <1>1, <1>2, <1>3 DEF WInv, Boost

LEMMA NothingForgotten == WInv => NothingUnwatched
<1> SUFFICES ASSUME WInv, NEW fd \in Fds, asked[fd] # Nobody,
                    ~(handler = "LibUvHandler" /\ fd \in broken)
             PROVE  asked[fd].events \subseteq Watched(fd) \cup Being(fd)
  BY DEF NothingUnwatched, Being
<1>1. Keeps(fd) /\ watchers[fd] # Nobody /\ asked[fd] \in [connection : Connections, events : SUBSET Signs]
  BY DEF WInv, MInv, Keeps, Types
<1>2. CASE handler = "LibEvHandler" BY <1>1, <1>2 DEF Keeps, Watched
<1>3. CASE handler = "LibUvHandler"
  <2>1. Watched(fd) = {e \in Readiness : UV[e] \in watchers[fd].flags} BY <1>1, <1>3 DEF Watched
  <2>2. /\ watchers[fd].flags = {UV[e] : e \in asked[fd].events}
        /\ asked[fd].events \subseteq Readiness
    BY <1>1, <1>3 DEF Keeps, amqp_to_uv_events, Boost
  <2> QED BY <2>1, <2>2
<1>4. CASE handler = "LibEventHandler"
  <2>1. Watched(fd) = {e \in Readiness : EV[e] \in watchers[fd].flags}
    BY <1>1, <1>4 DEF Watched, amqp_flags
  <2>2. /\ watchers[fd].flags = {"EV_PERSIST"} \cup {EV[e] : e \in asked[fd].events}
        /\ asked[fd].events \subseteq Readiness
    BY <1>1, <1>4 DEF Keeps, event_flags, Boost
  <2> QED BY <2>1, <2>2
<1>5. CASE Boost
  <2>1. Watched(fd) = {op.kind : op \in {o \in Operations : o.fd = fd /\ Alive(o) /\ ~o.aborted}}
    BY <1>1, <1>5 DEF Watched, Operations, Boost
  <2>2. \A kind : Live(fd, kind) => kind \in Watched(fd) BY <2>1 DEF Live
  <2>3. Waits(fd) /\ watchers[fd].events = asked[fd].events \cap Readiness
    BY <1>1, <1>5 DEF WInv, Keeps
  <2>4. asked[fd].events \subseteq (asked[fd].events \cap Readiness) \cup {"heartbeat"}
    BY <1>1 DEF Signs
  <2> QED BY <2>2, <2>3, <2>4 DEF Waits
<1> QED BY <1>2, <1>3, <1>4, <1>5 DEF WInv, MInv, Types, Boost

(* Whatever a connection asked for is watched, or it is being told: with   *)
(* Boost too, however many operations are under way and whichever of them  *)
(* belong to Watchers that are gone.                                       *)
THEOREM NothingIsUnwatched == WatchSpec => []NothingUnwatched
<1>1. WatchInit => WInv
  <2>1. WatchInit => \A fd \in Fds : Waits(fd) BY DEF WatchInit, Waits
  <2> QED BY <2>1, InitMInv DEF WInv
<1> QED BY <1>1, NextWInv, NothingForgotten, PTL DEF WatchSpec
=============================================================================
