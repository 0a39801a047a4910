------------------------------ MODULE Monitoring ------------------------------
(***************************************************************************)
(* What a TCP connection may expect of an event loop that it has asked, by *)
(* TcpHandler::monitor(), to watch a file descriptor                       *)
(* (src/tmp_install/include/amqpcpp/linux_tcp/tcphandler.h): it is called  *)
(* for what it asked for last and never again once it has given up the     *)
(* descriptor, which may belong to another connection by then.             *)
(***************************************************************************)
CONSTANTS Connections, Fds, Nobody

VARIABLES
  asked,     \* asked[fd]: who wants to hear of which events; Nobody for none
  broken,    \* descriptors with an error
  activity   \* what a connection is being told; Nobody while it is not

watching == <<asked, broken, activity>>

Readiness == {"readable", "writable"}
Signs     == Readiness \cup {"heartbeat"}

Idle ==
  /\ asked = [fd \in Fds |-> Nobody]
  /\ broken = {}
  /\ activity = Nobody

(* A connection wants something else of a descriptor that is its own or    *)
(* nobody's, or nothing any more.                                          *)
Asks(fd) ==
  /\ \E connection \in Connections :
       /\ asked[fd] # Nobody => asked[fd].connection = connection
       /\ asked' \in {[asked EXCEPT ![fd] = Nobody]} \cup
                     {[asked EXCEPT ![fd] = [connection |-> connection, events |-> events]] :
                        events \in SUBSET Signs}
  /\ broken' = IF asked'[fd] = Nobody THEN broken \ {fd} ELSE broken
  /\ UNCHANGED activity

(* A connection that goes away gives up all that is its own. *)
GoesAway(connection) ==
  LET own == {fd \in Fds : asked[fd] # Nobody /\ asked[fd].connection = connection}
  IN  /\ asked' = [fd \in Fds |-> IF fd \in own THEN Nobody ELSE asked[fd]]
      /\ broken' = broken \ own
      /\ UNCHANGED activity

Breaks(fd) == broken' = broken \cup {fd} /\ UNCHANGED <<asked, activity>>

(* An error counts as readable and writable. *)
Tells(fd) ==
  /\ activity = Nobody /\ asked[fd] # Nobody
  /\ \E events \in (SUBSET Signs) \ {{}} :
       /\ events \subseteq asked[fd].events \/ (fd \in broken /\ events = Readiness)
       /\ activity' = [connection |-> asked[fd].connection, fd |-> fd, events |-> events]
  /\ UNCHANGED <<asked, broken>>

Returns == activity' = Nobody /\ UNCHANGED <<asked, broken>>

Step ==
  \/ \E fd \in Fds : Asks(fd) \/ Breaks(fd) \/ Tells(fd)
  \/ \E connection \in Connections : GoesAway(connection)
  \/ Returns

Monitor == Idle /\ [][Step]_watching
=============================================================================
