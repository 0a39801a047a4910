------------------------------ MODULE MCStartup ------------------------------
(* Inputs for the model checker: every kind of argument, .env lines with   *)
(* blanks, both quotes, an empty value, a comment and no "=", and          *)
(* documents that vary in one or two respects.  Two connections share two  *)
(* descriptors, the resolver's and the socket's.                           *)
EXTENDS Process

MCArguments == {"-h", "-v", "-d", "-c", "-?", DefaultPath, "a.json", "b.json"}

MCEnvLines == {<<>>, <<" ">>, <<"#", "=">>, <<"export">>,
               <<" ", "RABBITMQ_PASS", "TAB", "=", " ", "''", "p", " ", "w", "''", " ">>,
               <<"RABBITMQ_PASS", "=", "'", "q", "=", "r", "'">>,
               <<"RABBITMQ_PASS", "=", "'">>,
               <<"RABBITMQ_PASS", "=", " ">>,
               <<"OTHER", "=", "o">>}

MCInherited == {Unset, <<"inherited">>}

Sound == [readable |-> TRUE, rabbitmq |-> TRUE, liquidsoap |-> TRUE, host |-> <<"h">>,
          port |-> 5672, user |-> <<"u">>, password |-> Unset, pass |-> Unset,
          vhost |-> <<"/">>, protocol |-> "socket", interval |-> 5000]

(* Numbers below, at and beyond their limits. *)
MCDocuments ==
  {[Sound EXCEPT !.readable = FALSE], [Sound EXCEPT !.rabbitmq = FALSE],
   [Sound EXCEPT !.liquidsoap = FALSE], [Sound EXCEPT !.protocol = "udp"]}
  \cup {[Sound EXCEPT !.password = a, !.pass = b] :
          a \in {Unset, <<"js">>}, b \in {Unset, <<"on">>}}
  \cup {[Sound EXCEPT !.interval = n, !.protocol = p] :
          n \in {Unset, 99, 100, IntervalRange + 99, IntervalRange + 100}, p \in {"socket", "telnet"}}
  \cup {[Sound EXCEPT !.port = n, !.vhost = v] :
          n \in {1, 5671, PortRange + 1}, v \in {<<"/">>, <<"radio">>, <<>>}}

MCFollowed == [Sound EXCEPT !.password = <<"js">>]

Alike == Permutations(Connections) \cup Permutations(Fds)
=============================================================================
