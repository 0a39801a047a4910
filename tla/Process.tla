-------------------------------- MODULE Process --------------------------------
(***************************************************************************)
(* main() from its start into its event loop.  Once the connection is made *)
(* it has its descriptors watched: Startup and then Watchers.  main() uses *)
(* LibEvHandler; with another of the library's handlers it would differ in *)
(* nothing else.                                                           *)
(***************************************************************************)
EXTENDS Startup, Watchers

CONSTANT Followed   \* bound: the one document with which the loop is followed,
                    \* from a start without arguments, .env or RABBITMQ_PASS

IsFollowed == argc = 0 /\ line_num = 0 /\ pass = Unset /\ document = Followed

Starting ==
  /\ Next
  /\ handler' \in IF pc' = "loop" /\ IsFollowed THEN Handlers ELSE {handler}
  /\ UNCHANGED <<asked, broken, activity, watchers, made, armed, fired>>

Looping == pc = "loop" /\ IsFollowed /\ WatchNext /\ UNCHANGED vars

ProcessInit == Init /\ WatchInit /\ handler = "LibEvHandler"

ProcessSpec == ProcessInit /\ [][Starting \/ Looping]_<<vars, watchVars>>
=============================================================================
