------------------------------ MODULE Gateway ------------------------------
(***************************************************************************)
(* The daemon main() wires together (src/src/main.cpp): one thread that    *)
(* runs, from libev's loop, the poll timer, the AMQP consumer and the      *)
(* signal watchers.  Each callback runs to its end, and blocks in          *)
(* execute() while Liquidsoap does not answer.  Commands wait in a durable *)
(* queue; a delivery is acknowledged after the StateManager has handled    *)
(* it.  The broker returns what was not acknowledged to its queue when the *)
(* connection or the process goes.  Nothing connects again; systemd starts *)
(* a new process when one ends by a failure.                               *)
(*                                                                         *)
(* StateManager is instantiated for poll() and status_request.             *)
(***************************************************************************)
EXTENDS Naturals, Sequences, SequencesExt

CONSTANTS
  Modes, Tracks, Title, Utf8, NoTrack,   \* as in StateManager
  Msgs,           \* the commands that may be published, each once
  Kind,           \* Kind[m]: "playlist" (set_playlist), "single" (push_audio, skip),
                  \* "status" (status_request) or "void" (not JSON, unknown, invalid)
  NoMsg,          \* no command
  Faults,         \* what may go wrong: "kill", "link", "setup", "terminate"
  MaxFaults,      \* how often, a bound for the model checker
  MaxAttempts     \* times one command is handled, another bound

Kinds == {"playlist", "single", "status", "void"}

ASSUME GatewayAssumption == /\ Kind \in [Msgs -> Kinds]
                            /\ NoMsg \notin Msgs
                            /\ MaxFaults \in Nat
                            /\ MaxAttempts \in Nat

VARIABLES
  stream, stale, state, bus, calm,   \* as in StateManager
  pc,          \* "loop": in ev_run; "metadata": within poll(); "reload", "settle":
               \* within onReceived; without a process "dead" (an exception),
               \* "killed", "fatal" (setup failed) or "stopped" (a signal)
  session,     \* of the AMQP connection: "starting", "opening", "consuming",
               \* "deaf" (bind or consume was refused), "lost" or "closed"
  current,     \* the command onReceived is at work on
  published,   \* the commands the broker accepted, in order
  queue,       \* commands ready in the broker's queue
  unacked,     \* commands delivered and not acknowledged, as the broker sees it
  wire,        \* deliveries the process has not handled yet
  acks,        \* acknowledgements the broker has not processed yet
  attempts,    \* attempts[m]: how often onReceived was called for m
  done,        \* done[m]: how often Liquidsoap confirmed all of m
  firsts,      \* history: the commands handled, in the order of their first time
  interrupted, \* history: commands unacknowledged when a process or link failed
  faults       \* faults so far

core   == <<stream, stale, state, bus, calm>>
broker == <<queue, unacked, wire, acks>>
work   == <<attempts, done, firsts>>
vars   == <<core, pc, session, current, published, broker, work, interrupted, faults>>

(* The core sees a process that is handling a command as one in its loop.  *)
CorePc == CASE pc \in {"reload", "settle"} -> "loop"
            [] pc \in {"fatal", "stopped"} -> "killed"
            [] OTHER -> pc

SM == INSTANCE StateManager WITH pc <- CorePc

Running == pc \in {"loop", "metadata", "reload", "settle"}

(* Commands the broker still has to see settled. *)
Held == ToSet(queue) \cup ToSet(unacked)

-----------------------------------------------------------------------------
(* Helpers *)

Fault(kind) == /\ kind \in Faults
               /\ faults < MaxFaults
               /\ faults' = faults + 1

(* The connection is gone for the broker: what was not acknowledged is     *)
(* ready again, in its old place at the head of the queue.                 *)
Requeue == /\ queue' = unacked \o queue
           /\ unacked' = <<>>
           /\ acks' = <<>>
           /\ interrupted' = interrupted \cup ToSet(unacked)

(* The process ends, and its connection with it. *)
End == /\ session' = "closed"
       /\ current' = NoMsg
       /\ wire' = <<>>
       /\ Requeue
       /\ UNCHANGED <<published, work>>

(* It ends for a reason outside of the core. *)
EndAs(how) == /\ pc' = how
              /\ state' = SM!Fresh
              /\ End
              /\ UNCHANGED <<stream, stale, bus, calm>>

-----------------------------------------------------------------------------
Init == /\ pc = "loop"
        /\ SM!Init
        /\ session = "starting"
        /\ current = NoMsg
        /\ published = <<>>
        /\ queue = <<>>
        /\ unacked = <<>>
        /\ wire = <<>>
        /\ acks = <<>>
        /\ attempts = [m \in Msgs |-> 0]
        /\ done = [m \in Msgs |-> 0]
        /\ firsts = <<>>
        /\ interrupted = {}
        /\ faults = 0

(* The poll timer's callback; both halves of poll() run in one callback.   *)
(* The first poll, in the loop's first turn, comes before the connection   *)
(* to the broker is open.                                                  *)
Poll ==
  /\ pc \in {"loop", "metadata"}
  /\ pc' \in {"loop", "metadata", "dead"}
  /\ SM!Poll
  /\ \/ /\ pc' = "dead"
        /\ End
     \/ /\ pc' # "dead"
        /\ session' = IF session = "starting" /\ pc = "metadata" THEN "opening" ELSE session
        /\ UNCHANGED <<current, published, broker, work, interrupted>>
  /\ UNCHANGED faults

(* The passive declarations of exchange and queue, bind and consume: all   *)
(* succeed; or bind or consume fails, which nothing notices; or the        *)
(* connection or a declaration fails, which breaks the loop.               *)
Setup ==
  /\ pc = "loop"
  /\ session = "opening"
  /\ \/ /\ session' = "consuming"
        /\ UNCHANGED <<core, pc, current, published, broker, work, interrupted, faults>>
     \/ /\ Fault("setup")
        /\ session' = "deaf"
        /\ UNCHANGED <<core, pc, current, published, broker, work, interrupted>>
     \/ /\ Fault("setup")
        /\ EndAs("fatal")

(* Mutant: consume with the noack flag. *)
DeliverNoAck ==
  /\ session = "consuming"
  /\ queue # <<>>
  /\ queue' = Tail(queue)
  /\ wire' = Append(wire, Head(queue))
  /\ UNCHANGED <<core, pc, session, current, published, unacked, acks, work, interrupted, faults>>

(* The broker delivers; consume() has set no prefetch limit. *)
Deliver ==
  /\ session = "consuming"
  /\ queue # <<>>
  /\ queue' = Tail(queue)
  /\ unacked' = Append(unacked, Head(queue))
  /\ wire' = Append(wire, Head(queue))
  /\ UNCHANGED <<core, pc, session, current, published, acks, work, interrupted, faults>>

(* onReceived for m: parse(), and handle_dj_command() up to its first      *)
(* request's result.  What does not parse never gets that far, what is     *)
(* invalid asks nothing; both end the same way.                            *)
Handle ==
  /\ pc = "loop"
  /\ wire # <<>>
  /\ LET m == Head(wire)
     IN  /\ attempts[m] < MaxAttempts
         /\ current' = m
         /\ attempts' = [attempts EXCEPT ![m] = @ + 1]
         /\ firsts' = IF attempts[m] = 0 THEN Append(firsts, m) ELSE firsts
         /\ pc' = IF Kind[m] = "playlist" /\ SM!Answers THEN "reload" ELSE "settle"
         /\ done' = IF Kind[m] = "single" /\ SM!Answers
                    THEN [done EXCEPT ![m] = @ + 1] ELSE done
         /\ CASE Kind[m] = "void"   -> UNCHANGED core
              [] Kind[m] = "status" -> SM!StatusRequest
              [] OTHER              -> SM!DjCommand
  /\ wire' = Tail(wire)
  /\ UNCHANGED <<session, published, queue, unacked, acks, interrupted, faults>>

(* set_playlist's second request. *)
Reload ==
  /\ pc = "reload"
  /\ pc' = "settle"
  /\ SM!DjCommand
  /\ done' = IF SM!Answers THEN [done EXCEPT ![current] = @ + 1] ELSE done
  /\ UNCHANGED <<session, current, published, broker, attempts, firsts, interrupted, faults>>

(* Mutant: the catch clause for parse errors returns without ack(). *)
SettleForgetsVoid ==
  /\ pc = "settle"
  /\ pc' = "loop"
  /\ current' = NoMsg
  /\ acks' = IF session = "consuming" /\ Kind[current] # "void"
             THEN Append(acks, current) ELSE acks
  /\ UNCHANGED <<core, session, published, queue, unacked, wire, work, interrupted, faults>>

(* Mutant: ack() names the command after it has been forgotten. *)
SettleStaleTag ==
  /\ pc = "settle"
  /\ pc' = "loop"
  /\ current' = NoMsg
  /\ acks' = IF session = "consuming" THEN Append(acks, current') ELSE acks
  /\ UNCHANGED <<core, session, published, queue, unacked, wire, work, interrupted, faults>>

(* Mutant: the catch clause for parse errors rejects with requeue. *)
SettleRejectsVoid ==
  /\ pc = "settle"
  /\ pc' = "loop"
  /\ current' = NoMsg
  /\ IF session = "consuming" /\ Kind[current] = "void"
     THEN /\ unacked' = RemoveFirst(unacked, current)
          /\ queue' = <<current>> \o queue
          /\ UNCHANGED acks
     ELSE /\ acks' = IF session = "consuming" THEN Append(acks, current) ELSE acks
          /\ UNCHANGED <<queue, unacked>>
  /\ UNCHANGED <<core, session, published, wire, work, interrupted, faults>>

(* ack(), whatever Liquidsoap made of the command, or reject() with        *)
(* requeue when a status_request threw; on a lost connection neither gets  *)
(* anywhere.                                                               *)
Settle ==
  /\ pc = "settle"
  /\ pc' = "loop"
  /\ current' = NoMsg
  /\ IF session = "consuming" /\ Kind[current] = "status" /\ ~SM!Dumpable(state)
     THEN /\ unacked' = RemoveFirst(unacked, current)
          /\ queue' = <<current>> \o queue
          /\ UNCHANGED acks
     ELSE /\ acks' = IF session = "consuming" THEN Append(acks, current) ELSE acks
          /\ UNCHANGED <<queue, unacked>>
  /\ UNCHANGED <<core, session, published, wire, work, interrupted, faults>>

(* Mutant: whoever handles the loss starts from a new state. *)
LinkLostResets ==
  /\ Running
  /\ session \in {"consuming", "deaf"}
  /\ Fault("link")
  /\ session' = "lost"
  /\ state' = SM!Fresh
  /\ wire' = <<>>
  /\ Requeue
  /\ UNCHANGED <<stream, stale, bus, calm, pc, current, published, work>>

(* The AMQP connection is lost.  While it opens, that breaks the loop;     *)
(* later nothing notices, and what had reached the process is handled.     *)
LinkLost ==
  /\ Fault("link")
  /\ \/ /\ pc = "loop"
        /\ session = "opening"
        /\ EndAs("fatal")
     \/ /\ Running
        /\ session \in {"consuming", "deaf"}
        /\ session' = "lost"
        /\ \E n \in 0..Len(wire) : wire' = SubSeq(wire, 1, n)
        /\ Requeue
        /\ UNCHANGED <<core, pc, current, published, work>>

(* SIGINT or SIGTERM, seen between two callbacks. *)
Terminate ==
  /\ pc = "loop"
  /\ Fault("terminate")
  /\ EndAs("stopped")

-----------------------------------------------------------------------------
(* Producers, the broker, Liquidsoap, and systemd. *)

Publish(m) ==
  /\ m \notin ToSet(published)
  /\ published' = Append(published, m)
  /\ queue' = Append(queue, m)
  /\ UNCHANGED <<core, pc, session, current, unacked, wire, acks, work, interrupted, faults>>

(* The broker processes an acknowledgement. *)
BrokerSettles ==
  /\ acks # <<>>
  /\ unacked' = RemoveFirst(unacked, Head(acks))
  /\ acks' = Tail(acks)
  /\ UNCHANGED <<core, pc, session, current, published, queue, wire, work, interrupted, faults>>

LiquidsoapChanges ==
  /\ UNCHANGED pc
  /\ SM!StreamChanges \/ SM!ConnectionCloses
  /\ UNCHANGED <<session, current, published, broker, work, interrupted, faults>>

Killed ==
  /\ Running
  /\ Fault("kill")
  /\ EndAs("killed")

(* Restart=on-failure: not after an exit status of 0. *)
Restart ==
  /\ pc \in {"dead", "killed"}
  /\ pc' = "loop"
  /\ SM!Restart
  /\ session' = "starting"
  /\ UNCHANGED <<current, published, broker, work, interrupted, faults>>

-----------------------------------------------------------------------------
Process == Poll \/ Setup \/ Handle \/ Reload \/ Settle

Next == \/ Process
        \/ Deliver
        \/ BrokerSettles
        \/ LinkLost
        \/ Terminate
        \/ Killed
        \/ Restart
        \/ LiquidsoapChanges
        \/ \E m \in Msgs : Publish(m)

Spec == Init /\ [][Next]_vars

(* A turn of the event loop serves every watcher that is ready, so none of *)
(* the three kinds of callbacks can starve another; a callback runs to its *)
(* end.  The broker does its work and systemd starts the service again.    *)
FairSpec == /\ Spec
            /\ SF_vars(Poll) /\ SF_vars(Setup) /\ SF_vars(Handle)
            /\ WF_vars(Reload) /\ WF_vars(Settle)
            /\ WF_vars(Deliver) /\ WF_vars(BrokerSettles)
            /\ WF_vars(Restart)

-----------------------------------------------------------------------------
(* Properties *)

BrokerTypeOK == /\ published \in Seq(Msgs)
                /\ queue \in Seq(Msgs)
                /\ unacked \in Seq(Msgs)
                /\ wire \in Seq(Msgs)
                /\ acks \in Seq(Msgs)

(* Every variable keeps its type. *)
TypeOK == /\ SM!TypeOK
          /\ pc \in {"loop", "metadata", "reload", "settle",
                     "dead", "killed", "fatal", "stopped"}
          /\ session \in {"starting", "opening", "consuming", "deaf", "lost", "closed"}
          /\ current \in Msgs \cup {NoMsg}
          /\ attempts \in [Msgs -> 0..MaxAttempts]
          /\ done \in [Msgs -> 0..MaxAttempts]
          /\ firsts \in Seq(Msgs)
          /\ interrupted \subseteq Msgs
          /\ faults \in 0..MaxFaults
          /\ BrokerTypeOK

(* On a sound connection no delivery is forgotten: what the broker waits   *)
(* for is on its way to the process, being handled, or acknowledged.       *)
NoDeliveryForgotten ==
  session = "consuming" =>
    unacked = acks \o (IF current = NoMsg THEN <<>> ELSE <<current>>) \o wire

(* A command that Liquidsoap has confirmed, or that asks nothing of it, is *)
(* handled again only when a process or a connection failed while the      *)
(* broker waited for its acknowledgement (docs/API.md:362-364 wants a      *)
(* retry for nothing but an unreachable Liquidsoap).                       *)
NoNeedlessRepeat ==
  [][\A m \in Msgs :
       /\ 0 < attempts[m] /\ attempts[m] < attempts'[m]
       /\ done[m] > 0 \/ Kind[m] \in {"void", "status"}
       => m \in interrupted]_vars

(* The commands leave the broker only once they have been handled, and     *)
(* their first times come in the order of publication, across crashes and  *)
(* redeliveries.                                                           *)
Delivery == INSTANCE CommandDelivery WITH pending <- Held
DeliversCommands == Delivery!Spec

(* Whatever the loop, the broker and the signals do between its steps, the *)
(* core behaves as StateManager says.                                      *)
CorePreserved == SM!Spec

(* The bound on attempts holds the next command back. *)
Exhausted == wire # <<>> /\ attempts[Head(wire)] = MaxAttempts

(* Nothing fails any more, and Liquidsoap replies. *)
Steady == /\ Running /\ session \notin {"lost", "deaf"}
          /\ stream.mode # "hung" /\ ~Exhausted

(* However often the process died or Liquidsoap hung: when a process lives *)
(* on with a connection that works, all that was published is settled.     *)
EveryCommandSettled == <>[]Steady => <>[](Held = {})

(* docs/API.md: on a connection failure towards Liquidsoap the command     *)
(* goes back to the queue, so one that left the queue was carried out.     *)
SettledMeansDone ==
  \A m \in ToSet(published) \ Held : Kind[m] \in {"playlist", "single"} => done[m] > 0

(* scripts/setup-service.sh: systemd restarts a service that failed. *)
FatalErrorRestarts == (pc = "fatal") ~> Running

(* docs/PRODUCER_IMPLEMENTATION.md: the connection to RabbitMQ is          *)
(* established again when it is lost.                                      *)
Reconnects == <>[](stream.mode # "hung") => (session = "lost") ~> (session = "consuming")
=============================================================================
