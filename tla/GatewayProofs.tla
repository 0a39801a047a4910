--------------------------- MODULE GatewayProofs ---------------------------
(* Theorems about Gateway, for any commands, tracks, faults and bounds.    *)
EXTENDS Gateway, SequenceTheorems, TLAPS

-----------------------------------------------------------------------------
(* The core is preserved: every step of the gateway is a step of           *)
(* StateManager or leaves its variables alone.                             *)

LEMMA CoreInit == Init => SM!Init
  BY DEF Init

LEMMA CoreStep == [Next]_vars => [SM!Next]_SM!vars
<1> SUFFICES ASSUME [Next]_vars
             PROVE  [SM!Next]_SM!vars
  OBVIOUS
<1> USE DEF core, broker, work
<1>1. CASE Poll
  BY <1>1 DEF Poll, SM!Next
<1>2. CASE Setup
  <2>1. CASE UNCHANGED <<core, pc>>
    BY <2>1 DEF SM!vars, CorePc
  <2>2. CASE EndAs("fatal") /\ pc = "loop"
    BY <2>2 DEF EndAs, CorePc, SM!Next, SM!Killed, SM!Alive
  <2>3. QED
    BY <1>2, <2>1, <2>2 DEF Setup
<1>3. CASE Deliver
  BY <1>3 DEF Deliver, SM!vars, CorePc
<1>4. CASE Handle
  <2>1. pc = "loop" /\ pc' \in {"reload", "settle"}
    BY <1>4 DEF Handle
  <2>2. CorePc = "loop" /\ CorePc' = "loop"
    BY <2>1 DEF CorePc
  <2>3. UNCHANGED core \/ SM!StatusRequest \/ SM!DjCommand
    BY <1>4 DEF Handle
  <2>4. QED
    BY <2>2, <2>3 DEF SM!vars, SM!Next
<1>5. CASE Reload
  BY <1>5 DEF Reload, SM!Next
<1>6. CASE Settle
  BY <1>6 DEF Settle, SM!vars, CorePc
<1>7. CASE LinkLost
  <2>1. CASE UNCHANGED <<core, pc>>
    BY <2>1 DEF SM!vars, CorePc
  <2>2. CASE EndAs("fatal") /\ pc = "loop"
    BY <2>2 DEF EndAs, CorePc, SM!Next, SM!Killed, SM!Alive
  <2>3. QED
    BY <1>7, <2>1, <2>2 DEF LinkLost
<1>8. CASE Terminate
  BY <1>8 DEF Terminate, EndAs, CorePc, SM!Next, SM!Killed, SM!Alive
<1>9. CASE Killed
  BY <1>9 DEF Killed, Running, EndAs, CorePc, SM!Next, SM!Killed, SM!Alive
<1>10. CASE Restart
  BY <1>10 DEF Restart, SM!Next
<1>11. CASE LiquidsoapChanges
  BY <1>11 DEF LiquidsoapChanges, SM!Next
<1>12. CASE \E m \in Msgs : Publish(m)
  BY <1>12 DEF Publish, SM!vars, CorePc
<1>13. CASE BrokerSettles
  BY <1>13 DEF BrokerSettles, SM!vars, CorePc
<1>14. CASE UNCHANGED vars
  BY <1>14 DEF vars, SM!vars, CorePc
<1>15. QED
  BY <1>1, <1>2, <1>3, <1>4, <1>5, <1>6, <1>7, <1>8, <1>9, <1>10, <1>11,
     <1>12, <1>13, <1>14 DEF Next, Process

(* Whatever the loop, the broker, faults and signals do between its steps, *)
(* the core behaves as StateManager says.                                  *)
THEOREM CoreIsPreserved == Spec => CorePreserved
  BY CoreInit, CoreStep, PTL DEF Spec, CorePreserved, SM!Spec

-----------------------------------------------------------------------------
(* In the daemon too the core's variables keep their types, and what it    *)
(* holds can be published.                                                 *)
CoreInv == SM!TypeOK /\ SM!StatePublishable

LEMMA CoreInvInit == Init => CoreInv
<1> SUFFICES ASSUME Init PROVE CoreInv
  OBVIOUS
<1>1. SM!Init
  BY CoreInit
<1>2. stream \in SM!Streams
  BY <1>1 DEF SM!Init, SM!Streams
<1>3. SM!Fresh \in SM!Snapshot /\ SM!Dumpable(SM!Fresh)
  BY DEF SM!Fresh, SM!Snapshot, SM!Dumpable
<1>4. QED
  BY <1>1, <1>2, <1>3 DEF CoreInv, SM!Init, SM!TypeOK, SM!StatePublishable

LEMMA CoreInvStep == CoreInv /\ [SM!Next]_SM!vars => CoreInv'
<1> SUFFICES ASSUME CoreInv, [SM!Next]_SM!vars
             PROVE  CoreInv'
  OBVIOUS
<1> USE DEF CoreInv, SM!TypeOK, SM!StatePublishable, SM!mirror
<1>1. SM!Fresh \in SM!Snapshot /\ SM!Dumpable(SM!Fresh)
  BY DEF SM!Fresh, SM!Snapshot, SM!Dumpable
<1>2. ASSUME NEW s \in SM!Snapshot, NEW next \in {"loop", "metadata"}, SM!SetState(s, next)
      PROVE  /\ state' \in SM!Snapshot /\ bus' \in SM!Snapshot /\ SM!Dumpable(state')
             /\ CorePc' \in {"loop", "metadata", "dead", "killed"}
  BY <1>1, <1>2 DEF SM!SetState
<1>3. CASE SM!UpdateStatus
  <2>1. [state EXCEPT !.status = SM!ReportedStatus] \in SM!Snapshot
    BY DEF SM!Snapshot, SM!ReportedStatus
  <2>2. QED
    BY <1>2, <1>3, <2>1 DEF SM!UpdateStatus, SM!Dumpable
<1>4. CASE SM!UpdateMetadata
  <2>1. [state EXCEPT !.track = stream.track] \in SM!Snapshot
    BY DEF SM!Snapshot, SM!Streams
  <2>2. QED
    BY <1>2, <1>4, <2>1 DEF SM!UpdateMetadata, SM!Dumpable
<1>5. CASE SM!StatusRequest
  BY <1>5 DEF SM!StatusRequest, SM!Dumpable
<1>6. CASE SM!DjCommand
  BY <1>6 DEF SM!DjCommand, SM!Dumpable
<1>7. CASE SM!StreamChanges
  BY <1>7 DEF SM!StreamChanges, SM!Dumpable
<1>8. CASE SM!ConnectionCloses
  BY <1>8 DEF SM!ConnectionCloses, SM!Dumpable
<1>9. CASE SM!Killed
  BY <1>1, <1>9 DEF SM!Killed
<1>10. CASE SM!Restart
  BY <1>1, <1>10 DEF SM!Restart
<1>11. CASE UNCHANGED SM!vars
  BY <1>11 DEF SM!vars, SM!Dumpable
<1>12. QED
  BY <1>3, <1>4, <1>5, <1>6, <1>7, <1>8, <1>9, <1>10, <1>11 DEF SM!Next, SM!Poll

(* To remove the first occurrence of the head is to take the tail. *)
LEMMA RemoveHead ==
  ASSUME NEW S, NEW s \in Seq(S), s # <<>>
  PROVE  RemoveFirst(s, Head(s)) = Tail(s)
<1>1. Len(s) \in Nat /\ Len(s) > 0 /\ s[1] = Head(s)
  OBVIOUS
<1>2. SelectInSeq(s, LAMBDA v : v = Head(s)) = 1
  <2> DEFINE I == {i \in 1..Len(s) : s[i] = Head(s)}
  <2>1. 1 \in I /\ \A i \in I : 1 <= i /\ i \in Nat
    BY <1>1
  <2> HIDE DEF I
  <2>2. Min(I) = 1
    BY <2>1 DEF Min
  <2>3. QED
    BY <2>1, <2>2 DEF SelectInSeq, I
<1>3. RemoveFirst(s, Head(s)) = RemoveAt(s, 1)
  BY <1>1, <1>2 DEF RemoveFirst
<1>4. QED
  BY <1>1, <1>3 DEF RemoveAt

-----------------------------------------------------------------------------
(* The invariant.  Commands are numbered as they were published.  Those    *)
(* the broker holds are the last ones: Settled are gone, the unacked ones  *)
(* follow, then the queue.                                                 *)
Settled == Len(published) - Len(queue) - Len(unacked)

Numbering ==
  /\ Settled \in Nat /\ Settled <= Len(firsts) /\ Len(firsts) <= Len(published)
  /\ \A i, j \in 1..Len(published) : published[i] = published[j] => i = j
  /\ \A i \in 1..Len(firsts) : firsts[i] = published[i]
  /\ \A i \in 1..Len(unacked) : unacked[i] = published[Settled + i]
  /\ \A i \in 1..Len(queue) : queue[i] = published[Settled + Len(unacked) + i]

(* How many commands onReceived is at work on. *)
Own == IF current = NoMsg THEN 0 ELSE 1

(* On a sound connection what was not acknowledged is the commands whose   *)
(* acknowledgement is on its way, the one at work and those on the wire.   *)
Connection ==
  /\ Len(unacked) = Len(acks) + Own + Len(wire)
  /\ Settled + Len(acks) + Own <= Len(firsts)
  /\ \A i \in 1..Len(acks) : acks[i] = unacked[i]
  /\ current # NoMsg => current = unacked[Len(acks) + 1]
  /\ \A i \in 1..Len(wire) : wire[i] = unacked[Len(acks) + Own + i]

(* What is left on the wire of a lost one follows some that were handled. *)
Remains ==
  /\ \A i \in 1..Len(wire) : wire[i] \in interrupted
  /\ \E o \in 0..Len(firsts) :
       /\ o + Len(wire) <= Len(published)
       /\ \A i \in 1..Len(wire) : wire[i] = published[o + i]

Sessions ==
  /\ session = "consuming" => Connection
  /\ session # "consuming" => unacked = <<>> /\ acks = <<>>
  /\ session = "lost" => Remains
  /\ session \notin {"consuming", "lost"} => wire = <<>> /\ current = NoMsg

(* The process has at most one command at work, in onReceived only. *)
Control ==
  /\ pc \in {"reload", "settle"} <=> current # NoMsg
  /\ Running <=> session # "closed"
  /\ session = "starting" => pc \in {"loop", "metadata"}

(* The code is stricter than NoNeedlessRepeat, and this is what the other  *)
(* parts rest on: an attempt is followed by ack() unless a failure cuts in.*)
RepeatsInterrupted == \A m \in Msgs : attempts[m] > 1 => m \in interrupted

(* What was handled, how often, and what it may be handled again for. *)
Counting ==
  /\ \A m \in Msgs : done[m] <= attempts[m]
  /\ pc = "reload" => done[current] < attempts[current]
  /\ \A m \in Msgs : attempts[m] # 0 <=> \E i \in 1..Len(firsts) : firsts[i] = m
  /\ RepeatsInterrupted
  /\ \A i \in 1..Len(queue) : attempts[queue[i]] # 0 => queue[i] \in interrupted
  /\ \A i \in 1..Len(wire) : attempts[wire[i]] # 0 => wire[i] \in interrupted

Types ==
  /\ pc \in {"loop", "metadata", "reload", "settle", "dead", "killed", "fatal", "stopped"}
  /\ session \in {"starting", "opening", "consuming", "deaf", "lost", "closed"}
  /\ current \in Msgs \cup {NoMsg}
  /\ attempts \in [Msgs -> 0..MaxAttempts]
  /\ done \in [Msgs -> 0..MaxAttempts]
  /\ firsts \in Seq(Msgs)
  /\ interrupted \subseteq Msgs
  /\ faults \in 0..MaxFaults
  /\ BrokerTypeOK

GInv == Types /\ Numbering /\ Sessions /\ Control /\ Counting

LEMMA InvInit == Init => GInv
<1> SUFFICES ASSUME Init PROVE GInv
  OBVIOUS
<1>1. Types
  BY GatewayAssumption DEF Init, Types, BrokerTypeOK
<1>2. Numbering
  BY DEF Init, Numbering, Settled
<1>3. Sessions
  BY DEF Init, Sessions
<1>4. Control
  BY DEF Init, Control, Running
<1>5. Counting
  BY DEF Init, Counting, RepeatsInterrupted
<1>6. QED
  BY <1>1, <1>2, <1>3, <1>4, <1>5 DEF GInv

(* A step of the process, or of Liquidsoap, that has nothing to do with    *)
(* commands.                                                               *)
LEMMA Undisturbed ==
  ASSUME GInv,
         UNCHANGED <<current, published, queue, unacked, wire, acks, attempts, done, firsts,
                     interrupted>>,
         Types', Control',
         pc' = "reload" => pc = "reload",
         session' = session \/ (session' # "lost" /\ session \notin {"consuming", "lost"})
  PROVE  GInv'
<1>1. Numbering' /\ Settled' = Settled /\ Own' = Own
  BY DEF GInv, Numbering, Settled, Own
<1>2. Sessions'
  <2>1. CASE session' = session
    BY <1>1, <2>1 DEF GInv, Sessions, Connection, Remains
  <2>2. CASE session' # "lost" /\ session \notin {"consuming", "lost"}
    <3>1. wire = <<>> /\ current = NoMsg /\ unacked = <<>> /\ acks = <<>>
      BY <2>2 DEF GInv, Sessions
    <3>2. Own' = 0 /\ Settled' \in Nat /\ Settled' <= Len(firsts')
      BY <1>1, <3>1 DEF Own, Numbering
    <3>3. Connection'
      BY <3>1, <3>2 DEF Connection
    <3>4. QED
      BY <2>2, <3>1, <3>3 DEF Sessions
  <2>3. QED
    BY <2>1, <2>2
<1>3. Counting'
  BY DEF GInv, Counting, RepeatsInterrupted
<1>4. QED
  BY <1>1, <1>2, <1>3 DEF GInv

(* When the broker takes back what was not acknowledged, it is where it    *)
(* was before, at the head of the queue, and counts as interrupted.        *)
LEMMA Requeued ==
  ASSUME GInv, Requeue, UNCHANGED <<published, firsts, attempts>>
  PROVE  /\ queue' \in Seq(Msgs) /\ interrupted' \subseteq Msgs
         /\ Numbering'
         /\ RepeatsInterrupted'
         /\ \A i \in 1..Len(queue') : attempts[queue'[i]] # 0 => queue'[i] \in interrupted'
<1> USE DEF Requeue
<1>1. queue \in Seq(Msgs) /\ unacked \in Seq(Msgs) /\ published \in Seq(Msgs) /\ interrupted \subseteq Msgs
  BY DEF GInv, Types, BrokerTypeOK
<1>2. /\ queue' \in Seq(Msgs) /\ Len(queue') = Len(unacked) + Len(queue)
      /\ \A i \in 1..Len(unacked) + Len(queue) :
           queue'[i] = IF i <= Len(unacked) THEN unacked[i] ELSE queue[i - Len(unacked)]
  BY <1>1, ConcatProperties
<1>3. /\ \A i \in 1..Len(unacked) : unacked[i] \in interrupted'
      /\ interrupted \subseteq interrupted' /\ interrupted' \subseteq Msgs
  BY <1>1 DEF ToSet
<1>4. Settled' = Settled
  BY <1>1, <1>2 DEF Settled
<1>5. \A i \in 1..Len(queue') : queue'[i] = published[Settled + i]
  <2> SUFFICES ASSUME NEW i \in 1..Len(queue') PROVE queue'[i] = published[Settled + i]
    OBVIOUS
  <2>1. CASE i <= Len(unacked)
    BY <1>1, <1>2, <2>1 DEF GInv, Numbering
  <2>2. CASE i > Len(unacked)
    <3>1. i - Len(unacked) \in 1..Len(queue)
      BY <1>1, <1>2, <2>2
    <3>2. queue[i - Len(unacked)] = published[Settled + Len(unacked) + (i - Len(unacked))]
      BY <3>1 DEF GInv, Numbering
    <3>3. Settled + Len(unacked) + (i - Len(unacked)) = Settled + i
      BY <1>1 DEF GInv, Numbering
    <3>4. QED
      BY <1>1, <1>2, <2>2, <3>2, <3>3
  <2>3. QED
    BY <1>1, <1>2, <2>1, <2>2
<1>6. Numbering'
  BY <1>4, <1>5 DEF GInv, Numbering
<1>7. \A i \in 1..Len(queue') : attempts[queue'[i]] # 0 => queue'[i] \in interrupted'
  <2> SUFFICES ASSUME NEW i \in 1..Len(queue'), attempts[queue'[i]] # 0
               PROVE  queue'[i] \in interrupted'
    OBVIOUS
  <2>1. CASE i <= Len(unacked)
    BY <1>1, <1>2, <1>3, <2>1
  <2>2. CASE i > Len(unacked)
    <3>1. i - Len(unacked) \in 1..Len(queue)
      BY <1>1, <1>2, <2>2
    <3>2. QED
      BY <1>1, <1>2, <1>3, <2>2, <3>1 DEF GInv, Counting
  <2>3. QED
    BY <1>1, <1>2, <2>1, <2>2
<1>8. QED
  BY <1>2, <1>3, <1>6, <1>7 DEF GInv, Counting, RepeatsInterrupted

(* The process ends, one way or another. *)
LEMMA EndInv ==
  ASSUME GInv, End, pc' \in {"dead", "killed", "fatal", "stopped"}, faults' \in 0..MaxFaults
  PROVE  GInv'
<1>1. UNCHANGED <<published, attempts, done, firsts>> /\ session' = "closed"
      /\ current' = NoMsg /\ wire' = <<>> /\ Requeue
  BY DEF End, work
<1>2. unacked' = <<>> /\ acks' = <<>>
  BY <1>1 DEF Requeue
<1>3. Types'
  BY <1>1, <1>2, Requeued DEF GInv, Types, BrokerTypeOK
<1>4. Sessions'
  BY <1>1, <1>2 DEF Sessions
<1>5. Control'
  BY <1>1 DEF Control, Running
<1>6. Counting'
  BY <1>1, Requeued DEF GInv, Counting
<1>7. QED
  BY <1>1, <1>3, <1>4, <1>5, <1>6, Requeued DEF GInv

LEMMA FaultTyped == ASSUME GInv, NEW kind, Fault(kind) PROVE faults' \in 0..MaxFaults
  BY GatewayAssumption DEF GInv, Types, Fault

LEMMA PollInv == ASSUME GInv, Poll PROVE GInv'
<1>1. faults' = faults /\ faults \in 0..MaxFaults
  BY DEF Poll, GInv, Types
<1>2. CASE pc' = "dead" /\ End
  BY <1>1, <1>2, EndInv
<1>3. CASE pc' # "dead"
  <2>1. /\ UNCHANGED <<current, published, queue, unacked, wire, acks, attempts, done, firsts,
                       interrupted>>
        /\ session' = IF session = "starting" /\ pc = "metadata" THEN "opening" ELSE session
        /\ pc \in {"loop", "metadata"} /\ pc' \in {"loop", "metadata"}
    BY <1>3 DEF Poll, broker, work
  <2>2. Types'
    BY <1>1, <2>1 DEF GInv, Types, BrokerTypeOK
  <2>3. Control'
    BY <2>1 DEF GInv, Control, Running
  <2>4. QED
    BY <2>1, <2>2, <2>3, Undisturbed
<1>4. QED
  BY <1>2, <1>3 DEF Poll

LEMMA SetupInv == ASSUME GInv, Setup PROVE GInv'
<1>1. CASE EndAs("fatal") /\ Fault("setup")
  BY <1>1, EndInv, FaultTyped DEF EndAs
<1>2. CASE /\ session' \in {"consuming", "deaf"}
           /\ UNCHANGED <<core, pc, current, published, broker, work, interrupted>>
           /\ faults' = faults \/ Fault("setup")
  <2>1. /\ UNCHANGED <<pc, current, published, queue, unacked, wire, acks, attempts, done, firsts,
                       interrupted>>
        /\ pc = "loop" /\ session = "opening"
    BY <1>2 DEF Setup, broker, work
  <2>2. Types'
    BY <1>2, <2>1, FaultTyped DEF GInv, Types, BrokerTypeOK
  <2>3. Control'
    BY <1>2, <2>1 DEF GInv, Control, Running
  <2>4. QED
    BY <1>2, <2>1, <2>2, <2>3, Undisturbed
<1>3. QED
  BY <1>1, <1>2 DEF Setup

LEMMA LinkLostInv == ASSUME GInv, LinkLost PROVE GInv'
<1>0. faults' \in 0..MaxFaults
  BY FaultTyped DEF LinkLost
<1>1. CASE EndAs("fatal")
  BY <1>0, <1>1, EndInv DEF EndAs
<1>2. CASE /\ Running
           /\ session \in {"consuming", "deaf"}
           /\ session' = "lost"
           /\ \E n \in 0..Len(wire) : wire' = SubSeq(wire, 1, n)
           /\ Requeue
           /\ UNCHANGED <<core, pc, current, published, work>>
  <2>1. /\ UNCHANGED <<pc, current, published, attempts, done, firsts>>
        /\ unacked' = <<>> /\ acks' = <<>>
    BY <1>2 DEF work, Requeue
  <2>2. PICK n \in 0..Len(wire) : wire' = SubSeq(wire, 1, n)
    BY <1>2
  <2>3. wire \in Seq(Msgs) /\ unacked \in Seq(Msgs) /\ acks \in Seq(Msgs)
    BY DEF GInv, Types, BrokerTypeOK
  <2>4. /\ wire' \in Seq(Msgs) /\ Len(wire') = n /\ n <= Len(wire)
        /\ \A i \in 1..n : wire'[i] = wire[i] /\ i \in 1..Len(wire)
    BY <2>2, <2>3
  <2>5. Types'
    <3>1. queue' \in Seq(Msgs) /\ interrupted' \subseteq Msgs
      BY <1>2, <2>1, Requeued
    <3>2. BrokerTypeOK'
      BY <2>1, <2>4, <3>1 DEF GInv, Types, BrokerTypeOK
    <3>3. QED
      BY <1>0, <1>2, <2>1, <3>1, <3>2 DEF GInv, Types
  <2>6. Control'
    BY <1>2, <2>1 DEF GInv, Control, Running
  <2>7. /\ interrupted \subseteq interrupted'
        /\ \A i \in 1..Len(unacked) : unacked[i] \in interrupted'
    BY <1>2, <2>3 DEF Requeue, ToSet
  <2>8. Counting'
    <3>1. \A i \in 1..Len(wire') : attempts[wire'[i]] # 0 => wire'[i] \in interrupted'
      BY <2>4, <2>7 DEF GInv, Counting
    <3>2. QED
      BY <1>2, <2>1, <3>1, Requeued DEF GInv, Counting
  <2>9. Remains'
    <3>1. CASE session = "deaf"
      <4>1. wire = <<>>
        BY <3>1 DEF GInv, Sessions
      <4>2. Len(wire') = 0 /\ Len(firsts) \in Nat /\ Len(published) \in Nat
        BY <2>4, <4>1 DEF GInv, Types, BrokerTypeOK
      <4>3. QED
        BY <2>1, <4>2 DEF Remains
    <3>2. CASE session = "consuming"
      <4> DEFINE o == Settled + Len(acks) + Own
      <4>1. Connection /\ Numbering /\ Own \in {0, 1}
        BY <3>2 DEF GInv, Sessions, Own
      <4>2. o \in 0..Len(firsts)
        BY <2>3, <4>1 DEF Connection, Numbering, GInv, Types
      <4>3. o + Len(wire) <= Len(published)
        BY <2>3, <4>1 DEF Connection, Numbering, Settled, GInv, Types, BrokerTypeOK
      <4>4. \A i \in 1..Len(wire) : wire[i] = published[o + i] /\ wire[i] \in interrupted'
        <5> SUFFICES ASSUME NEW i \in 1..Len(wire)
                     PROVE  wire[i] = published[o + i] /\ wire[i] \in interrupted'
          OBVIOUS
        <5>1. Len(acks) + Own + i \in 1..Len(unacked)
          BY <2>3, <4>1 DEF Connection
        <5>2. wire[i] = unacked[Len(acks) + Own + i]
          BY <4>1 DEF Connection
        <5>3. unacked[Len(acks) + Own + i] = published[Settled + (Len(acks) + Own + i)]
          BY <4>1, <5>1 DEF Numbering
        <5>4. Settled + (Len(acks) + Own + i) = o + i
          BY <2>3, <4>1 DEF Numbering
        <5>5. QED
          BY <2>7, <5>1, <5>2, <5>3, <5>4
      <4>5. o + n <= Len(published) /\ Len(published') = Len(published) /\ firsts' = firsts
        BY <2>1, <2>3, <2>4, <4>1, <4>2, <4>3
      <4>6. \A i \in 1..Len(wire') : wire'[i] = published'[o + i] /\ wire'[i] \in interrupted'
        BY <2>1, <2>4, <4>4
      <4> HIDE DEF o
      <4>7. QED
        BY <2>4, <4>2, <4>5, <4>6 DEF Remains
    <3>3. QED
      BY <1>2, <3>1, <3>2
  <2>10. Sessions'
    BY <1>2, <2>1, <2>9 DEF Sessions
  <2>11. QED
    BY <1>2, <2>1, <2>5, <2>6, <2>8, <2>10, Requeued DEF GInv
<1>3. QED
  BY <1>1, <1>2 DEF LinkLost

LEMMA EndAsInv ==
  ASSUME GInv, NEW how \in {"killed", "fatal", "stopped"}, EndAs(how), faults' \in 0..MaxFaults
  PROVE  GInv'
  BY EndInv DEF EndAs

LEMMA RestartInv == ASSUME GInv, Restart PROVE GInv'
<1>1. /\ UNCHANGED <<current, published, queue, unacked, wire, acks, attempts, done, firsts,
                     interrupted, faults>>
      /\ pc \in {"dead", "killed"} /\ pc' = "loop" /\ session' = "starting"
  BY DEF Restart, broker, work
<1>2. session = "closed"
  BY <1>1 DEF GInv, Control, Running
<1>3. Types'
  BY <1>1 DEF GInv, Types, BrokerTypeOK
<1>4. Control'
  BY <1>1 DEF GInv, Control, Running
<1>5. QED
  BY <1>1, <1>2, <1>3, <1>4, Undisturbed

LEMMA LiquidsoapInv == ASSUME GInv, LiquidsoapChanges PROVE GInv'
<1>1. UNCHANGED <<pc, session, current, published, queue, unacked, wire, acks, attempts, done,
                  firsts, interrupted, faults>>
  BY DEF LiquidsoapChanges, broker, work
<1>2. Types' /\ Control'
  BY <1>1 DEF GInv, Types, BrokerTypeOK, Control, Running
<1>3. QED
  BY <1>1, <1>2, Undisturbed

(* A delivery moves the head of the queue to the end of what is unacked,   *)
(* and to the wire.                                                        *)
LEMMA DeliverInv == ASSUME GInv, Deliver PROVE GInv'
<1>1. /\ UNCHANGED <<pc, session, current, published, acks, attempts, done, firsts, interrupted,
                     faults>>
      /\ session = "consuming" /\ queue # <<>> /\ queue' = Tail(queue)
      /\ unacked' = Append(unacked, Head(queue)) /\ wire' = Append(wire, Head(queue))
  BY DEF Deliver, work
<1>2. /\ queue \in Seq(Msgs) /\ unacked \in Seq(Msgs) /\ wire \in Seq(Msgs)
      /\ acks \in Seq(Msgs) /\ published \in Seq(Msgs)
  BY DEF GInv, Types, BrokerTypeOK
<1>3. /\ queue' \in Seq(Msgs) /\ Len(queue') = Len(queue) - 1 /\ Len(queue) \in Nat \ {0}
      /\ \A i \in 1..Len(queue') : queue'[i] = queue[i + 1] /\ i + 1 \in 1..Len(queue)
      /\ Head(queue) = queue[1] /\ Head(queue) \in Msgs
  BY <1>1, <1>2
<1>4. /\ unacked' \in Seq(Msgs) /\ Len(unacked') = Len(unacked) + 1
      /\ \A i \in 1..Len(unacked) : unacked'[i] = unacked[i]
      /\ unacked'[Len(unacked) + 1] = queue[1]
  BY <1>1, <1>2, <1>3
<1>5. /\ wire' \in Seq(Msgs) /\ Len(wire') = Len(wire) + 1
      /\ \A i \in 1..Len(wire) : wire'[i] = wire[i]
      /\ wire'[Len(wire) + 1] = queue[1]
  BY <1>1, <1>2, <1>3
<1>6. Types'
  BY <1>1, <1>3, <1>4, <1>5 DEF GInv, Types, BrokerTypeOK
<1>7. Settled' = Settled /\ Own' = Own /\ Own \in {0, 1}
  BY <1>1, <1>2, <1>3, <1>4 DEF Settled, Own
<1>8. Numbering'
  <2>1. \A i \in 1..Len(unacked') : unacked'[i] = published[Settled + i]
    <3> SUFFICES ASSUME NEW i \in 1..Len(unacked') PROVE unacked'[i] = published[Settled + i]
      OBVIOUS
    <3>1. CASE i \in 1..Len(unacked)
      BY <1>4, <3>1 DEF GInv, Numbering
    <3>2. CASE i = Len(unacked) + 1
      <4>1. queue[1] = published[Settled + Len(unacked) + 1]
        BY <1>3 DEF GInv, Numbering
      <4>2. QED
        BY <1>2, <1>4, <3>2, <4>1 DEF GInv, Numbering
    <3>3. QED
      BY <1>2, <1>4, <3>1, <3>2
  <2>2. \A i \in 1..Len(queue') : queue'[i] = published[Settled + Len(unacked') + i]
    <3> SUFFICES ASSUME NEW i \in 1..Len(queue')
                 PROVE  queue'[i] = published[Settled + Len(unacked') + i]
      OBVIOUS
    <3>1. queue'[i] = published[Settled + Len(unacked) + (i + 1)]
      BY <1>3 DEF GInv, Numbering
    <3>2. Settled + Len(unacked) + (i + 1) = Settled + Len(unacked') + i
      BY <1>2, <1>4 DEF GInv, Numbering
    <3>3. QED
      BY <3>1, <3>2
  <2>3. QED
    BY <1>1, <1>7, <2>1, <2>2 DEF GInv, Numbering
<1>9. Connection'
  <2>1. Connection
    BY <1>1 DEF GInv, Sessions
  <2>2. \A i \in 1..Len(wire') : wire'[i] = unacked'[Len(acks) + Own + i]
    <3> SUFFICES ASSUME NEW i \in 1..Len(wire')
                 PROVE  wire'[i] = unacked'[Len(acks) + Own + i]
      OBVIOUS
    <3>1. CASE i \in 1..Len(wire)
      <4>1. Len(acks) + Own + i \in 1..Len(unacked)
        BY <1>2, <1>7, <2>1, <3>1 DEF Connection
      <4>2. QED
        BY <1>4, <1>5, <2>1, <3>1, <4>1 DEF Connection
    <3>2. CASE i = Len(wire) + 1
      BY <1>2, <1>4, <1>5, <1>7, <2>1, <3>2 DEF Connection
    <3>3. QED
      BY <1>2, <1>5, <3>1, <3>2
  <2>3. \A i \in 1..Len(acks) : acks[i] = unacked'[i]
    BY <1>2, <1>4, <1>7, <2>1 DEF Connection
  <2>4. current # NoMsg => current = unacked'[Len(acks) + 1]
    BY <1>2, <1>4, <1>7, <2>1 DEF Connection, Own
  <2>5. Len(unacked') = Len(acks) + Own + Len(wire')
    BY <1>2, <1>4, <1>5, <1>7, <2>1 DEF Connection
  <2>6. QED
    BY <1>1, <1>7, <2>1, <2>2, <2>3, <2>4, <2>5 DEF Connection
<1>10. Counting'
  <2>1. \A i \in 1..Len(queue') : attempts[queue'[i]] # 0 => queue'[i] \in interrupted
    BY <1>3 DEF GInv, Counting
  <2>2. \A i \in 1..Len(wire') : attempts[wire'[i]] # 0 => wire'[i] \in interrupted
    <3>1. attempts[queue[1]] # 0 => queue[1] \in interrupted
      BY <1>3 DEF GInv, Counting
    <3>2. \A i \in 1..Len(wire) : attempts[wire'[i]] # 0 => wire'[i] \in interrupted
      BY <1>5 DEF GInv, Counting
    <3>3. \A i \in 1..Len(wire') : i \in 1..Len(wire) \/ i = Len(wire) + 1
      BY <1>2, <1>5
    <3>4. QED
      BY <1>5, <3>1, <3>2, <3>3
  <2>3. QED
    BY <1>1, <2>1, <2>2 DEF GInv, Counting, RepeatsInterrupted
<1>11. Sessions' /\ Control'
  BY <1>1, <1>9 DEF GInv, Sessions, Control, Running
<1>12. QED
  BY <1>6, <1>8, <1>10, <1>11 DEF GInv

(* Acknowledgements arrive in the order of the deliveries. *)
LEMMA SettledFirst ==
  ASSUME GInv, acks # <<>>
  PROVE  /\ session = "consuming" /\ Connection
         /\ Len(acks) \in Nat \ {0} /\ Len(unacked) \in Nat \ {0}
         /\ Head(acks) = Head(unacked) /\ Head(acks) = published[Settled + 1]
<1>1. session = "consuming" /\ Connection
  BY DEF GInv, Sessions
<1>2. acks \in Seq(Msgs) /\ unacked \in Seq(Msgs) /\ wire \in Seq(Msgs) /\ Own \in {0, 1}
  BY DEF GInv, Types, BrokerTypeOK, Own
<1>3. Len(acks) \in Nat \ {0} /\ Len(unacked) \in Nat \ {0}
  BY <1>1, <1>2 DEF Connection
<1>4. acks[1] = unacked[1] /\ unacked[1] = published[Settled + 1]
  BY <1>1, <1>3 DEF Connection, GInv, Numbering
<1>5. QED
  BY <1>1, <1>2, <1>3, <1>4

LEMMA BrokerSettlesInv == ASSUME GInv, BrokerSettles PROVE GInv'
<1>1. /\ UNCHANGED <<pc, session, current, published, queue, wire, attempts, done, firsts,
                     interrupted, faults>>
      /\ acks # <<>> /\ acks' = Tail(acks) /\ unacked' = RemoveFirst(unacked, Head(acks))
  BY DEF BrokerSettles, work
<1>2. /\ queue \in Seq(Msgs) /\ unacked \in Seq(Msgs) /\ wire \in Seq(Msgs)
      /\ acks \in Seq(Msgs) /\ published \in Seq(Msgs) /\ Own \in {0, 1}
  BY DEF GInv, Types, BrokerTypeOK, Own
<1>3. unacked # <<>> /\ unacked' = Tail(unacked)
  BY <1>1, <1>2, RemoveHead, SettledFirst
<1>4. /\ acks' \in Seq(Msgs) /\ Len(acks') = Len(acks) - 1
      /\ \A i \in 1..Len(acks') : acks'[i] = acks[i + 1] /\ i + 1 \in 1..Len(acks)
  BY <1>1, <1>2, SettledFirst
<1>5. /\ unacked' \in Seq(Msgs) /\ Len(unacked') = Len(unacked) - 1
      /\ \A i \in 1..Len(unacked') : unacked'[i] = unacked[i + 1] /\ i + 1 \in 1..Len(unacked)
  BY <1>2, <1>3
<1>6. Types'
  BY <1>1, <1>4, <1>5 DEF GInv, Types, BrokerTypeOK
<1>7. Settled' = Settled + 1 /\ Own' = Own /\ Settled \in Nat
  <2>1. Settled \in Nat /\ Own' = Own
    BY <1>1 DEF GInv, Numbering, Own
  <2>2. Settled' = Len(published) - Len(queue) - Len(unacked')
    BY <1>1 DEF Settled
  <2>3. /\ Len(published) \in Nat /\ Len(queue) \in Nat /\ Len(unacked) \in Nat
        /\ Len(unacked') = Len(unacked) - 1
    BY <1>2, <1>5
  <2>4. QED
    BY <2>1, <2>2, <2>3 DEF Settled
<1>8. Settled' <= Len(firsts) /\ Len(firsts) \in Nat
  <2>1. Connection /\ Len(acks) \in Nat \ {0} /\ firsts \in Seq(Msgs)
    BY <1>1, SettledFirst DEF GInv, Types
  <2>2. QED
    BY <1>2, <1>7, <2>1 DEF Connection
<1>9. Numbering'
  <2>1. \A i \in 1..Len(unacked') : unacked'[i] = published[Settled' + i]
    <3> SUFFICES ASSUME NEW i \in 1..Len(unacked') PROVE unacked'[i] = published[Settled' + i]
      OBVIOUS
    <3>1. unacked'[i] = published[Settled + (i + 1)]
      BY <1>5 DEF GInv, Numbering
    <3>2. QED
      BY <1>7, <3>1
  <2>2. \A i \in 1..Len(queue) : queue[i] = published[Settled' + Len(unacked') + i]
    <3> SUFFICES ASSUME NEW i \in 1..Len(queue)
                 PROVE  queue[i] = published[Settled' + Len(unacked') + i]
      OBVIOUS
    <3>1. queue[i] = published[Settled + Len(unacked) + i]
      BY DEF GInv, Numbering
    <3>2. Settled' + Len(unacked') = Settled + Len(unacked)
      BY <1>2, <1>5, <1>7
    <3>3. QED
      BY <3>1, <3>2
  <2>3. QED
    BY <1>1, <1>7, <1>8, <2>1, <2>2 DEF GInv, Numbering
<1>10. Connection'
  <2>1. Connection
    BY SettledFirst, <1>1
  <2>2. Len(unacked') = Len(acks') + Own + Len(wire)
    BY <1>2, <1>4, <1>5, <2>1 DEF Connection
  <2>3. Settled' + Len(acks') + Own <= Len(firsts)
    BY <1>2, <1>4, <1>7, <2>1 DEF Connection
  <2>4. \A i \in 1..Len(acks') : acks'[i] = unacked'[i]
    BY <1>2, <1>4, <1>5, <2>1, <2>2, SMTT(30) DEF Connection
  <2>5. current # NoMsg => current = unacked'[Len(acks') + 1]
    <3> SUFFICES ASSUME current # NoMsg PROVE current = unacked'[Len(acks') + 1]
      OBVIOUS
    <3>1. Own = 1 /\ Len(acks') + 1 \in 1..Len(unacked')
      BY <1>2, <1>4, <2>2 DEF Own
    <3>2. unacked'[Len(acks') + 1] = unacked[(Len(acks') + 1) + 1]
      BY <1>5, <3>1
    <3>3. QED
      BY <1>2, <1>4, <2>1, <3>2 DEF Connection
  <2>6. \A i \in 1..Len(wire) : wire[i] = unacked'[Len(acks') + Own + i]
    <3> SUFFICES ASSUME NEW i \in 1..Len(wire) PROVE wire[i] = unacked'[Len(acks') + Own + i]
      OBVIOUS
    <3>1. Len(acks') + Own + i \in 1..Len(unacked')
      BY <1>2, <1>4, <2>2
    <3>2. unacked'[Len(acks') + Own + i] = unacked[(Len(acks') + Own + i) + 1]
      BY <1>5, <3>1
    <3>3. (Len(acks') + Own + i) + 1 = Len(acks) + Own + i
      BY <1>2, <1>4
    <3>4. QED
      BY <2>1, <3>2, <3>3 DEF Connection
  <2>7. QED
    BY <1>1, <1>7, <2>2, <2>3, <2>4, <2>5, <2>6 DEF Connection
<1>11. Sessions' /\ Control'
  BY <1>1, <1>10, SettledFirst DEF GInv, Sessions, Control, Running
<1>12. Counting'
  BY <1>1 DEF GInv, Counting, RepeatsInterrupted
<1>13. QED
  BY <1>6, <1>9, <1>11, <1>12 DEF GInv

(* What is published was never published before, so nobody has handled it. *)
LEMMA PublishInv == ASSUME GInv, NEW m \in Msgs, Publish(m) PROVE GInv'
<1>1. /\ UNCHANGED <<pc, session, current, unacked, wire, acks, attempts, done, firsts,
                     interrupted, faults>>
      /\ m \notin ToSet(published) /\ published' = Append(published, m) /\ queue' = Append(queue, m)
  BY DEF Publish, work
<1>2. /\ queue \in Seq(Msgs) /\ unacked \in Seq(Msgs) /\ published \in Seq(Msgs)
      /\ firsts \in Seq(Msgs) /\ wire \in Seq(Msgs)
  BY DEF GInv, Types, BrokerTypeOK
<1>3. /\ published' \in Seq(Msgs) /\ Len(published') = Len(published) + 1
      /\ \A i \in 1..Len(published) : published'[i] = published[i] /\ published[i] # m
      /\ published'[Len(published) + 1] = m
  BY <1>1, <1>2 DEF ToSet
<1>4. /\ queue' \in Seq(Msgs) /\ Len(queue') = Len(queue) + 1
      /\ \A i \in 1..Len(queue) : queue'[i] = queue[i]
      /\ queue'[Len(queue) + 1] = m
  BY <1>1, <1>2
<1>5. Types'
  BY <1>1, <1>3, <1>4 DEF GInv, Types, BrokerTypeOK
<1>6. Settled' = Settled /\ Settled \in Nat /\ Own' = Own
  BY <1>1, <1>2, <1>3, <1>4 DEF Settled, Own, GInv, Numbering
<1>7. /\ Len(published) \in Nat /\ Len(queue) \in Nat /\ Len(unacked) \in Nat
      /\ Len(firsts) \in Nat /\ Len(firsts) <= Len(published)
      /\ Settled + Len(unacked) + Len(queue) = Len(published)
  BY <1>2 DEF GInv, Numbering, Settled
<1>8. Numbering'
  <2>1. \A i, j \in 1..Len(published') : published'[i] = published'[j] => i = j
    <3>1. \A i \in 1..Len(published') : i \in 1..Len(published) \/ i = Len(published) + 1
      BY <1>3, <1>7
    <3>2. QED
      BY <1>3, <3>1 DEF GInv, Numbering
  <2>2. \A i \in 1..Len(firsts) : firsts[i] = published'[i]
    BY <1>3, <1>7 DEF GInv, Numbering
  <2>3. \A i \in 1..Len(unacked) : unacked[i] = published'[Settled + i]
    <3> SUFFICES ASSUME NEW i \in 1..Len(unacked) PROVE unacked[i] = published'[Settled + i]
      OBVIOUS
    <3>1. Settled + i \in 1..Len(published)
      BY <1>6, <1>7
    <3>2. QED
      BY <1>3, <3>1 DEF GInv, Numbering
  <2>4. \A i \in 1..Len(queue') : queue'[i] = published'[Settled + Len(unacked) + i]
    <3> SUFFICES ASSUME NEW i \in 1..Len(queue')
                 PROVE  queue'[i] = published'[Settled + Len(unacked) + i]
      OBVIOUS
    <3>1. CASE i \in 1..Len(queue)
      <4>1. Settled + Len(unacked) + i \in 1..Len(published)
        BY <1>6, <1>7, <3>1
      <4>2. QED
        BY <1>3, <1>4, <3>1, <4>1 DEF GInv, Numbering
    <3>2. CASE i = Len(queue) + 1
      <4>1. Settled + Len(unacked) + i = Len(published) + 1
        BY <1>6, <1>7, <3>2
      <4>2. QED
        BY <1>3, <1>4, <3>2, <4>1
    <3>3. QED
      BY <1>4, <1>7, <3>1, <3>2
  <2>5. Settled \in Nat /\ Settled <= Len(firsts) /\ Len(firsts) <= Len(published')
    BY <1>3, <1>6, <1>7 DEF GInv, Numbering
  <2>6. firsts' = firsts /\ unacked' = unacked /\ Settled' = Settled
    BY <1>1, <1>6
  <2>7. QED
    BY <2>1, <2>2, <2>3, <2>4, <2>5, <2>6 DEF Numbering
<1>9. session = "lost" => Remains'
  <2> SUFFICES ASSUME session = "lost" PROVE Remains'
    OBVIOUS
  <2>1. PICK o \in 0..Len(firsts) :
          /\ o + Len(wire) <= Len(published)
          /\ \A i \in 1..Len(wire) : wire[i] = published[o + i]
    BY DEF GInv, Sessions, Remains
  <2>2. \A i \in 1..Len(wire) : wire[i] = published'[o + i]
    <3> SUFFICES ASSUME NEW i \in 1..Len(wire) PROVE wire[i] = published'[o + i]
      OBVIOUS
    <3>1. o + i \in 1..Len(published) /\ o \in Nat
      BY <1>2, <1>7, <2>1
    <3>2. QED
      BY <1>3, <2>1, <3>1
  <2>3. o + Len(wire) <= Len(published')
    BY <1>2, <1>3, <1>7, <2>1
  <2>4. QED
    BY <1>1, <2>1, <2>2, <2>3 DEF GInv, Sessions, Remains
<1>10. Sessions' /\ Control'
  BY <1>1, <1>6, <1>9 DEF GInv, Sessions, Connection, Control, Running
<1>11. Counting'
  <2>1. attempts[m] = 0
    <3>1. \A i \in 1..Len(firsts) : firsts[i] # m
      BY <1>3, <1>7 DEF GInv, Numbering
    <3>2. QED
      BY <3>1 DEF GInv, Counting
  <2>2. \A i \in 1..Len(queue') : attempts[queue'[i]] # 0 => queue'[i] \in interrupted
    <3>1. \A i \in 1..Len(queue') : i \in 1..Len(queue) \/ i = Len(queue) + 1
      BY <1>4, <1>7
    <3>2. QED
      BY <1>4, <2>1, <3>1 DEF GInv, Counting
  <2>3. QED
    BY <1>1, <2>2 DEF GInv, Counting, RepeatsInterrupted
<1>12. QED
  BY <1>5, <1>8, <1>10, <1>11 DEF GInv

(* Nothing is rejected, as the core holds what it can publish; so what was *)
(* at work becomes the last acknowledgement.                               *)
LEMMA SettleInv == ASSUME GInv, CoreInv, Settle PROVE GInv'
<1>1. /\ UNCHANGED <<session, published, queue, unacked, wire, attempts, done, firsts,
                     interrupted, faults>>
      /\ pc = "settle" /\ pc' = "loop" /\ current' = NoMsg
      /\ acks' = IF session = "consuming" THEN Append(acks, current) ELSE acks
  BY DEF Settle, work, CoreInv, SM!StatePublishable
<1>2. /\ current # NoMsg /\ current \in Msgs /\ acks \in Seq(Msgs) /\ wire \in Seq(Msgs)
      /\ unacked \in Seq(Msgs)
  BY <1>1 DEF GInv, Control, Types, BrokerTypeOK
<1>3. Types'
  BY <1>1, <1>2 DEF GInv, Types, BrokerTypeOK
<1>4. Numbering' /\ Settled' = Settled /\ Settled \in Nat
  BY <1>1 DEF GInv, Numbering, Settled
<1>5. Own = 1 /\ Own' = 0
  BY <1>1, <1>2 DEF Own
<1>6. session = "consuming" => Connection'
  <2> SUFFICES ASSUME session = "consuming" PROVE Connection'
    OBVIOUS
  <2>1. Connection
    BY DEF GInv, Sessions
  <2>2. /\ Len(acks') = Len(acks) + 1 /\ Len(acks) \in Nat
        /\ \A i \in 1..Len(acks) : acks'[i] = acks[i]
        /\ acks'[Len(acks) + 1] = current
    BY <1>1, <1>2
  <2>3. \A i \in 1..Len(acks') : acks'[i] = unacked[i]
    <3>1. \A i \in 1..Len(acks') : i \in 1..Len(acks) \/ i = Len(acks) + 1
      BY <2>2
    <3>2. QED
      BY <1>2, <2>1, <2>2, <3>1 DEF Connection
  <2>4. /\ Len(unacked) = Len(acks') + Own' + Len(wire)
        /\ Settled + Len(acks') + Own' <= Len(firsts)
    BY <1>2, <1>4, <1>5, <2>1, <2>2 DEF Connection
  <2>5. \A i \in 1..Len(wire) : wire[i] = unacked[Len(acks') + Own' + i]
    BY <1>5, <2>1, <2>2 DEF Connection
  <2>6. QED
    BY <1>1, <1>4, <2>3, <2>4, <2>5 DEF Connection
<1>7. Sessions'
  BY <1>1, <1>6 DEF GInv, Sessions, Remains
<1>8. Control' /\ Counting'
  BY <1>1 DEF GInv, Control, Running, Counting, RepeatsInterrupted
<1>9. QED
  BY <1>3, <1>4, <1>7, <1>8 DEF GInv

LEMMA ReloadInv == ASSUME GInv, Reload PROVE GInv'
<1>1. /\ UNCHANGED <<session, current, published, queue, unacked, wire, acks, attempts, firsts,
                     interrupted, faults>>
      /\ pc = "reload" /\ pc' = "settle"
      /\ done' = done \/ done' = [done EXCEPT ![current] = @ + 1]
  BY DEF Reload, broker
<1>2. current \in Msgs /\ done[current] < attempts[current]
  BY <1>1 DEF GInv, Control, Types, Counting
<1>3. done' \in [Msgs -> 0..MaxAttempts] /\ \A m \in Msgs : done'[m] <= attempts[m]
  <2>1. MaxAttempts \in Nat /\ attempts \in [Msgs -> 0..MaxAttempts] /\ done \in [Msgs -> 0..MaxAttempts]
    BY GatewayAssumption DEF GInv, Types
  <2>2. \A m \in Msgs : done[m] <= attempts[m]
    BY DEF GInv, Counting
  <2>3. CASE done' = done
    BY <2>1, <2>2, <2>3
  <2>4. CASE done' = [done EXCEPT ![current] = @ + 1]
    <3>1. done[current] + 1 \in 0..MaxAttempts /\ done[current] + 1 <= attempts[current]
      BY <1>2, <2>1
    <3>2. QED
      BY <1>2, <2>1, <2>2, <2>4, <3>1
  <2>5. QED
    BY <1>1, <2>3, <2>4
<1>4. Types'
  BY <1>1, <1>3 DEF GInv, Types, BrokerTypeOK
<1>5. Numbering' /\ Settled' = Settled /\ Own' = Own
  BY <1>1 DEF GInv, Numbering, Settled, Own
<1>6. Sessions' /\ Control'
  BY <1>1, <1>5 DEF GInv, Sessions, Connection, Remains, Control, Running
<1>7. Counting'
  BY <1>1, <1>3 DEF GInv, Counting, RepeatsInterrupted
<1>8. QED
  BY <1>4, <1>5, <1>6, <1>7 DEF GInv

(* What waits on the wire follows some commands that were handled. *)
LEMMA WireFollows ==
  ASSUME GInv, pc = "loop", wire # <<>>
  PROVE  /\ session \in {"consuming", "lost"} /\ current = NoMsg /\ Own = 0
         /\ \E o \in 0..Len(firsts) :
              /\ session = "consuming" => o = Settled + Len(acks)
              /\ o + Len(wire) <= Len(published)
              /\ \A i \in 1..Len(wire) : wire[i] = published[o + i]
<1>1. current = NoMsg /\ Own = 0
  BY DEF GInv, Control, Own
<1>2. session \in {"consuming", "lost"}
  BY DEF GInv, Sessions
<1>3. /\ wire \in Seq(Msgs) /\ unacked \in Seq(Msgs) /\ acks \in Seq(Msgs) /\ queue \in Seq(Msgs)
      /\ published \in Seq(Msgs) /\ firsts \in Seq(Msgs)
  BY DEF GInv, Types, BrokerTypeOK
<1>4. CASE session = "consuming"
  <2>1. Connection /\ Numbering
    BY <1>4 DEF GInv, Sessions
  <2>2. Settled + Len(acks) \in 0..Len(firsts)
    BY <1>1, <1>3, <2>1 DEF Connection, Numbering
  <2>3. Settled + Len(acks) + Len(wire) <= Len(published)
    BY <1>1, <1>3, <2>1 DEF Connection, Numbering, Settled
  <2>4. ASSUME NEW i \in 1..Len(wire)
        PROVE  wire[i] = published[Settled + Len(acks) + i]
    <3>1. Len(acks) + i \in 1..Len(unacked) /\ wire[i] = unacked[Len(acks) + i]
      BY <1>1, <1>3, <2>1 DEF Connection
    <3>2. unacked[Len(acks) + i] = published[Settled + (Len(acks) + i)]
      BY <2>1, <3>1 DEF Numbering
    <3>3. QED
      BY <1>3, <2>1, <3>1, <3>2 DEF Numbering
  <2>5. QED
    BY <1>1, <1>2, <2>2, <2>3, <2>4
<1>5. CASE session = "lost"
  BY <1>1, <1>2, <1>5 DEF GInv, Sessions, Remains
<1>6. QED
  BY <1>2, <1>4, <1>5

(* A command is handled for the first time in its turn. *)
LEMMA FirstInTurn ==
  ASSUME GInv, NEW o \in 0..Len(firsts), o + 1 <= Len(published),
         NEW m \in Msgs, m = published[o + 1]
  PROVE  IF attempts[m] = 0 THEN o = Len(firsts) ELSE o + 1 <= Len(firsts)
<1>1. /\ Len(firsts) \in Nat /\ Len(published) \in Nat /\ Len(firsts) <= Len(published)
      /\ \A i \in 1..Len(firsts) : firsts[i] = published[i]
      /\ \A i, j \in 1..Len(published) : published[i] = published[j] => i = j
  BY SMTT(30) DEF GInv, Types, BrokerTypeOK, Numbering
<1>2. attempts[m] # 0 <=> \E i \in 1..Len(firsts) : firsts[i] = m
  BY DEF GInv, Counting
<1>3. CASE attempts[m] = 0
  BY <1>1, <1>2, <1>3
<1>4. CASE attempts[m] # 0
  <2>1. PICK i \in 1..Len(firsts) : firsts[i] = m
    BY <1>2, <1>4
  <2>2. i = o + 1
    BY <1>1, <2>1
  <2>3. QED
    BY <1>1, <1>4, <2>2
<1>5. QED
  BY <1>3, <1>4

LEMMA HandleInv == ASSUME GInv, Handle PROVE GInv'
<1>1. PICK m : m = Head(wire)
  OBVIOUS
<1>2. /\ UNCHANGED <<session, published, queue, unacked, acks, interrupted, faults>>
      /\ pc = "loop" /\ wire # <<>> /\ wire' = Tail(wire) /\ current' = m
      /\ attempts[m] < MaxAttempts /\ attempts' = [attempts EXCEPT ![m] = @ + 1]
      /\ firsts' = IF attempts[m] = 0 THEN Append(firsts, m) ELSE firsts
      /\ pc' \in {"reload", "settle"}
      /\ done' = done \/ (done' = [done EXCEPT ![m] = @ + 1] /\ pc' = "settle")
  BY <1>1 DEF Handle
<1>3. /\ wire \in Seq(Msgs) /\ unacked \in Seq(Msgs) /\ acks \in Seq(Msgs) /\ queue \in Seq(Msgs)
      /\ published \in Seq(Msgs) /\ firsts \in Seq(Msgs)
      /\ attempts \in [Msgs -> 0..MaxAttempts] /\ done \in [Msgs -> 0..MaxAttempts]
      /\ MaxAttempts \in Nat
  BY GatewayAssumption DEF GInv, Types, BrokerTypeOK
<1>4. /\ wire' \in Seq(Msgs) /\ Len(wire') = Len(wire) - 1 /\ Len(wire) \in Nat \ {0}
      /\ \A i \in 1..Len(wire') : wire'[i] = wire[i + 1] /\ i + 1 \in 1..Len(wire)
      /\ m = wire[1] /\ m \in Msgs
  BY <1>1, <1>2, <1>3
<1> DEFINE sizes == /\ Len(wire) \in Nat /\ Len(unacked) \in Nat /\ Len(acks) \in Nat
                   /\ Len(queue) \in Nat /\ Len(published) \in Nat /\ Len(firsts) \in Nat
                   /\ Len(firsts') \in Nat
<1>0. sizes
  BY <1>2, <1>3, <1>4, SMTT(30)
<1>5. /\ session \in {"consuming", "lost"} /\ current = NoMsg /\ Own = 0
      /\ \E o \in 0..Len(firsts) :
           /\ session = "consuming" => o = Settled + Len(acks)
           /\ o + Len(wire) <= Len(published)
           /\ \A i \in 1..Len(wire) : wire[i] = published[o + i]
  BY <1>2, WireFollows
<1>6. PICK o \in 0..Len(firsts) :
        /\ session = "consuming" => o = Settled + Len(acks)
        /\ o + Len(wire) <= Len(published)
        /\ \A i \in 1..Len(wire) : wire[i] = published[o + i]
  BY <1>5
<1>7. /\ o \in Nat /\ o + 1 \in 1..Len(published) /\ m = published[o + 1]
      /\ Len(firsts) \in Nat /\ Len(published) \in Nat
  <2>1. wire[1] = published[o + 1]
    BY <1>4, <1>6
  <2>2. QED
    BY <1>0, <1>4, <1>6, <2>1
<1>8. IF attempts[m] = 0 THEN o = Len(firsts) ELSE o + 1 <= Len(firsts)
  BY <1>4, <1>7, FirstInTurn
<1>9. firsts' \in Seq(Msgs) /\ o + 1 <= Len(firsts') /\ Len(firsts') \in Nat
  <2>1. CASE attempts[m] = 0
    <3>1. firsts' \in Seq(Msgs) /\ Len(firsts') = Len(firsts) + 1
      BY <1>2, <1>3, <1>4, <2>1
    <3>2. QED
      BY <1>7, <1>8, <2>1, <3>1
  <2>2. CASE attempts[m] # 0
    BY <1>2, <1>3, <1>7, <1>8, <2>2
  <2>3. QED
    BY <2>1, <2>2
<1>10. current' # NoMsg /\ Own' = 1 /\ Settled' = Settled /\ Settled \in Nat
  BY <1>2, <1>4, GatewayAssumption DEF Own, Settled, GInv, Numbering
<1>11. /\ attempts' \in [Msgs -> 0..MaxAttempts] /\ attempts'[m] = attempts[m] + 1
       /\ \A k \in Msgs \ {m} : attempts'[k] = attempts[k]
  <2>1. attempts[m] + 1 \in 0..MaxAttempts
    BY <1>2, <1>3, <1>4, SMTT(30)
  <2>2. QED
    BY <1>2, <1>3, <1>4, <2>1
<1>12. /\ done' \in [Msgs -> 0..MaxAttempts] /\ \A k \in Msgs : done'[k] <= attempts'[k]
       /\ pc' = "reload" => done'[m] < attempts'[m]
  <2>1. \A k \in Msgs : done[k] <= attempts[k]
    BY DEF GInv, Counting
  <2>2. CASE done' = done
    <3>1. done[m] < attempts[m] + 1
      BY <1>3, <1>4, <2>1, SMTT(30)
    <3>2. \A k \in Msgs : done[k] <= attempts'[k]
      <4>1. done[m] <= attempts'[m]
        BY <1>3, <1>4, <1>11, <2>1
      <4>2. QED
        BY <1>11, <2>1, <4>1
    <3>3. QED
      BY <1>3, <1>11, <2>2, <3>1, <3>2
  <2>3. CASE done' = [done EXCEPT ![m] = @ + 1] /\ pc' = "settle"
    <3>1. done[m] + 1 <= attempts[m] + 1 /\ done[m] + 1 \in 0..MaxAttempts
      BY <1>2, <1>3, <1>4, <2>1, SMTT(30)
    <3>2. /\ done' \in [Msgs -> 0..MaxAttempts] /\ done'[m] = done[m] + 1
          /\ \A k \in Msgs \ {m} : done'[k] = done[k]
      BY <1>3, <1>4, <2>3, <3>1
    <3>3. QED
      BY <1>11, <2>1, <2>3, <3>1, <3>2
  <2>4. QED
    BY <1>2, <2>2, <2>3
<1>13. Types'
  BY <1>2, <1>4, <1>9, <1>11, <1>12 DEF GInv, Types, BrokerTypeOK
<1>14. Numbering'
  <2>1. CASE attempts[m] # 0
    BY <1>2, <1>10, <2>1 DEF GInv, Numbering
  <2>2. CASE attempts[m] = 0
    <3>1. /\ Len(firsts') = Len(firsts) + 1 /\ o = Len(firsts)
          /\ \A i \in 1..Len(firsts) : firsts'[i] = firsts[i]
          /\ firsts'[Len(firsts) + 1] = m
      BY <1>2, <1>3, <1>4, <1>8, <2>2
    <3>2. \A i \in 1..Len(firsts') : firsts'[i] = published[i]
      <4>1. \A i \in 1..Len(firsts') : i \in 1..Len(firsts) \/ i = Len(firsts) + 1
        BY <1>7, <3>1
      <4>2. QED
        BY <1>7, <3>1, <4>1 DEF GInv, Numbering
    <3>3. Settled <= Len(firsts') /\ Len(firsts') <= Len(published)
      BY <1>7, <1>10, <3>1 DEF GInv, Numbering
    <3>4. QED
      BY <1>2, <1>10, <3>2, <3>3 DEF GInv, Numbering
  <2>3. QED
    BY <2>1, <2>2
<1>15. Sessions'
  <2>1. CASE session = "consuming"
    <3>1. Connection /\ o = Settled + Len(acks)
      BY <1>6, <2>1 DEF GInv, Sessions
    <3>2. /\ Len(unacked) = Len(acks) + 1 + Len(wire') /\ m = unacked[Len(acks) + 1]
          /\ Settled + Len(acks) + 1 <= Len(firsts')
      <4>1. Len(unacked) = Len(acks) + 0 + Len(wire) /\ wire[1] = unacked[Len(acks) + 0 + 1]
        BY <1>4, <1>5, <3>1 DEF Connection
      <4>2. QED
        BY <1>0, <1>4, <1>9, <1>10, <3>1, <4>1
    <3>3. ASSUME NEW i \in 1..Len(wire') PROVE wire'[i] = unacked[Len(acks) + 1 + i]
      <4>1. wire'[i] = unacked[Len(acks) + (i + 1)]
        BY <1>3, <1>4, <1>5, <3>1, SMTT(30) DEF Connection
      <4>2. QED
        BY <1>3, <4>1
    <3>4. Connection'
      BY <1>2, <1>10, <3>1, <3>2, <3>3 DEF Connection
    <3>5. QED
      BY <1>2, <2>1, <3>4 DEF Sessions
  <2>2. CASE session = "lost"
    <3>1. \A i \in 1..Len(wire) : wire[i] \in interrupted
      BY <2>2 DEF GInv, Sessions, Remains
    <3>2. o + 1 \in 0..Len(firsts') /\ (o + 1) + Len(wire') <= Len(published)
      BY <1>3, <1>4, <1>6, <1>7, <1>9
    <3>3. \A i \in 1..Len(wire') : wire'[i] = published[(o + 1) + i] /\ wire'[i] \in interrupted
      <4> SUFFICES ASSUME NEW i \in 1..Len(wire')
                   PROVE  wire'[i] = published[(o + 1) + i] /\ wire'[i] \in interrupted
        OBVIOUS
      <4>1. wire'[i] = published[o + (i + 1)] /\ wire'[i] \in interrupted
        BY <1>4, <1>6, <3>1
      <4>2. o + (i + 1) = (o + 1) + i
        BY <1>7
      <4>3. QED
        BY <4>1, <4>2
    <3>4. Remains'
      BY <1>2, <3>2, <3>3 DEF Remains
    <3>5. QED
      BY <1>2, <2>2, <3>4 DEF GInv, Sessions
  <2>3. QED
    BY <1>5, <2>1, <2>2
<1>16. Control'
  BY <1>2, <1>5, <1>10 DEF GInv, Control, Running
<1>17. Counting'
  <2>1. \A k \in Msgs : attempts'[k] # 0 <=> \E i \in 1..Len(firsts') : firsts'[i] = k
    <3>0. attempts'[m] # 0
      BY <1>3, <1>4, <1>11
    <3>1. CASE attempts[m] # 0
      <4>1. firsts' = firsts /\ \A k \in Msgs : attempts'[k] # 0 <=> attempts[k] # 0
        BY <1>2, <1>11, <3>0, <3>1
      <4>2. QED
        BY <4>1 DEF GInv, Counting
    <3>2. CASE attempts[m] = 0
      <4>1. /\ Len(firsts') = Len(firsts) + 1
            /\ \A i \in 1..Len(firsts) : firsts'[i] = firsts[i]
            /\ firsts'[Len(firsts) + 1] = m
        BY <1>2, <1>3, <1>4, <3>2
      <4>2. \A i \in 1..Len(firsts') : i \in 1..Len(firsts) \/ i = Len(firsts) + 1
        BY <1>7, <4>1
      <4>3. 1..Len(firsts) \subseteq 1..Len(firsts') /\ Len(firsts) + 1 \in 1..Len(firsts')
        BY <1>7, <4>1
      <4>4. \A k \in Msgs : attempts[k] # 0 <=> \E i \in 1..Len(firsts) : firsts[i] = k
        BY DEF GInv, Counting
      <4>5. QED
        BY <1>11, <3>0, <4>1, <4>2, <4>3, <4>4
    <3>3. QED
      BY <3>1, <3>2
  <2>2. attempts[m] # 0 => m \in interrupted
    BY <1>4 DEF GInv, Counting
  <2>3. RepeatsInterrupted'
    <3>1. \A k \in Msgs : attempts[k] > 1 => k \in interrupted
      BY DEF GInv, Counting, RepeatsInterrupted
    <3>2. attempts'[m] > 1 => attempts[m] # 0
      BY <1>3, <1>4, <1>11
    <3>3. QED
      BY <1>2, <1>11, <2>2, <3>1, <3>2 DEF RepeatsInterrupted
  <2>4. \A i \in 1..Len(queue) : queue[i] = m => m \in interrupted
    <3> SUFFICES ASSUME NEW i \in 1..Len(queue), queue[i] = m PROVE m \in interrupted
      OBVIOUS
    <3>1. CASE session = "lost"
      BY <1>4, <3>1 DEF GInv, Sessions, Remains
    <3>2. CASE session = "consuming"
      <4>1. /\ Connection /\ o = Settled + Len(acks)
            /\ Settled + Len(unacked) + i \in 1..Len(published)
            /\ queue[i] = published[Settled + Len(unacked) + i]
        <5>1. Settled \in Nat /\ Settled + Len(unacked) + Len(queue) = Len(published)
          BY <1>0, <1>10 DEF Settled
        <5>2. QED
          BY <1>0, <1>6, <3>2, <5>1, SMTT(30) DEF GInv, Sessions, Numbering
      <4>2. Settled + Len(unacked) + i = o + 1
        BY <1>4, <1>7, <4>1 DEF GInv, Numbering
      <4>3. QED
        BY <1>0, <1>4, <1>5, <1>10, <4>1, <4>2 DEF Connection
    <3>3. QED
      BY <1>5, <3>1, <3>2
  <2>5. \A i \in 1..Len(wire') : wire'[i] # m
    <3> SUFFICES ASSUME NEW i \in 1..Len(wire'), wire'[i] = m PROVE FALSE
      OBVIOUS
    <3>1. o + (i + 1) \in 1..Len(published) /\ wire'[i] = published[o + (i + 1)]
      BY <1>0, <1>4, <1>6, <1>7, SMTT(30)
    <3>2. o + (i + 1) = o + 1
      BY <1>7, <3>1 DEF GInv, Numbering
    <3>3. QED
      BY <1>7, <3>2
  <2>6. \A i \in 1..Len(queue) : attempts'[queue[i]] # 0 => queue[i] \in interrupted
    <3>1. \A i \in 1..Len(queue) : queue[i] \in Msgs
      BY <1>3
    <3>2. QED
      BY <1>11, <2>4, <3>1 DEF GInv, Counting
  <2>7. \A i \in 1..Len(wire') : attempts'[wire'[i]] # 0 => wire'[i] \in interrupted
    <3>1. \A i \in 1..Len(wire') : wire'[i] \in Msgs
      BY <1>4
    <3>2. \A i \in 1..Len(wire') : attempts[wire'[i]] # 0 => wire'[i] \in interrupted
      BY <1>4, SMTT(30) DEF GInv, Counting
    <3>3. QED
      BY <1>11, <2>5, <3>1, <3>2
  <2>8. QED
    BY <1>2, <1>12, <2>1, <2>3, <2>6, <2>7 DEF Counting
<1>18. QED
  BY <1>13, <1>14, <1>15, <1>16, <1>17 DEF GInv

LEMMA InvStep == CoreInv /\ GInv /\ [Next]_vars => GInv'
<1> SUFFICES ASSUME CoreInv, GInv, [Next]_vars
             PROVE  GInv'
  OBVIOUS
<1>1. CASE Poll
  BY <1>1, PollInv
<1>2. CASE Setup
  BY <1>2, SetupInv
<1>3. CASE Handle
  BY <1>3, HandleInv
<1>4. CASE Reload
  BY <1>4, ReloadInv
<1>5. CASE Settle
  BY <1>5, SettleInv
<1>6. CASE Deliver
  BY <1>6, DeliverInv
<1>7. CASE BrokerSettles
  BY <1>7, BrokerSettlesInv
<1>8. CASE LinkLost
  BY <1>8, LinkLostInv
<1>9. CASE Terminate
  BY <1>9, EndAsInv, FaultTyped DEF Terminate
<1>10. CASE Killed
  BY <1>10, EndAsInv, FaultTyped DEF Killed
<1>11. CASE Restart
  BY <1>11, RestartInv
<1>12. CASE LiquidsoapChanges
  BY <1>12, LiquidsoapInv
<1>13. CASE \E m \in Msgs : Publish(m)
  BY <1>13, PublishInv
<1>14. CASE UNCHANGED vars
  <2>1. UNCHANGED <<pc, session, current, published, queue, unacked, wire, acks, attempts, done,
                    firsts, interrupted, faults>>
    BY <1>14 DEF vars, broker, work
  <2>2. Types' /\ Control'
    BY <2>1 DEF GInv, Types, BrokerTypeOK, Control, Running
  <2>3. QED
    BY <2>1, <2>2, Undisturbed
<1>15. QED
  BY <1>1, <1>2, <1>3, <1>4, <1>5, <1>6, <1>7, <1>8, <1>9, <1>10, <1>11, <1>12, <1>13, <1>14
  DEF Next, Process

LEMMA Invariant == Spec => [](CoreInv /\ GInv)
  BY CoreInvInit, CoreInvStep, CoreStep, InvInit, InvStep, PTL DEF Spec

-----------------------------------------------------------------------------
(* Every variable keeps its type, for any commands, faults and bounds. *)
THEOREM GatewayTypes == Spec => []TypeOK
<1>1. CoreInv /\ GInv => TypeOK
  BY DEF CoreInv, GInv, Types, TypeOK
<1>2. QED
  BY <1>1, Invariant, PTL

(* On a sound connection no delivery is forgotten: what the broker waits   *)
(* for is acknowledged, being handled, or on the wire, in this order.      *)
THEOREM NoDeliveryIsForgotten == Spec => []NoDeliveryForgotten
<1>1. GInv => NoDeliveryForgotten
  <2> SUFFICES ASSUME GInv, session = "consuming"
               PROVE  unacked = acks \o (IF current = NoMsg THEN <<>> ELSE <<current>>) \o wire
    BY DEF NoDeliveryForgotten
  <2>1. PICK own : own = IF current = NoMsg THEN <<>> ELSE <<current>>
    OBVIOUS
  <2>2. /\ acks \in Seq(Msgs) /\ wire \in Seq(Msgs) /\ unacked \in Seq(Msgs)
        /\ own \in Seq(Msgs) /\ Len(own) = Own /\ Own \in {0, 1}
        /\ \A i \in 1..Own : own[i] = current /\ i = 1 /\ current # NoMsg
    BY <2>1 DEF GInv, Types, BrokerTypeOK, Own
  <2>3. Connection
    BY DEF GInv, Sessions
  <2>4. PICK some : some = acks \o own
    OBVIOUS
  <2>5. /\ some \in Seq(Msgs) /\ Len(some) = Len(acks) + Own
        /\ \A i \in 1..Len(acks) + Own :
             some[i] = IF i <= Len(acks) THEN acks[i] ELSE own[i - Len(acks)]
    BY <2>2, <2>4, ConcatProperties
  <2>6. PICK all : all = some \o wire
    OBVIOUS
  <2>7. /\ all \in Seq(Msgs) /\ Len(all) = Len(some) + Len(wire)
        /\ \A i \in 1..Len(some) + Len(wire) :
             all[i] = IF i <= Len(some) THEN some[i] ELSE wire[i - Len(some)]
    <3>1. PICK x, y : x = some /\ y = wire
      OBVIOUS
    <3>2. x \in Seq(Msgs) /\ y \in Seq(Msgs) /\ all = x \o y
      BY <2>2, <2>5, <2>6, <3>1
    <3> HIDE <3>1
    <3>3. /\ all \in Seq(Msgs) /\ Len(all) = Len(x) + Len(y)
          /\ \A i \in 1..Len(x) + Len(y) : all[i] = IF i <= Len(x) THEN x[i] ELSE y[i - Len(x)]
      BY <3>2, ConcatProperties
    <3>4. QED
      BY <3>1, <3>3
  <2>8. Len(all) = Len(unacked)
    BY <2>2, <2>3, <2>5, <2>7 DEF Connection
  <2>9. ASSUME NEW i \in 1..Len(all)
        PROVE  all[i] = unacked[i]
    <3>1. CASE i <= Len(acks)
      <4>1. i \in 1..Len(acks) /\ i <= Len(some) /\ i \in 1..Len(acks) + Own
        BY <2>2, <2>5, <2>7, <3>1
      <4>2. all[i] = acks[i]
        BY <2>5, <2>7, <2>8, <3>1, <4>1
      <4>3. QED
        BY <2>3, <4>1, <4>2 DEF Connection
    <3>2. CASE Len(acks) < i /\ i <= Len(some)
      <4>1. i - Len(acks) = 1 /\ Own = 1
        BY <2>2, <2>5, <2>7, <3>2
      <4>2. all[i] = current /\ i = Len(acks) + 1 /\ current # NoMsg
        BY <2>2, <2>5, <2>7, <3>2, <4>1
      <4>3. QED
        BY <2>3, <4>2 DEF Connection
    <3>3. CASE i > Len(some)
      <4>1. i - Len(some) \in 1..Len(wire) /\ all[i] = wire[i - Len(some)]
        BY <2>2, <2>5, <2>7, <3>3
      <4>2. all[i] = unacked[Len(acks) + Own + (i - Len(some))]
        BY <2>3, <4>1 DEF Connection
      <4>3. Len(acks) + Own + (i - Len(some)) = i
        BY <2>2, <2>5, <2>7
      <4>4. QED
        BY <4>2, <4>3
    <3>4. QED
      BY <2>2, <2>5, <2>7, <3>1, <3>2, <3>3
  <2>10. all = unacked
    BY <2>2, <2>7, <2>8, <2>9, SeqEqual
  <2>11. QED
    BY <2>1, <2>4, <2>6, <2>10
<1>2. QED
  BY <1>1, Invariant, PTL

(* A command that is done, or asks nothing of Liquidsoap, is handled again *)
(* only after a failure, for any number of commands, faults and attempts.  *)
THEOREM NoRepeatIsNeedless == Spec => NoNeedlessRepeat
<1> DEFINE Needed == \A m \in Msgs :
                       /\ 0 < attempts[m] /\ attempts[m] < attempts'[m]
                       /\ done[m] > 0 \/ Kind[m] \in {"void", "status"}
                       => m \in interrupted
<1>1. GInv /\ GInv' /\ [Next]_vars => [Needed]_vars
  <2> SUFFICES ASSUME GInv, GInv', [Next]_vars, NEW m \in Msgs,
                      0 < attempts[m], attempts[m] < attempts'[m]
               PROVE  m \in interrupted
    OBVIOUS
  <2>1. attempts[m] \in Nat /\ attempts'[m] \in Nat
    BY DEF GInv, Types
  <2>2. m \in interrupted'
    BY <2>1 DEF GInv, Counting, RepeatsInterrupted
  <2>3. attempts' # attempts
    BY <2>1
  <2>4. Handle
    BY <2>3 DEF Next, Process, Poll, Setup, EndAs, End, Reload, Settle, Deliver, BrokerSettles,
                LinkLost, Terminate, Killed, Restart, LiquidsoapChanges, Publish, work, vars
  <2>5. QED
    BY <2>2, <2>4 DEF Handle
<1>2. QED
  BY <1>1, Invariant, PTL DEF Spec, NoNeedlessRepeat

-----------------------------------------------------------------------------
(* The refinement of CommandDelivery. *)

LEMMA AppendedToSet ==
  ASSUME NEW S, NEW s \in Seq(S), NEW e \in S
  PROVE  ToSet(Append(s, e)) = ToSet(s) \cup {e}
<1>1. /\ DOMAIN s = 1..Len(s) /\ DOMAIN Append(s, e) = 1..Len(s) + 1 /\ Len(s) \in Nat
      /\ \A i \in 1..Len(s) : Append(s, e)[i] = s[i]
      /\ Append(s, e)[Len(s) + 1] = e
  OBVIOUS
<1>2. \A i \in 1..Len(s) + 1 : i \in 1..Len(s) \/ i = Len(s) + 1
  BY <1>1
<1>3. 1..Len(s) \subseteq 1..Len(s) + 1 /\ Len(s) + 1 \in 1..Len(s) + 1
  BY <1>1
<1>4. QED
  BY <1>1, <1>2, <1>3 DEF ToSet

LEMMA HeadAndTail ==
  ASSUME NEW S, NEW s \in Seq(S), s # <<>>
  PROVE  ToSet(s) = {Head(s)} \cup ToSet(Tail(s))
<1>1. PICK t : t = Tail(s)
  OBVIOUS
<1>2. /\ Len(s) \in Nat \ {0} /\ DOMAIN s = 1..Len(s) /\ DOMAIN t = 1..Len(s) - 1
      /\ \A i \in 1..Len(s) - 1 : t[i] = s[i + 1]
      /\ Head(s) = s[1]
  BY <1>1
<1>3. 1 \in 1..Len(s) /\ \A i \in 1..Len(s) - 1 : i + 1 \in 1..Len(s)
  BY <1>2
<1>4. ASSUME NEW x \in ToSet(s) PROVE x = Head(s) \/ x \in ToSet(t)
  <2>1. PICK i \in 1..Len(s) : x = s[i]
    BY <1>2 DEF ToSet
  <2>2. CASE i # 1
    <3>1. i - 1 \in 1..Len(s) - 1 /\ (i - 1) + 1 = i
      BY <1>2, <2>2
    <3>2. x = t[i - 1]
      BY <1>2, <2>1, <3>1
    <3>3. QED
      BY <1>2, <3>1, <3>2 DEF ToSet
  <2>3. QED
    BY <1>2, <2>1, <2>2
<1>5. {Head(s)} \cup ToSet(t) \subseteq ToSet(s)
  BY <1>2, <1>3 DEF ToSet
<1>6. QED
  BY <1>1, <1>4, <1>5

LEMMA InitDelivers == Init => Delivery!Init
  BY DEF Init, Delivery!Init, Held, ToSet

(* What goes back to the queue remains with the broker. *)
LEMMA RequeuedIsHeld == ASSUME GInv, Requeue PROVE Held' = Held
<1>1. queue \in Seq(Msgs) /\ unacked \in Seq(Msgs)
  BY DEF GInv, Types, BrokerTypeOK
<1>2. Range(unacked \o queue) = Range(unacked) \cup Range(queue)
  BY <1>1, RangeConcatenation
<1>3. \A s : Range(s) = ToSet(s)
  BY DEF Range, ToSet
<1>4. queue' = unacked \o queue /\ ToSet(unacked') = {}
  BY DEF Requeue, ToSet
<1>5. QED
  BY <1>2, <1>3, <1>4 DEF Held

LEMMA PublishSubmits ==
  ASSUME GInv, NEW m \in Msgs, Publish(m) PROVE Delivery!Submit(m)
<1>1. queue \in Seq(Msgs) /\ published \in Seq(Msgs)
  BY DEF GInv, Types, BrokerTypeOK
<1>2. ToSet(queue') = ToSet(queue) \cup {m} /\ unacked' = unacked /\ firsts' = firsts
  BY <1>1, AppendedToSet DEF Publish, work
<1>3. m \notin {published[i] : i \in DOMAIN published} /\ published' = Append(published, m)
  BY DEF Publish, ToSet
<1>4. QED
  BY <1>2, <1>3 DEF Delivery!Submit, Held

LEMMA DeliverKeeps == ASSUME GInv, Deliver PROVE Held' = Held
<1>1. queue \in Seq(Msgs) /\ unacked \in Seq(Msgs) /\ queue # <<>>
  BY DEF GInv, Types, BrokerTypeOK, Deliver
<1>2. ToSet(queue) = {Head(queue)} \cup ToSet(Tail(queue)) /\ Head(queue) \in Msgs
  BY <1>1, HeadAndTail
<1>3. ToSet(unacked') = ToSet(unacked) \cup {Head(queue)}
  BY <1>1, <1>2, AppendedToSet DEF Deliver
<1>4. QED
  BY <1>2, <1>3 DEF Deliver, Held

(* A command that is handled for the first time is the next one published. *)
LEMMA HandleActs ==
  ASSUME GInv, Handle PROVE Delivery!Act \/ UNCHANGED Delivery!vars
<1>1. PICK m : m = Head(wire)
  OBVIOUS
<1>2. /\ UNCHANGED <<published, queue, unacked>> /\ pc = "loop" /\ wire # <<>>
      /\ firsts' = IF attempts[m] = 0 THEN Append(firsts, m) ELSE firsts
  BY <1>1 DEF Handle
<1>3. Held' = Held
  BY <1>2 DEF Held
<1>4. CASE attempts[m] # 0
  BY <1>2, <1>3, <1>4 DEF Delivery!vars
<1>5. CASE attempts[m] = 0
  <2>1. PICK o \in 0..Len(firsts) :
          /\ o + Len(wire) <= Len(published)
          /\ \A i \in 1..Len(wire) : wire[i] = published[o + i]
    BY <1>2, WireFollows
  <2>2. /\ wire \in Seq(Msgs) /\ Len(wire) \in Nat \ {0} /\ m = wire[1] /\ m \in Msgs
        /\ Len(firsts) \in Nat /\ Len(published) \in Nat
    BY <1>1, <1>2, SMTT(30) DEF GInv, Types, BrokerTypeOK
  <2>3. o + 1 <= Len(published) /\ m = published[o + 1]
    BY <2>1, <2>2
  <2>4. o = Len(firsts)
    BY <1>5, <2>2, <2>3, FirstInTurn
  <2>5. QED
    BY <1>2, <1>3, <1>5, <2>2, <2>3, <2>4 DEF Delivery!Act
<1>6. QED
  BY <1>4, <1>5

(* A command leaves the broker only when it was handled, and is nowhere    *)
(* else then.                                                              *)
LEMMA BrokerSettlesOne ==
  ASSUME GInv, BrokerSettles PROVE \E m \in Msgs : Delivery!Settle(m)
<1>1. acks # <<>> /\ unacked' = RemoveFirst(unacked, Head(acks)) /\ UNCHANGED <<published, firsts, queue>>
  BY DEF BrokerSettles, work
<1>2. PICK m : m = Head(acks)
  OBVIOUS
<1>3. /\ Connection /\ Len(acks) \in Nat \ {0} /\ Len(unacked) \in Nat \ {0}
      /\ m = Head(unacked) /\ m = published[Settled + 1]
  BY <1>1, <1>2, SettledFirst
<1>4. /\ unacked \in Seq(Msgs) /\ queue \in Seq(Msgs) /\ published \in Seq(Msgs) /\ unacked # <<>>
      /\ acks \in Seq(Msgs) /\ wire \in Seq(Msgs) /\ firsts \in Seq(Msgs) /\ Own \in {0, 1}
  BY <1>3 DEF GInv, Types, BrokerTypeOK, Own
<1>5. unacked' = Tail(unacked) /\ m \in Msgs
  BY <1>1, <1>2, <1>3, <1>4, RemoveHead
<1>6. /\ Settled \in Nat /\ Settled + Len(unacked) + Len(queue) = Len(published)
      /\ Len(queue) \in Nat /\ Len(published) \in Nat /\ Len(firsts) \in Nat
  BY <1>4 DEF GInv, Numbering, Settled
<1>7. m \in Delivery!Acted
  <2>1. Settled + 1 \in 1..Len(firsts)
    BY <1>3, <1>4, <1>6 DEF Connection
  <2>2. firsts[Settled + 1] = m /\ Settled + 1 \in DOMAIN firsts
    BY <1>3, <1>4, <2>1 DEF GInv, Numbering
  <2>3. QED
    BY <2>2 DEF Delivery!Acted
<1>8. ToSet(unacked) = {m} \cup ToSet(unacked')
  BY <1>3, <1>4, <1>5, HeadAndTail
<1>9. m \notin ToSet(unacked') \cup ToSet(queue)
  <2>1. \A i, j \in 1..Len(published) : published[i] = published[j] => i = j
    BY DEF GInv, Numbering
  <2>2. ASSUME NEW i \in DOMAIN unacked', unacked'[i] = m PROVE FALSE
    <3>1. i + 1 \in 1..Len(unacked) /\ unacked'[i] = unacked[i + 1] /\ i \in Nat \ {0}
      BY <1>4, <1>5, <2>2
    <3>2. unacked[i + 1] = published[Settled + (i + 1)]
      BY <3>1 DEF GInv, Numbering
    <3>3. Settled + (i + 1) \in 1..Len(published) /\ Settled + 1 \in 1..Len(published)
      BY <1>3, <1>6, <3>1
    <3>4. Settled + (i + 1) = Settled + 1
      BY <1>3, <2>1, <2>2, <3>1, <3>2, <3>3
    <3>5. QED
      BY <1>6, <3>1, <3>4
  <2>3. ASSUME NEW i \in DOMAIN queue, queue[i] = m PROVE FALSE
    <3>1. i \in 1..Len(queue)
      BY <1>4
    <3>2. queue[i] = published[Settled + Len(unacked) + i]
      BY <3>1 DEF GInv, Numbering
    <3>3. Settled + Len(unacked) + i \in 1..Len(published) /\ Settled + 1 \in 1..Len(published)
      BY <1>3, <1>6, <3>1
    <3>4. Settled + Len(unacked) + i = Settled + 1
      BY <1>3, <2>1, <2>3, <3>2, <3>3
    <3>5. QED
      BY <1>3, <1>6, <3>1, <3>4
  <2>4. QED
    BY <2>2, <2>3 DEF ToSet
<1>10. m \in Held /\ Held' = Held \ {m}
  BY <1>1, <1>8, <1>9 DEF Held
<1>11. QED
  BY <1>1, <1>5, <1>7, <1>10 DEF Delivery!Settle

(* Every step of the daemon, the broker, faults and signals is one of      *)
(* CommandDelivery's, or none of its concern.                              *)
LEMMA DeliveryStep == CoreInv /\ GInv /\ [Next]_vars => [Delivery!Next]_Delivery!vars
<1> SUFFICES ASSUME CoreInv, GInv, [Next]_vars
             PROVE  Delivery!Next \/ UNCHANGED Delivery!vars
  OBVIOUS
<1>0. /\ UNCHANGED <<published, queue, unacked, firsts>> => UNCHANGED Delivery!vars
      /\ Requeue /\ UNCHANGED <<published, firsts>> => UNCHANGED Delivery!vars
  BY RequeuedIsHeld DEF Delivery!vars, Held
<1>1. End => UNCHANGED Delivery!vars
  BY <1>0 DEF End, work
<1>2. CASE Poll
  BY <1>0, <1>1, <1>2 DEF Poll, broker, work
<1>3. CASE Setup
  BY <1>0, <1>1, <1>3 DEF Setup, EndAs, broker, work
<1>4. CASE Handle
  BY <1>4, HandleActs DEF Delivery!Next
<1>5. CASE Reload
  BY <1>0, <1>5 DEF Reload, broker
<1>6. CASE Settle
  BY <1>0, <1>6 DEF Settle, work, CoreInv, SM!StatePublishable
<1>7. CASE Deliver
  <2>1. UNCHANGED <<published, firsts>>
    BY <1>7 DEF Deliver, work
  <2>2. QED
    BY <1>7, <2>1, DeliverKeeps DEF Delivery!vars
<1>8. CASE BrokerSettles
  BY <1>8, BrokerSettlesOne DEF Delivery!Next
<1>9. CASE LinkLost
  BY <1>0, <1>1, <1>9 DEF LinkLost, EndAs, work
<1>10. CASE Terminate \/ Killed
  BY <1>1, <1>10 DEF Terminate, Killed, EndAs
<1>11. CASE Restart
  BY <1>0, <1>11 DEF Restart, broker, work
<1>12. CASE LiquidsoapChanges
  BY <1>0, <1>12 DEF LiquidsoapChanges, broker, work
<1>13. CASE \E m \in Msgs : Publish(m)
  BY <1>13, PublishSubmits DEF Delivery!Next
<1>14. CASE UNCHANGED vars
  BY <1>0, <1>14 DEF vars, broker, work
<1>15. QED
  BY <1>2, <1>3, <1>4, <1>5, <1>6, <1>7, <1>8, <1>9, <1>10, <1>11, <1>12, <1>13, <1>14
  DEF Next, Process

(* Commands leave the broker only once they have been handled, and their   *)
(* first times come in the order of publication, across crashes, lost      *)
(* connections and redeliveries, for any number of commands.               *)
THEOREM CommandsAreDelivered == Spec => DeliversCommands
  BY InitDelivers, DeliveryStep, Invariant, PTL DEF Spec, DeliversCommands, Delivery!Spec
=============================================================================
