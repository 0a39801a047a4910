-------------------------- MODULE LiquidsoapDriver --------------------------
(***************************************************************************)
(* The two Liquidsoap drivers (src/src/drivers/liquidsoap_driver.cpp):     *)
(* TelnetLiquidsoapDriver and UnixSocketLiquidsoapDriver.  execute() sends *)
(* one command line on a persistent connection and receives until the      *)
(* accumulated response contains the end marker.  The two classes differ   *)
(* only in connect(); execute(), disconnect() and the backoff are the same *)
(* code twice.                                                             *)
(*                                                                         *)
(* Liquidsoap and the network are the environment: replies arrive in       *)
(* pieces, the connection can be lost at any moment, the server can stop   *)
(* listening, and a command sent on a lost connection may still be run.    *)
(*                                                                         *)
(* A response is a sequence of lines.  Of a line the model keeps the call  *)
(* it answers, its position in the reply, and its kind:                    *)
(*   "text"     a line that neither ends in END nor holds a NUL byte,      *)
(*   "endline"  a line of content whose text ends in END ("...THE END"),   *)
(*   "nul"      a line of content that holds a NUL byte,                   *)
(*   "END"      the protocol's last line.                                  *)
(***************************************************************************)
EXTENDS Naturals, FiniteSets, Sequences, SequencesExt

CONSTANTS
  Transports,      \* drivers main() may build: "telnet", "socket", or "longpath",
                   \* a socket driver whose path does not fit in sun_path
  Addresses,       \* addresses getaddrinfo yields for the telnet host
  Bodies,          \* what a reply may hold before its END line
  ChunkMax,        \* most lines one recv() returns (the 4095-byte buffer)
  MaxResponse,     \* MAX_RESPONSE_SIZE, in lines
  InitialBackoff,  \* backoff_ms_ of a new driver
  ResetBackoff,    \* backoff_ms_ after a connection (100 in the code)
  MaxBackoff,      \* MAX_BACKOFF_MS
  MaxCalls         \* execute() calls made, a bound for the model checker

LineKinds == {"text", "endline", "nul"}

ASSUME TransportsAssumption ==
  Transports \subseteq {"telnet", "socket", "longpath"}

ASSUME BodiesAssumption == Bodies \subseteq Seq(LineKinds)

ASSUME SizeAssumption ==
  /\ Addresses \in Nat
  /\ ChunkMax \in Nat \ {0}
  /\ MaxResponse \in Nat
  /\ MaxCalls \in Nat

ASSUME BackoffAssumption ==
  /\ InitialBackoff \in Nat
  /\ ResetBackoff \in Nat
  /\ MaxBackoff \in Nat
  /\ InitialBackoff <= MaxBackoff
  /\ ResetBackoff <= MaxBackoff

VARIABLES
  transport,  \* the driver main() built
  pc,         \* where execute() stands
  call,       \* number of the current or last execute()
  outcome,    \* what it returned: "reply", an error code, or "none" while it runs
  response,   \* the lines accumulated by the current or last execute()
  fd,         \* socket_fd_: "none" (-1), "unconnected" or "connected"
  addrs,      \* addresses connect() has still to try
  backoff,    \* backoff_ms_
  elapsed,    \* time since last_connection_attempt_
  accepting,  \* Liquidsoap is listening
  peer,       \* Liquidsoap's end of the connection: "open" or "closed"
  sent,       \* commands Liquidsoap has been sent on it and has not run yet
  inbox,      \* lines Liquidsoap has written to it and recv() has not returned
  orphans,    \* commands left behind on a lost connection, which may still run
  runs        \* runs[c]: how often Liquidsoap ran the command of call c

connection == <<fd, peer, sent, inbox, orphans>>
timing     == <<backoff, elapsed>>
vars == <<transport, pc, call, outcome, response, addrs, accepting, runs,
          connection, timing>>

-----------------------------------------------------------------------------
(* Helpers *)

Smaller(a, b) == IF a <= b THEN a ELSE b

(* Liquidsoap's reply to call c: the body's lines, then END. *)
Reply(c, body) ==
  [i \in 1..(Len(body) + 1) |->
     [call |-> c, pos |-> i,
      kind |-> IF i <= Len(body) THEN body[i] ELSE "END"]]

(* response += buffer appends a C string: it stops at the first NUL byte. *)
UpToNul(chunk) ==
  SubSeq(chunk, 1, Cardinality({i \in DOMAIN chunk :
                                  \A j \in 1..i : chunk[j].kind # "nul"}))

(* response.find("END\r\n") or response.find("END\n"): a substring match. *)
Terminated(lines) == \E i \in DOMAIN lines : lines[i].kind \in {"END", "endline"}

(* disconnect(): what the connection carried is gone for the driver. *)
Disconnect == /\ fd' = "none"
              /\ peer' = "closed"
              /\ sent' = <<>>
              /\ inbox' = <<>>
              /\ orphans' = orphans \cup ToSet(sent)

Return(what) == /\ pc' = "idle"
                /\ outcome' = what

(* A new, empty connection; backoff_ms_ is reset. *)
Connected == /\ accepting
             /\ fd' = "connected"
             /\ peer' = "open"
             /\ backoff' = ResetBackoff
             /\ pc' = "send"
             /\ UNCHANGED <<sent, inbox, orphans, outcome, elapsed>>

(* Mutant: the backoff doubles without a maximum. *)
ApplyBackoffUncapped ==
  /\ backoff' = IF elapsed >= backoff THEN 2 * backoff ELSE backoff
  /\ elapsed' = 0

(* apply_backoff_delay(): it never delays, it only doubles the value. *)
ApplyBackoffDelay ==
  /\ backoff' = IF elapsed >= backoff THEN Smaller(2 * backoff, MaxBackoff) ELSE backoff
  /\ elapsed' = 0

-----------------------------------------------------------------------------
Init ==
  /\ transport \in Transports
  /\ pc = "idle"
  /\ call = 0
  /\ outcome = "none"
  /\ response = <<>>
  /\ fd = "none"
  /\ addrs = 0
  /\ backoff = InitialBackoff
  /\ elapsed \in {0, MaxBackoff}
  /\ accepting \in BOOLEAN
  /\ peer = "closed"
  /\ sent = <<>>
  /\ inbox = <<>>
  /\ orphans = {}
  /\ runs = [c \in 1..MaxCalls |-> 0]

(* execute() up to connect(), which keeps a socket that is already there. *)
Execute ==
  /\ pc = "idle"
  /\ call < MaxCalls
  /\ call' = call + 1
  /\ outcome' = "none"
  /\ response' = <<>>
  /\ \/ /\ fd # "none"
        /\ pc' = "send"
        /\ UNCHANGED timing
     \/ /\ fd = "none"
        /\ pc' = IF transport = "telnet" THEN "resolve" ELSE "open"
        /\ ApplyBackoffDelay
  /\ UNCHANGED <<transport, addrs, accepting, runs, connection>>

(* TelnetLiquidsoapDriver::connect(): getaddrinfo. *)
Resolve ==
  /\ pc = "resolve"
  /\ \/ /\ Return("invalid_argument")
        /\ UNCHANGED addrs
     \/ /\ pc' = "try"
        /\ addrs' = Addresses
        /\ UNCHANGED outcome
  /\ UNCHANGED <<transport, call, response, accepting, runs, connection, timing>>

(* TelnetLiquidsoapDriver::connect(): one turn of the loop over addresses. *)
(* An address can fail even while Liquidsoap listens on another one.       *)
TryAddress ==
  /\ pc = "try"
  /\ \/ /\ addrs = 0
        /\ Return("connection_refused")
        /\ UNCHANGED <<addrs, connection, timing>>
     \/ /\ addrs > 0
        /\ addrs' = addrs - 1
        /\ \/ Connected
           \/ /\ fd' = "none"
              /\ UNCHANGED <<pc, outcome, peer, sent, inbox, orphans, timing>>
  /\ UNCHANGED <<transport, call, response, accepting, runs>>

(* Mutant: the early return for a long path leaves the socket open. *)
OpenSocketLeaks ==
  /\ pc = "open"
  /\ \/ /\ transport = "longpath"
        /\ fd' = "unconnected"
        /\ Return("invalid_argument")
        /\ UNCHANGED <<peer, sent, inbox, orphans, timing>>
     \/ transport = "socket" /\ Connected
  /\ UNCHANGED <<transport, call, response, addrs, accepting, runs>>

(* UnixSocketLiquidsoapDriver::connect(): socket(), the check of the       *)
(* path's length, ::connect().                                             *)
OpenSocket ==
  /\ pc = "open"
  /\ \/ /\ Return("io_error")
        /\ UNCHANGED <<connection, timing>>
     \/ /\ transport = "longpath"
        /\ Disconnect
        /\ Return("invalid_argument")
        /\ UNCHANGED timing
     \/ /\ transport = "socket"
        /\ \/ Connected
           \/ /\ Disconnect
              /\ Return("connection_refused")
              /\ UNCHANGED timing
  /\ UNCHANGED <<transport, call, response, addrs, accepting, runs>>

(* Mutant: a failed send() returns without disconnect(). *)
SendKeepsConnection ==
  /\ pc = "send"
  /\ \/ /\ pc' = "recv"
        /\ sent' = IF peer = "open" THEN Append(sent, call) ELSE sent
        /\ UNCHANGED outcome
     \/ /\ peer = "closed"
        /\ Return("io_error")
        /\ UNCHANGED sent
  /\ UNCHANGED <<transport, call, response, addrs, accepting, runs, timing,
                 fd, peer, inbox, orphans>>

(* send(): on a connection Liquidsoap has closed it may still succeed. *)
Send ==
  /\ pc = "send"
  /\ \/ /\ pc' = "recv"
        /\ sent' = IF peer = "open" THEN Append(sent, call) ELSE sent
        /\ UNCHANGED <<outcome, fd, peer, inbox, orphans>>
     \/ /\ peer = "closed"
        /\ Disconnect
        /\ Return("io_error")
  /\ UNCHANGED <<transport, call, response, addrs, accepting, runs, timing>>

(* Mutant: giving up on a long response keeps the connection. *)
RecvTooLongKeepsConnection ==
  /\ pc = "recv"
  /\ Len(response) > MaxResponse
  /\ Return("message_size")
  /\ UNCHANGED <<transport, call, response, addrs, accepting, runs, connection, timing>>

(* The receive loop gives up on a response that has grown too long. *)
RecvTooLong ==
  /\ pc = "recv"
  /\ Len(response) > MaxResponse
  /\ Disconnect
  /\ Return("message_size")
  /\ UNCHANGED <<transport, call, response, addrs, accepting, runs, timing>>

(* Mutant: the receive loop does not look at the size of the response. *)
RecvChunkUnbounded ==
  /\ pc = "recv"
  /\ \E n \in 1..Smaller(ChunkMax, Len(inbox)) :
       /\ response' = response \o UpToNul(SubSeq(inbox, 1, n))
       /\ inbox' = SubSeq(inbox, n + 1, Len(inbox))
  /\ IF Terminated(response') THEN Return("reply") ELSE UNCHANGED <<pc, outcome>>
  /\ UNCHANGED <<transport, call, addrs, accepting, runs, fd, peer, sent, orphans, timing>>

(* recv() returns some of the lines that were written; the response ends   *)
(* as soon as it contains the end marker anywhere.                         *)
RecvChunk ==
  /\ pc = "recv"
  /\ Len(response) <= MaxResponse
  /\ \E n \in 1..Smaller(ChunkMax, Len(inbox)) :
       /\ response' = response \o UpToNul(SubSeq(inbox, 1, n))
       /\ inbox' = SubSeq(inbox, n + 1, Len(inbox))
  /\ IF Terminated(response') THEN Return("reply") ELSE UNCHANGED <<pc, outcome>>
  /\ UNCHANGED <<transport, call, addrs, accepting, runs, fd, peer, sent, orphans, timing>>

(* Mutant: execute() connects again and repeats the command. *)
RecvClosedRetries ==
  /\ pc = "recv"
  /\ peer = "closed"
  /\ inbox = <<>>
  /\ Disconnect
  /\ pc' = IF transport = "telnet" THEN "resolve" ELSE "open"
  /\ response' = <<>>
  /\ UNCHANGED <<transport, call, outcome, addrs, accepting, runs, timing>>

(* Mutant: only n < 0 ends the loop, so a closed connection is read forever. *)
RecvClosedLoops == pc = "recv" /\ peer = "closed" /\ inbox = <<>> /\ UNCHANGED vars

(* recv() returns 0 or an error. *)
RecvClosed ==
  /\ pc = "recv"
  /\ Len(response) <= MaxResponse
  /\ peer = "closed"
  /\ inbox = <<>>
  /\ Disconnect
  /\ Return("connection_aborted")
  /\ UNCHANGED <<transport, call, response, addrs, accepting, runs, timing>>

-----------------------------------------------------------------------------
(* The environment: Liquidsoap, the network, time. *)

(* Liquidsoap runs the oldest command it was sent and writes the reply. *)
Answer ==
  /\ peer = "open"
  /\ sent # <<>>
  /\ \E body \in Bodies : inbox' = inbox \o Reply(Head(sent), body)
  /\ runs' = [runs EXCEPT ![Head(sent)] = @ + 1]
  /\ sent' = Tail(sent)
  /\ UNCHANGED <<transport, pc, call, outcome, response, addrs, accepting,
                 fd, peer, orphans, timing>>

(* The connection is lost: part of what was written may not arrive, and    *)
(* what was sent may or may not be run.                                    *)
PeerCloses ==
  /\ peer = "open"
  /\ peer' = "closed"
  /\ \E n \in 0..Len(inbox) : inbox' = SubSeq(inbox, 1, n)
  /\ sent' = <<>>
  /\ orphans' = orphans \cup ToSet(sent)
  /\ UNCHANGED <<transport, pc, call, outcome, response, addrs, accepting, runs, fd, timing>>

RunOrphan ==
  /\ \E c \in orphans : /\ orphans' = orphans \ {c}
                        /\ runs' = [runs EXCEPT ![c] = @ + 1]
  /\ UNCHANGED <<transport, pc, call, outcome, response, addrs, accepting,
                 fd, peer, sent, inbox, timing>>

StartOrStopListening ==
  /\ accepting' = ~accepting
  /\ UNCHANGED <<transport, pc, call, outcome, response, addrs, runs, connection, timing>>

(* Time passes; past MaxBackoff it makes no difference to the driver. *)
Tick ==
  /\ elapsed < MaxBackoff
  /\ elapsed' = elapsed + 1
  /\ UNCHANGED <<transport, pc, call, outcome, response, addrs, accepting, runs,
                 connection, backoff>>

-----------------------------------------------------------------------------
(* The steps of an execute() that has begun. *)
DriverStep == \/ Resolve
              \/ TryAddress
              \/ OpenSocket
              \/ Send
              \/ RecvTooLong
              \/ RecvChunk
              \/ RecvClosed

Environment == \/ Answer
               \/ PeerCloses
               \/ RunOrphan
               \/ StartOrStopListening
               \/ Tick

Next == Execute \/ DriverStep \/ Environment

Spec == Init /\ [][Next]_vars

(* The driver's thread runs on: each of its system calls that can return   *)
(* does return.  Liquidsoap answers every command, unless the connection   *)
(* is lost; the drivers have no timeout that could stand in for this.      *)
FairSpec == Spec /\ WF_vars(DriverStep) /\ WF_vars(Answer)

-----------------------------------------------------------------------------
(* Properties *)

Lines == [call : 1..MaxCalls, pos : Nat \ {0}, kind : LineKinds \cup {"END"}]

Outcomes == {"none", "reply", "invalid_argument", "connection_refused",
             "io_error", "message_size", "connection_aborted"}

ConnectionTypeOK ==
  /\ fd \in {"none", "unconnected", "connected"}
  /\ peer \in {"open", "closed"}
  /\ sent \in Seq(1..MaxCalls)
  /\ inbox \in Seq(Lines)
  /\ orphans \subseteq 1..MaxCalls

(* Every variable keeps its type; the backoff stays within its maximum. *)
TypeOK ==
  /\ transport \in Transports
  /\ pc \in {"idle", "resolve", "try", "open", "send", "recv"}
  /\ call \in 0..MaxCalls
  /\ outcome \in Outcomes
  /\ response \in Seq(Lines)
  /\ addrs \in 0..Addresses
  /\ backoff \in 0..MaxBackoff
  /\ elapsed \in 0..MaxBackoff
  /\ accepting \in BOOLEAN
  /\ runs \in [1..MaxCalls -> Nat]
  /\ ConnectionTypeOK

(* An execute() that succeeds returns the complete reply to its own        *)
(* command and nothing else: all lines carry its number, none is missing,  *)
(* and the last one is the END line.                                       *)
OwnReply ==
  outcome = "reply" =>
    /\ response # <<>>
    /\ response[Len(response)].kind = "END"
    /\ \A i \in DOMAIN response : response[i].call = call /\ response[i].pos = i

(* Between two calls a connection that is kept carries nothing: no reply   *)
(* line and no unanswered command is left for the next call to trip over,  *)
(* whatever error or success the last call ended with.                     *)
QuietBetweenCalls ==
  pc \in {"idle", "send"} => /\ sent = <<>>
                             /\ inbox = <<>>
                             /\ fd # "unconnected"

(* A call that failed has given its connection up, so the next call starts *)
(* with a new one.                                                         *)
ErrorDropsConnection ==
  pc = "idle" /\ outcome \notin {"none", "reply"} => fd = "none"

(* The response held in memory never exceeds the limit by more than one    *)
(* buffer.                                                                 *)
ResponseBounded == Len(response) <= MaxResponse + ChunkMax

(* Every execute() returns, when Liquidsoap answers every command. *)
ExecuteReturns == (pc # "idle") ~> (pc = "idle")

-----------------------------------------------------------------------------
(* The promise of a StreamProvider.  An outcome "reply" that is not this   *)
(* call's own complete reply maps to a verdict RequestReply never gives.   *)
Verdict == CASE outcome = "none" -> "none"
             [] outcome = "reply" -> IF OwnReply THEN "reply" ELSE "garbage"
             [] OTHER -> "error"

Promise == INSTANCE RequestReply WITH busy <- pc # "idle", verdict <- Verdict

(* The driver keeps that promise. *)
KeepsPromise == Promise!Spec
=============================================================================
