----------------------------- MODULE AmqpClient -----------------------------
(***************************************************************************)
(* The AMQP client as main() uses it: one connection, its channel and its  *)
(* heartbeat timer in one event loop, against a broker that may refuse an  *)
(* operation, end the connection or fall silent.  Composes Heartbeat       *)
(* (LibEvHandler), Channel (ChannelImpl and Deferred) and Envelope         *)
(* (MetaData, Message); what ConnectionImpl keeps itself is here.  What the*)
(* frames are as bytes is in ClientWire.                                   *)
(***************************************************************************)
EXTENDS Heartbeat, Channel, Envelope

CONSTANTS
  Start,          \* the operations main() asks for before the loop runs
  Extras,         \* operations it may ask for later
  Recalls,        \* the callbacks it installs on recall()
  Envelopes,      \* what other programs publish, in this order
  ReadHeaders,    \* ReadHeaders[k]: the properties read from the header frame of the k-th
  Tunes,          \* pairs of a heartbeat timeout and a frame size the broker may suggest
  WordRange,      \* 2^32
  MaxPolls        \* bound: polls that use the channel

(* The messages that come back are received by no operation. *)
Recall == "recall"

ASSUME ClientAssumption ==
  /\ Recall \notin Ops
  /\ Start \in Seq(Ops) /\ IsInjective(Start)
  /\ Extras \subseteq Ops \ ToSet(Start)
  /\ \A op \in Ops : ToSet(Program[op]) \cap (ToSet(Start) \cup Extras) = {}
  /\ Recalls \in Seq(DOMAIN DeferredRecall)

(* What was put into a header frame is read from it, and a frame has room  *)
(* for a byte of the body.                                                 *)
ASSUME WireAssumption ==
  /\ Len(Envelopes) \in Nat \ {0} /\ DOMAIN Envelopes = 1..Len(Envelopes)
  /\ \A k \in DOMAIN Envelopes :
       /\ Envelopes[k].body \in Seq(Nat)
       /\ Retrieved(ReadHeaders[k]) = Retrieved(Envelopes[k].meta)
  /\ Tunes \subseteq Timeouts \X Nat /\ WordRange \in Nat \ {0}
  /\ \A size \in {4096} \cup {t[2] : t \in Tunes} : (size - 8) % WordRange > 0

VARIABLES
  c,          \* the channel
  maxFrame,   \* _maxFrame of ConnectionImpl
  inbox,      \* frames on their way from the broker
  stage,      \* frames of the handshake the broker has sent
  served,     \* frames of c.handed the broker has dealt with
  open,       \* the broker's end of the channel is open, and a consumer known
  silent,     \* the broker or the network has fallen silent
  sent,       \* how many messages the broker has delivered
  receiver,   \* _receiver: whose it is, _message, _bodySize, and what the program has heard
  received    \* the delivery that is complete, while the program's callback is at work
              \* (both with the envelope that the delivery is of)

clientVars == <<hbVars, c, maxFrame, inbox, stage, served, open, silent, sent, receiver,
                received>>

broker == <<stage, served, open, silent, sent>>

client == <<c, maxFrame, receiver, received>>

-----------------------------------------------------------------------------
(* A body is sent in frames of at most the maximal payload; a frame size   *)
(* of zero, no limit, makes it very large.                                 *)
maxPayload == (maxFrame - 8) % WordRange

BodyFrames(body) ==
  LET count == (Len(body) + maxPayload - 1) \div maxPayload
  IN  [k \in 1..count |->
         [type |-> "body",
          payload |-> SubSeq(body, (k - 1) * maxPayload + 1, Min({k * maxPayload, Len(body)}))]]

Plain(type) == [type |-> type]

(* The broker's side. *)
Answering == ~silent /\ conn # "closed"

Handshake == <<"start", "tune", "connectionOpen">>

ServerGreets ==
  /\ Answering /\ stage < 3 /\ inbox = <<>>
  /\ stage = 1 => conn = "handshake"
  /\ stage' = stage + 1
  /\ inbox' = <<Plain(Handshake[stage'])>>
  /\ UNCHANGED <<hbVars, client, served, open, silent, sent>>

(* The frames of a message, without the one that says what it is for.      *)
Content(k) == <<[type |-> "header", of |-> k]>> \o BodyFrames(Envelopes[k].body)

(* The broker takes the requests in their order. *)
Serves ==
  /\ Answering /\ conn = "connected" /\ open # "no" /\ served < Len(c.handed)
  /\ served' = served + 1
  /\ UNCHANGED <<hbVars, client, stage, silent>>

Request == c.handed[served']

Requests(kinds) == Request \in Ops /\ Kind[Request] \in kinds

ServerAnswers ==
  /\ Serves
  /\ Synchronous(Request) /\ ~Requests(Gets)
  /\ inbox' = Append(inbox, [type |-> "ok", of |-> Request])
  /\ open' = IF Requests(Consumers) THEN "consuming"
             ELSE IF Requests(Cancels) THEN "yes"
             ELSE IF Requests(Closings) THEN "no" ELSE open
  /\ UNCHANGED sent

ServerAccepts ==
  /\ Serves
  /\ ~Synchronous(Request)
  /\ UNCHANGED <<inbox, open, sent>>

(* A message that can be delivered to nobody; it is like the first envelope. *)
ServerReturns ==
  /\ Serves
  /\ Request = "publish"
  /\ inbox' = inbox \o <<Plain("return")>> \o Content(1)
  /\ UNCHANGED <<open, sent>>

ServerGives ==
  /\ Serves
  /\ Requests(Gets)
  /\ \/ inbox' = Append(inbox, [type |-> "empty", of |-> Request]) /\ UNCHANGED sent
     \/ /\ sent < Len(Envelopes) /\ sent' = sent + 1
        /\ inbox' = inbox \o <<[type |-> "message", of |-> Request]>> \o Content(sent')
  /\ UNCHANGED open

(* An operation that fails ends the channel. *)
ServerRefuses ==
  /\ Serves
  /\ Requests(Kinds \ Closings)
  /\ inbox' = Append(inbox, Plain("refused"))
  /\ open' = "no"
  /\ UNCHANGED sent

ServerDelivers ==
  /\ Answering /\ open = "consuming" /\ sent < Len(Envelopes)
  /\ sent' = sent + 1
  /\ inbox' = inbox \o <<Plain("deliver")>> \o Content(sent')
  /\ UNCHANGED <<hbVars, client, stage, served, open, silent>>

ServerBeats ==
  /\ Answering /\ conn = "connected" /\ inbox = <<>> /\ quiet > 0
  /\ inbox' = <<Plain("heartbeat")>>
  /\ UNCHANGED <<hbVars, client, broker>>

(* What is on its way arrives or is lost; the end may be noticed or not.   *)
(* The broker forgets what it knew of the channel.                         *)
ServerFails ==
  /\ Answering
  /\ silent' = TRUE /\ open' = "no"
  /\ \E arrives \in IF "io" \in pending THEN {inbox} ELSE {inbox, <<>>} :
       inbox' \in {arrives, Append(arrives, Plain("end"))}
  /\ UNCHANGED <<hbVars, client, stage, served, sent>>

-----------------------------------------------------------------------------
(* What the connection does with the next frame. *)
Arrives(type) == inbox # <<>> /\ Head(inbox).type = type /\ inbox' = Tail(inbox)

(* setProtocolOk() and setReady(). *)
ProcessHandshake ==
  /\ \/ Arrives("start") /\ ReadData(IF conn = "protocol" THEN "handshake" ELSE conn)
     \/ Arrives("connectionOpen") /\ ReadData("connected")
  /\ ~busy'
  /\ UNCHANGED <<c, maxFrame, broker, receiver, received>>

(* setCapacity() and setHeartbeat(). *)
ProcessTune ==
  /\ Arrives("tune") /\ ReadTune
  /\ maxFrame' \in {tune[2] : tune \in {t \in Tunes : t[1] = timeout'}}
  /\ UNCHANGED <<c, broker, receiver, received>>

(* reportHeartbeat(): nobody listens. *)
ProcessHeartbeat ==
  /\ Arrives("heartbeat") /\ ReadData(conn) /\ ~busy'
  /\ UNCHANGED <<c, maxFrame, broker, receiver, received>>

ProcessAnswer ==
  /\ (Arrives("ok") \/ Arrives("empty")) /\ ReadData(conn) /\ ~busy'
  /\ LET answer == Head(inbox)
     IN  c' = IF answer.of = Open THEN reportReady(c)
              ELSE IF Kind[answer.of] \in Closings THEN reportClosed(c)
              ELSE reportSuccess(c, answer.type)
  /\ UNCHANGED <<maxFrame, broker, receiver, received>>

ProcessRefusal ==
  /\ Arrives("refused") /\ ReadData(conn) /\ ~busy'
  /\ c' = reportError(c)
  /\ UNCHANGED <<maxFrame, broker, receiver, received>>

-----------------------------------------------------------------------------
(* Messages come by delivery, as the answer to a get(), or back. *)
Callbacks(op) == IF op = Recall THEN Installed(DeferredRecall, Recalls) ELSE Listeners(op)

Whole == {"_messageCallback", "_bounceCallback"}

(* initialize(): a Message is only built for a callback that wants it.     *)
Wanted(op) == Whole \cap DOMAIN Callbacks(op) # {}

Hear(r, member, what) == [r EXCEPT !.heard = Tell(@, Callbacks(r.op), member, what)]

Receiver(op, start) ==
  Hear([op |-> op, of |-> 0, left |-> 0, heard |-> <<>>,
        message |-> IF Wanted(op) THEN Message ELSE None],
       start, <<>>)

WithHeader(r, k) ==
  LET n     == Len(Envelopes[k].body)
      sized == Hear([r EXCEPT !.of = k, !.left = n], "_sizeCallback", n)
      built == IF ~Wanted(r.op) THEN sized
               ELSE [sized EXCEPT !.message = setMetaData(setBodySize(@, n), ReadHeaders[k])]
  IN  Hear(built, "_headerCallback", ReadHeaders[k])

WithBody(r, payload) ==
  LET heard == Hear([r EXCEPT !.left = @ - Len(payload)], "_dataCallback", payload)
  IN  IF ~Wanted(r.op) THEN heard ELSE [heard EXCEPT !.message = append(@, payload)]

(* complete(). *)
Completed(r) ==
  Hear(Hear(Hear(Hear(r, "_messageCallback", r.message), "_bounceCallback", r.message),
            "_deliveredCallback", <<>>), "_completeCallback", <<>>)

(* The program's callback is called with a message that is complete, and   *)
(* may block.                                                              *)
Received(r) ==
  IF r.left > 0 THEN receiver' = r /\ ~busy' /\ UNCHANGED received
  ELSE receiver' = None /\ busy' /\ received' = [Completed(r) EXCEPT !.message = None]

Ignored == ~busy' /\ UNCHANGED <<receiver, received>>

(* A consumer that is not installed is not found. *)
ProcessDeliver ==
  /\ Arrives("deliver") /\ ReadData(conn) /\ ~busy'
  /\ receiver' = IF c.consumer = None THEN None ELSE Receiver(c.consumer, "_startCallback")
  /\ UNCHANGED <<c, maxFrame, broker, received>>

ProcessMessage ==
  /\ Arrives("message") /\ ReadData(conn) /\ ~busy'
  /\ c' = reportSuccess(c, "message")
  /\ receiver' = Receiver(c.oldest, "_startCallback")
  /\ UNCHANGED <<maxFrame, broker, received>>

ProcessReturn ==
  /\ Arrives("return") /\ ReadData(conn) /\ ~busy'
  /\ receiver' = IF Recalls = <<>> THEN None ELSE Receiver(Recall, "_beginCallback")
  /\ UNCHANGED <<c, maxFrame, broker, received>>

ProcessHeader ==
  /\ Arrives("header") /\ ReadData(conn)
  /\ IF receiver = None THEN Ignored ELSE Received(WithHeader(receiver, Head(inbox).of))
  /\ UNCHANGED <<c, maxFrame, broker>>

ProcessBody ==
  /\ Arrives("body") /\ ReadData(conn)
  /\ IF receiver = None THEN Ignored ELSE Received(WithBody(receiver, Head(inbox).payload))
  /\ UNCHANGED <<c, maxFrame, broker>>

(* The connection is gone: fail() reports it to the channel. *)
Failed == IF c.state = "closed" THEN c ELSE reportError(c)

(* Mutant: an end after which the connection stays attached to its Wrapper. *)
ProcessEndAttached ==
  /\ Arrives("end") /\ ReadData("closed") /\ ~busy'
  /\ c' = Failed
  /\ UNCHANGED <<maxFrame, broker, receiver, received>>

ProcessEnd ==
  /\ Arrives("end") /\ ReadEnd
  /\ c' = Failed
  /\ UNCHANGED <<maxFrame, broker, receiver, received>>

Process ==
  \/ ProcessHandshake \/ ProcessTune \/ ProcessHeartbeat \/ ProcessAnswer \/ ProcessRefusal
  \/ ProcessDeliver \/ ProcessMessage \/ ProcessReturn \/ ProcessHeader \/ ProcessBody
  \/ ProcessEnd

-----------------------------------------------------------------------------
(* The loop. *)
Waits == Tick(inbox # <<>>) /\ UNCHANGED <<client, inbox, broker>>

Wakes == Iterate(inbox # <<>>) /\ UNCHANGED <<client, inbox, broker>>

Used == Cardinality(ToSet(c.asked) \cap Extras)
      + Len(SelectSeq(c.handed \o c.queue, LAMBDA f : f = "publish"))

(* The program's timer, which may publish, or ask for more. *)
Polls ==
  /\ PollTimer
  /\ \/ UNCHANGED c
     \/ Used < MaxPolls /\ c' = publish(c, "publish")
     \/ Used < MaxPolls /\ \E op \in Extras \ ToSet(c.asked) : c' = ask(c, op)
  /\ UNCHANGED <<maxFrame, inbox, broker, receiver, received>>

(* A command's callback settles its message when it ends; one that came    *)
(* back needs no answer.                                                   *)
Resumes ==
  /\ Unblock
  /\ c' \in IF (IF received = None THEN TRUE ELSE received.op = Recall) THEN {c}
            ELSE {send(c, "ack"), send(c, "reject")}
  /\ received' = None
  /\ UNCHANGED <<maxFrame, inbox, broker, receiver>>

Expires ==
  /\ OnExpired
  /\ IF conn' = "closed" /\ conn # "closed"
     THEN c' = Failed /\ inbox' = <<>>
     ELSE UNCHANGED <<c, inbox>>
  /\ UNCHANGED <<maxFrame, broker, receiver, received>>

ClientInit ==
  /\ Init
  /\ c = askAll(Attached, Start)
  /\ maxFrame = 4096 /\ inbox = <<>> /\ stage = 0 /\ served = 0 /\ open = "yes"
  /\ silent = FALSE /\ sent = 0
  /\ receiver = None /\ received = None

Loop == Waits \/ Wakes \/ Polls \/ Resumes \/ Expires \/ Process

Server ==
  \/ ServerGreets \/ ServerAnswers \/ ServerAccepts \/ ServerReturns \/ ServerGives
  \/ ServerRefuses \/ ServerDelivers \/ ServerBeats \/ ServerFails

ClientNext == Loop \/ Server

ClientSpec == ClientInit /\ [][ClientNext]_clientVars

-----------------------------------------------------------------------------
(* Whatever the channel, the broker and the program do, the timer lives    *)
(* the life that Heartbeat describes: what is proved there holds here.     *)
FollowsHeartbeat == Spec

Unreported == {op \in ToSet(c.asked) : c.results[op] = <<>>}

(* No operation is dropped from the list of pending ones, whatever the     *)
(* callbacks ask for meanwhile: from the oldest on it holds exactly those  *)
(* that were not reported yet, in the order they were asked for.           *)
OperationsKept == c.state # "closed" => Listed(c, Unreported)

(* An operation is reported at most once, and none is left without a report*)
(* when the channel is closed - by the program, by the broker, or because  *)
(* the connection is gone.  The one that is, a get() asked of a channel    *)
(* that is closed already, can be told by operator bool.                   *)
ReportedOnce ==
  /\ \A op \in Ops : Len(c.results[op]) <= 1
  /\ c.state = "closed" => \A op \in Unreported : Kind[op] \in Gets /\ op \in c.failed

IsAnswer(frame) == frame.type \in {"ok", "refused", "empty", "message"}

Answers == {k \in DOMAIN inbox : IsAnswer(inbox[k])}

Unserved == {k \in DOMAIN c.handed : k > served /\ Synchronous(c.handed[k])}

(* Answers carry no name: each is for the oldest operation.  That one is   *)
(* what it answers because exactly one frame that needs an answer is at    *)
(* the broker while the channel waits, and none while it does not; nor is  *)
(* an operation left behind that no answer will come for.                  *)
AnswersMatch ==
  c.state # "closed" =>
    /\ Unreported # {} \/ c.queue # <<>> => c.synchronous
    /\ ~silent => Cardinality(Answers) + Cardinality(Unserved) = IF c.synchronous THEN 1 ELSE 0
    /\ \A k \in Answers :
         inbox[k].type # "refused" /\ inbox[k].of # Open => c.oldest = inbox[k].of

(* When the callbacks are called, relative to each other.                  *)
Turn == [_beginCallback |-> 1, _startCallback |-> 2, _sizeCallback |-> 3, _headerCallback |-> 4,
         _dataCallback |-> 5, _messageCallback |-> 6, _bounceCallback |-> 7,
         _deliveredCallback |-> 8, _completeCallback |-> 9]

(* What came in pieces, put together. *)
Joined(heard) ==
  LET upto[k \in 0..Len(heard)] ==
        IF k = 0 THEN <<>>
        ELSE IF heard[k].member = "_dataCallback" THEN upto[k - 1] \o heard[k].what
        ELSE upto[k - 1]
  IN  upto[Len(heard)]

(* What a program hears of a message, whole or in pieces, is the message   *)
(* that was sent: the properties that were set, no others, and the whole   *)
(* body; and every callback it has installed is called, once but for data, *)
(* in the order in which the message comes.                                *)
MessagesIntact ==
  received # None =>
    LET heard  == received.heard
        sentAs == Envelopes[received.of]
        due    == DOMAIN Callbacks(received.op)
                    \cap (DOMAIN Turn \ IF sentAs.body = <<>> THEN {"_dataCallback"} ELSE {})
    IN  /\ {h.member : h \in ToSet(heard)} = due
        /\ \A i, j \in DOMAIN heard : i < j =>
             \/ Turn[heard[i].member] < Turn[heard[j].member]
             \/ heard[i].member = "_dataCallback" /\ heard[j].member = "_dataCallback"
        /\ \A h \in ToSet(heard) :
             /\ h.member \in Whole => /\ h.what.body = sentAs.body
                                     /\ Retrieved(h.what.meta) = Retrieved(sentAs.meta)
             /\ h.member = "_headerCallback" => Retrieved(h.what) = Retrieved(sentAs.meta)
             /\ h.member = "_sizeCallback" => h.what = Len(sentAs.body)
        /\ "_dataCallback" \in due => Joined(heard) = sentAs.body

(* When the broker falls silent the program learns of it: as long as an    *)
(* operation waits for its answer the timer runs and has an end that is    *)
(* not long past, at which the connection is given up and all operations   *)
(* fail - unless heartbeats are disabled.                                  *)
WaitsAreTimed ==
  (\E op \in Unreported : op \notin c.failed) /\ ~(initialized /\ timeout = 0) =>
    /\ expireIn # Never /\ expireIn >= -2 * MaxLag
    /\ "timer" \in pending \/ (timerIn # Never /\ timerIn <= expireIn)
=============================================================================
