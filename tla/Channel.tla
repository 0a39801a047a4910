------------------------------- MODULE Channel -------------------------------
(***************************************************************************)
(* AMQP::ChannelImpl and the Deferred objects it hands out                 *)
(* (src/tmp_install/include/amqpcpp: channelimpl.h, deferred.h and the     *)
(* classes derived from it, channel.h).  The channel is one record c, on   *)
(* which the operators below do what the functions of the same name do;    *)
(* c.handed are the frames given to the connection.                        *)
(*                                                                         *)
(* A program asks for operations.  Each is a Deferred in a list linked by  *)
(* _next, from the oldest to the newest, and is reported to the program    *)
(* once.  Callbacks may ask for more operations: Program says which.       *)
(***************************************************************************)
EXTENDS Callbacks

CONSTANTS
  Ops,        \* the operations the program asks for
  Kind,       \* Kind[op]: the function of Channel that asks for it
  Setters,    \* Setters[op]: the callbacks it installs on the result, in this order
  Program,    \* Program[op]: the operations its success callback asks for
  None        \* a null pointer

(* The functions of Channel that end in a Deferred.  Each sends one frame  *)
(* and waits for its answer.                                               *)
Flows        == {"pause", "resume"}
Confirms     == {"confirmSelect"}
Transactions == {"startTransaction", "commitTransaction", "rollbackTransaction"}
Exchanges    == {"declareExchange", "removeExchange", "bindExchange", "unbindExchange"}
Queues       == {"declareQueue", "bindQueue", "unbindQueue"}
Deletions    == {"purgeQueue", "removeQueue"}
Limits       == {"setQos"}
Consumers    == {"consume"}
Cancels      == {"cancel"}
Gets         == {"get"}
Recoveries   == {"recover"}
Closings     == {"close"}

Kinds == UNION {Flows, Confirms, Transactions, Exchanges, Queues, Deletions, Limits, Consumers,
                Cancels, Gets, Recoveries, Closings}

(* What they return. *)
Class(kind) ==
  CASE kind \in Confirms       -> DeferredConfirm
    [] kind = "declareQueue"   -> DeferredQueue
    [] kind \in Deletions      -> DeferredDelete
    [] kind \in Consumers      -> DeferredConsumer
    [] kind \in Cancels        -> DeferredCancel
    [] kind \in Gets           -> DeferredGet
    [] OTHER                   -> Deferred

ASSUME ProgramAssumption ==
  /\ Kind \in [Ops -> Kinds]
  /\ \A op \in Ops : Setters[op] \in Seq(DOMAIN Class(Kind[op]))
  /\ Program \in [Ops -> Seq(Ops)]
  /\ None \notin Ops

Listeners(op) == Installed(Class(Kind[op]), Setters[op])

(* Frames without an answer; every operation's frame is named by it. *)
Async == {"publish", "ack", "reject"}

Open == "open"

Synchronous(frame) == frame \notin Async

(* An operation is one call of the program's: no two callbacks ask for it, *)
(* none twice.  What the callback of a close() asks for reaches a channel  *)
(* that is closed already; only a get() is not reported twice then.        *)
ASSUME CallsAssumption ==
  /\ \A op \in Ops : IsInjective(Program[op])
  /\ \A op, other \in Ops : op # other => ToSet(Program[op]) \cap ToSet(Program[other]) = {}
  /\ \A op \in Ops : Kind[op] \in Closings => \A called \in ToSet(Program[op]) : Kind[called] \in Gets
  /\ Ops \cap (Async \cup {Open}) = {}

(* A channel that has just been attached: the constructor sends the frame  *)
(* that opens it and waits for the answer.                                 *)
Attached ==
  [state |-> "connected", oldest |-> None, newest |-> None, next |-> [op \in Ops |-> None],
   synchronous |-> TRUE, queue |-> <<>>, handed |-> <<Open>>, consumer |-> None,
   asked |-> <<>>, failed |-> {}, results |-> [op \in Ops |-> <<>>]]

usable(c) == c.state \in {"connected", "ready"}

waiting(c) == c.synchronous \/ c.queue # <<>>

-----------------------------------------------------------------------------
(* send(): at once, or later when an answer is awaited; a closing channel  *)
(* pretends, a closed one refuses.                                         *)
Accepts(c) == c.state # "closed"

send(c, frame) ==
  IF c.state \in {"closing", "closed"} THEN c
  ELSE IF waiting(c) THEN [c EXCEPT !.queue = Append(@, frame)]
  ELSE [c EXCEPT !.handed = Append(@, frame), !.synchronous = Synchronous(frame)]

(* flush(): the frames up to the next one that awaits an answer. *)
flush(c) ==
  LET stops == {k \in DOMAIN c.queue : Synchronous(c.queue[k])}
      last  == IF stops = {} THEN Len(c.queue) ELSE CHOOSE k \in stops : \A j \in stops : k <= j
  IN  [c EXCEPT !.synchronous = stops # {},
                !.handed = @ \o SubSeq(c.queue, 1, last),
                !.queue = SubSeq(@, last + 1, Len(@))]

(* Deferred::add() of the newest, or the first of a new list. *)
Linked(c, op) ==
  [c EXCEPT !.oldest = IF @ = None THEN op ELSE @,
            !.next = IF c.newest = None THEN @ ELSE [@ EXCEPT ![c.newest] = op],
            !.newest = op]

(* push(): the operation's frame and its Deferred; one that could not be   *)
(* sent has failed.  onError() reports that at once, but not that of a     *)
(* DeferredGet, which only stores the callback.                            *)
push(c, op) ==
  [Linked(send(c, op), op) EXCEPT
     !.asked = Append(@, op),
     !.failed = IF Accepts(c) THEN @ ELSE @ \cup {op},
     !.results[op] = IF Accepts(c) \/ Kind[op] \in Gets THEN @ ELSE Append(@, "error")]

close(c, op) ==
  [push(c, op) EXCEPT !.state = IF Accepts(c) THEN "closing" ELSE @]

ask(c, op) == IF Kind[op] \in Closings THEN close(c, op) ELSE push(c, op)

(* One after the other: asked[k] is the channel after the first k. *)
askAll(c, ops) ==
  LET asked[k \in 0..Len(ops)] == IF k = 0 THEN c ELSE ask(asked[k - 1], ops[k])
  IN  asked[Len(ops)]

publish(c, frame) == send(c, frame)

-----------------------------------------------------------------------------
(* The program has one consumer. *)
install(c, op) == [c EXCEPT !.consumer = IF Kind[op] \in Consumers THEN op ELSE @]

uninstall(c, op) == [c EXCEPT !.consumer = IF Kind[op] \in Cancels THEN None ELSE @]

(* The members an answer looks for: that of onSuccess()'s overload before  *)
(* that of the base class, and for a get() whether there was a message.    *)
Successes(op, answer) ==
  CASE Kind[op] = "declareQueue"  -> <<"_queueCallback", "_successCallback">>
    [] Kind[op] \in Deletions     -> <<"_deleteCallback", "_successCallback">>
    [] Kind[op] \in Consumers     -> <<"_consumeCallback", "_successCallback">>
    [] Kind[op] \in Cancels       -> <<"_cancelCallback", "_successCallback">>
    [] Kind[op] \in Gets          -> IF answer = "empty" THEN <<"_emptyCallback">>
                                     ELSE <<"_countCallback">>
    [] OTHER                      -> <<"_successCallback">>

(* The setter of the callback that is called, or "nothing". *)
Called(op, answer) ==
  LET members == SelectSeq(Successes(op, answer), LAMBDA m : m \in DOMAIN Listeners(op))
  IN  IF members = <<>> THEN "nothing" ELSE Listeners(op)[members[1]]

(* Deferred::reportSuccess(): the callback, which may ask for more; a      *)
(* consumer is installed or removed first.                                 *)
Callback(c, op, answer) ==
  LET called == Called(op, answer)
      told   == [uninstall(install(c, op), op) EXCEPT !.results[op] = Append(@, called)]
  IN  IF called = "nothing" THEN told ELSE askAll(told, Program[op])

(* The oldest is done; next is what is taken for the one after it. *)
Unlinked(c, cb, next) ==
  [c EXCEPT !.next[cb] = None,
            !.oldest = next,
            !.newest = IF next = None THEN None ELSE @]

(* Mutant: a reportSuccess() that reads _next before it calls the callback. *)
reportSuccessReadsNextFirst(c, answer) ==
  IF c.oldest = None THEN c
  ELSE Unlinked(Callback(flush(c), c.oldest, answer), c.oldest, c.next[c.oldest])

(* Mutant: a reportSuccess() that does not flush the queue. *)
reportSuccessUnflushed(c, answer) ==
  IF c.oldest = None THEN c
  ELSE LET done == Callback(c, c.oldest, answer) IN Unlinked(done, c.oldest, done.next[c.oldest])

reportSuccess(c, answer) ==
  IF c.oldest = None THEN c
  ELSE LET done == Callback(flush(c), c.oldest, answer)
       IN  Unlinked(done, c.oldest, done.next[c.oldest])

(* The operations in the list: those of every set that holds the oldest    *)
(* and with an operation the one after it.                                 *)
Pending(c) ==
  {op \in Ops : \A S \in SUBSET Ops :
     c.oldest \in S /\ (\A e \in S : c.next[e] \in S \cup {None}) => op \in S}

(* Deferred::reportError() of all of them; the channel is closed. *)
reportError(c) ==
  LET left == IF c.oldest = None THEN {} ELSE Pending(c) IN
  [c EXCEPT !.state = "closed", !.queue = <<>>, !.oldest = None, !.newest = None,
            !.failed = @ \cup left,
            !.results = [op \in Ops |-> IF op \in left THEN Append(@[op], "error") ELSE @[op]]]

reportReady(c) ==
  flush([c EXCEPT !.state = IF @ = "connected" THEN "ready" ELSE @])

(* Mutant: a reportClosed() that takes all operations for done. *)
reportClosedForgets(c) == reportSuccess([c EXCEPT !.state = "closed"], "ok")

(* The answer to close(): a success for the oldest, an error for the rest. *)
reportClosed(c) == reportError(reportSuccess([c EXCEPT !.state = "closed"], "ok"))

-----------------------------------------------------------------------------
AskedBefore(c, op, other) ==
  \E i, j \in DOMAIN c.asked : i < j /\ c.asked[i] = op /\ c.asked[j] = other

(* One comes after the other in S, in the order they were asked for. *)
IsNext(c, S, op, other) ==
  /\ other \in S /\ AskedBefore(c, op, other)
  /\ \A e \in S : ~(AskedBefore(c, op, e) /\ AskedBefore(c, e, other))

(* The list is S, in the order they were asked for. *)
Listed(c, S) ==
  /\ IF S = {} THEN c.oldest = None /\ c.newest = None
     ELSE /\ c.oldest \in S /\ \A op \in S \ {c.oldest} : AskedBefore(c, c.oldest, op)
          /\ c.newest \in S /\ \A op \in S \ {c.newest} : AskedBefore(c, op, c.newest)
  /\ \A op \in S \ {c.newest} : IsNext(c, S, op, c.next[op])
  /\ \A op \in S \ {c.oldest} : \E e \in S : c.next[e] = op
  /\ \A op \in Ops : op \in S \ {c.newest} \/ c.next[op] = None
=============================================================================
