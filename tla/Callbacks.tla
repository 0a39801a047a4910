------------------------------ MODULE Callbacks ------------------------------
(***************************************************************************)
(* The objects that the functions of AMQP::Channel return, and what a      *)
(* program may ask of them (src/tmp_install/include/amqpcpp: deferred.h and*)
(* the headers of its subclasses).  A class is a function from its setters *)
(* to the members they store the callback in.  Where onSuccess() has an    *)
(* overload with a member of its own, the overload is named after it.      *)
(***************************************************************************)
EXTENDS Naturals, Sequences, SequencesExt

Deferred == [onSuccess |-> "_successCallback", onError |-> "_errorCallback",
             onFinalize |-> "_finalizeCallback"]

(* A subclass has its own setters, which hide those of its base class.     *)
Derived(own, base) ==
  [s \in DOMAIN own \cup DOMAIN base |-> IF s \in DOMAIN own THEN own[s] ELSE base[s]]

DeferredQueue == Derived([onQueue |-> "_queueCallback"], Deferred)

DeferredDelete == Derived([onDelete |-> "_deleteCallback"], Deferred)

DeferredCancel == Derived([onCancel |-> "_cancelCallback"], Deferred)

DeferredConfirm == Derived([onAck |-> "_ackCallback", onNack |-> "_nackCallback"], Deferred)

(* Messages may be listened to whole or in pieces. *)
ConsumerPieces ==
  [onBegin |-> "_startCallback", onStart |-> "_startCallback", onSize |-> "_sizeCallback",
   onHeaders |-> "_headerCallback", onData |-> "_dataCallback",
   onComplete |-> "_deliveredCallback", onDelivered |-> "_deliveredCallback"]

DeferredConsumer ==
  Derived([onConsume |-> "_consumeCallback", onReceived |-> "_messageCallback",
           onMessage |-> "_messageCallback"],
          Derived(ConsumerPieces, Deferred))

GetPieces ==
  [onBegin |-> "_startCallback", onStart |-> "_startCallback", onSize |-> "_sizeCallback",
   onHeaders |-> "_headerCallback", onData |-> "_dataCallback",
   onComplete |-> "_deliveredCallback", onDelivered |-> "_deliveredCallback"]

DeferredGet ==
  Derived([onSuccess |-> "_messageCallback", onReceived |-> "_messageCallback",
           onMessage |-> "_messageCallback", onEmpty |-> "_emptyCallback",
           onCount |-> "_countCallback"],
          Derived(GetPieces, Deferred))

DeferredRecall ==
  Derived([onReceived |-> "_bounceCallback", onMessage |-> "_bounceCallback",
           onReturned |-> "_bounceCallback", onBounced |-> "_bounceCallback",
           onBegin |-> "_beginCallback", onSize |-> "_sizeCallback",
           onHeaders |-> "_headerCallback", onData |-> "_dataCallback",
           onComplete |-> "_completeCallback"],
          Deferred)

(* What a program has installed: a later call replaces an earlier one.     *)
Installed(class, setters) ==
  [m \in {class[s] : s \in ToSet(setters)} |-> Last(SelectSeq(setters, LAMBDA s : class[s] = m))]

(* A callback is called, if there is one: what the program gets to hear.   *)
Tell(heard, callbacks, member, what) ==
  IF member \in DOMAIN callbacks
  THEN Append(heard, [setter |-> callbacks[member], member |-> member, what |-> what])
  ELSE heard
=============================================================================
