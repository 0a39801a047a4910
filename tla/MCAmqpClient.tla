---------------------------- MODULE MCAmqpClient ----------------------------
(* main()'s operations: exchange and queue are declared at once, the       *)
(* queue's callback binds it and consumes.  What other programs might do   *)
(* is to fetch a message, to cancel the consumer, to close the channel and *)
(* to listen to messages that come back.  The envelopes set every property,*)
(* with headers of every type and a text of the longest length, or remove  *)
(* some again; bodies fill no frame, one, or with the frames of the second *)
(* tune two.                                                               *)
EXTENDS ClientWire

MCOps == {"exchange", "queue", "bind", "consume", "close", "get", "cancel"}

MCKind == [exchange |-> "declareExchange", queue |-> "declareQueue", bind |-> "bindQueue",
           consume |-> "consume", close |-> "close", get |-> "get", cancel |-> "cancel"]

MCSetters == [exchange |-> <<"onError">>, queue |-> <<"onQueue", "onError">>, bind |-> <<>>,
              consume |-> <<"onReceived">>, close |-> <<"onSuccess", "onError">>,
              get |-> <<"onMessage", "onBegin", "onStart", "onSize", "onHeaders", "onData",
                        "onComplete", "onEmpty", "onCount">>,
              cancel |-> <<"onCancel">>]

MCRecalls == <<"onBegin", "onSize", "onData", "onComplete">>

MCStart == <<"exchange", "queue">>

MCProgram == [op \in MCOps |-> IF op = "queue" THEN <<"bind", "consume">> ELSE <<>>]

MCTunes == {<<0, 10>>, <<1, 0>>}

a == <<97>>
b == <<98>>

MCTableNames == <<<<>>, a, a \o b, b, b \o a>>

HeaderTable ==
  LET inner == setTable(EmptyTable, b, FieldOf("uint8_t", 200))
      array == setArray(setArray(<<>>, 0, FieldOf("int8_t", -1)), 7, FieldOf("nullptr", 0))
  IN  [n \in ToSet(MCTableNames) |->
         CASE n = a      -> FieldOf("int32_t", -2)
           [] n = b      -> FieldOf("string", a \o b)
           [] n = a \o b -> FieldOf("Table", inner)
           [] n = b \o a -> FieldOf("Array", array)
           [] n = <<>>   -> FieldOf("DecimalField", [places |-> 2, number |-> 70000])]

Value == [p \in Properties |->
            CASE Type[p] = "s" -> IF p = "replyTo" THEN [k \in 1..maxLength |-> 1] ELSE a
              [] Type[p] = "F" -> HeaderTable
              [] Type[p] = "B" -> 5
              [] Type[p] = "T" -> 70000]

AllSet == FoldSet(LAMBDA p, meta : setProperty(meta, p, Value[p]), MetaData, Properties)

Full == <<7, 0, 206>>

Sparse == FoldSet(LAMBDA p, meta : removeProperty(meta, p), AllSet,
                  {"contentType", "headers", "messageID"})

MCEnvelopes ==
  <<Envelope(setPersistent(AllSet, FALSE), Full), Envelope(setPersistent(Sparse, TRUE), <<>>)>>
=============================================================================
