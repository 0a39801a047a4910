-------------------------------- MODULE Wire --------------------------------
(***************************************************************************)
(* AMQP::MetaData, Envelope and CopiedBuffer on the wire: the order of the *)
(* properties, sizes, filling and reading (src/tmp_install/include/amqpcpp:*)
(* metadata.h, envelope.h, copiedbuffer.h).                                *)
(***************************************************************************)
EXTENDS Tables, Envelope

FieldOfProperty(meta, p) == [type |-> Type[p], held |-> meta.values[p]]

(* What the setters leave behind: a property that is set holds a value of  *)
(* its type, a table being no longer than its own size can say, and one    *)
(* that is not set holds nothing.                                          *)
StorableProperty(meta, p) ==
  IF has(meta, p)
  THEN LET field == FieldOfProperty(meta, p)
       IN  /\ field \in Field[MaxDepth]
           /\ field.type \in Nested => size(field) \in Numbers(4, FALSE)
  ELSE meta.values[p] = Cleared[p]

Storable(meta) ==
  /\ meta = [bools |-> <<meta.bools[1], meta.bools[2]>>,
             values |-> [p \in Properties |-> meta.values[p]]]
  /\ meta.bools[1] \in SUBSET Bits /\ meta.bools[2] \in SUBSET Bits
  /\ \A p \in Properties : StorableProperty(meta, p)

FillOrder ==
  <<"contentType", "contentEncoding", "headers", "deliveryMode", "priority", "correlationID",
    "replyTo", "expiration", "messageID", "timestamp", "typeName", "userID", "appID", "clusterID">>

(* Mutant: a property that fill() has is missing. *)
SizeOrderShort ==
  <<"expiration", "replyTo", "correlationID", "priority", "deliveryMode", "headers",
    "contentEncoding", "contentType", "appID", "userID", "typeName", "timestamp", "messageID">>

(* size() has a list of its own, in another order. *)
SizeOrder ==
  <<"expiration", "replyTo", "correlationID", "priority", "deliveryMode", "headers",
    "contentEncoding", "contentType", "clusterID", "appID", "userID", "typeName", "timestamp",
    "messageID">>

sizeMetaData(meta) ==
  2 + Total([k \in DOMAIN SizeOrder |->
               IF has(meta, SizeOrder[k]) THEN size(FieldOfProperty(meta, SizeOrder[k])) ELSE 0])

fillMetaData(meta) ==
  <<Byte(meta.bools[1]), Byte(meta.bools[2])>>
    \o Concatenated([k \in DOMAIN FillOrder |->
          IF has(meta, FillOrder[k]) THEN fill(FieldOfProperty(meta, FillOrder[k])) ELSE <<>>])

ReadOrder ==
  <<"contentType", "contentEncoding", "headers", "deliveryMode", "priority", "correlationID",
    "replyTo", "expiration", "messageID", "timestamp", "typeName", "userID", "appID", "clusterID">>

(* MetaData(InBuffer): [value, in] as for a field. *)
WithProperty(read, p, field) ==
  [value |-> [read.value EXCEPT !.values[p] = field.value], in |-> field.in]

readProperty(read, p) ==
  IF ~has(read.value, p) \/ ~read.in.ok THEN read
  ELSE WithProperty(read, p, decode(Type[p], read.in))

readProperties(bools, in) ==
  LET read[k \in 0..Len(ReadOrder)] ==
        IF k = 0 THEN [value |-> [MetaData EXCEPT !.bools = bools], in |-> in]
        ELSE readProperty(read[k - 1], ReadOrder[k])
  IN  read[Len(ReadOrder)]

readFlags(byte1, byte2) ==
  readProperties(<<BooleanSet(byte1.value), BooleanSet(byte2.value)>>, byte2.in)

readMetaData(in) ==
  LET byte1 == nextInteger(in, 1, FALSE) IN readFlags(byte1, nextInteger(byte1.in, 1, FALSE))

-----------------------------------------------------------------------------
sizeEnvelope(e) == sizeMetaData(e.meta) + Len(e.body) + 8

fillEnvelope(e) == fillMetaData(e.meta) \o add(Len(e.body), 8) \o e.body

Together(meta, body) == [value |-> Envelope(meta.value, body.value), in |-> body.in]

readEnvelope(in) ==
  LET meta == readMetaData(in)
  IN  Together(meta, Announced(nextInteger(meta.in, 8, FALSE)))

(* What a program can send and store: four bytes hold the size of the meta *)
(* data and of the frame they are in, eight hold that of the body.         *)
SendableEnvelope(e) ==
  /\ e = Envelope(e.meta, e.body) /\ Storable(e.meta)
  /\ 12 + sizeMetaData(e.meta) \in Numbers(4, FALSE)
  /\ e.body \in Seq(Octets) /\ Len(e.body) \in Numbers(8, FALSE)

(* A frame is written to memory of totalSize() bytes and followed by 206.  *)
Separator == 206

CopiedBuffer(totalSize, content, synchronous) ==
  [capacity |-> totalSize, data |-> Append(content, Separator), synchronous |-> synchronous]

(* The header frame: type, channel and size, class, weight, body size and  *)
(* meta data; its totalSize() counts the separator too.                    *)
HeaderFrame(e) ==
  LET payload == 12 + sizeMetaData(e.meta)
  IN  CopiedBuffer(8 + payload,
        <<2>> \o add(1, 2) \o add(payload, 4) \o add(60, 2) \o add(0, 2)
          \o add(Len(e.body), 8) \o fillMetaData(e.meta), FALSE)
=============================================================================
