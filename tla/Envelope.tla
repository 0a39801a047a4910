------------------------------ MODULE Envelope ------------------------------
(***************************************************************************)
(* AMQP::MetaData, Envelope and Message: the properties a message is       *)
(* published with, and how a body that arrives in pieces is put together   *)
(* (src/tmp_install/include/amqpcpp: metadata.h, envelope.h, message.h).   *)
(***************************************************************************)
EXTENDS Fields

(* The members of MetaData, with the types they have on the wire. *)
Type ==
  [contentType |-> "s", contentEncoding |-> "s", headers |-> "F", deliveryMode |-> "B",
   priority |-> "B", correlationID |-> "s", replyTo |-> "s", expiration |-> "s",
   messageID |-> "s", timestamp |-> "T", typeName |-> "s", userID |-> "s", appID |-> "s",
   clusterID |-> "s"]

Properties == DOMAIN Type

(* The flag of each property: which BooleanSet, and which bit of it. *)
Flag ==
  [expiration |-> <<1, 0>>, replyTo |-> <<1, 1>>, correlationID |-> <<1, 2>>,
   priority |-> <<1, 3>>, deliveryMode |-> <<1, 4>>, headers |-> <<1, 5>>,
   contentEncoding |-> <<1, 6>>, contentType |-> <<1, 7>>,
   clusterID |-> <<2, 2>>, appID |-> <<2, 3>>, userID |-> <<2, 4>>, typeName |-> <<2, 5>>,
   timestamp |-> <<2, 6>>, messageID |-> <<2, 7>>]

Cleared ==
  [p \in Properties |-> CASE Type[p] = "s" -> <<>> [] Type[p] = "F" -> EmptyTable [] OTHER -> 0]

(* MetaData(): nothing is set. *)
MetaData == [bools |-> <<{}, {}>>, values |-> Cleared]

has(meta, p) == get(meta.bools[Flag[p][1]], Flag[p][2])

Marked(meta, p, value) == [meta EXCEPT !.bools[Flag[p][1]] = set(@, Flag[p][2], value)]

setProperty(meta, p, value) == [Marked(meta, p, TRUE) EXCEPT !.values[p] = value]

removeProperty(meta, p) == [Marked(meta, p, FALSE) EXCEPT !.values[p] = Cleared[p]]

setPersistent(meta, value) ==
  IF value THEN setProperty(meta, "deliveryMode", 2)
  ELSE [Marked(meta, "deliveryMode", FALSE) EXCEPT !.values["deliveryMode"] = 0]

(* What a getter returns says nothing of a property that is not set. *)
Retrieved(meta) == [p \in {q \in Properties : has(meta, q)} |-> meta.values[p]]

(* An envelope is its meta data and its body. *)
Envelope(meta, body) == [meta |-> meta, body |-> body]

-----------------------------------------------------------------------------
(* A Message under construction.  body is what _body points at, as far as  *)
(* it is filled.                                                           *)
Message == [meta |-> MetaData, body |-> <<>>, bodySize |-> 0, filled |-> 0, mutable |-> FALSE]

setBodySize(msg, n) == [msg EXCEPT !.bodySize = n]

setMetaData(msg, meta) == [msg EXCEPT !.meta = meta]

(* Mutant: an append() that copies the second piece over the first. *)
appendOverwrites(msg, chunk) ==
  IF msg.mutable
  THEN [msg EXCEPT !.body = chunk, !.filled = @ + Len(chunk)]
  ELSE [msg EXCEPT !.mutable = Len(chunk) < msg.bodySize, !.body = chunk,
                   !.filled = IF Len(chunk) < msg.bodySize THEN Len(chunk) ELSE @]

append(msg, chunk) ==
  IF msg.mutable
  THEN LET n == Min({Len(chunk), msg.bodySize - msg.filled})
       IN  [msg EXCEPT !.body = @ \o SubSeq(chunk, 1, n), !.filled = @ + n]
  ELSE IF Len(chunk) >= msg.bodySize
  THEN [msg EXCEPT !.body = chunk]
  ELSE [msg EXCEPT !.mutable = TRUE, !.body = chunk, !.filled = Len(chunk)]
=============================================================================
