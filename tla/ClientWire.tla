----------------------------- MODULE ClientWire -----------------------------
(***************************************************************************)
(* The client's header frames, and the envelopes a program may store, as   *)
(* bytes: AmqpClient with the fields, tables and properties of Wire.       *)
(***************************************************************************)
EXTENDS AmqpClient, Wire

ASSUME EnvelopesAssumption == \A k \in DOMAIN Envelopes : SendableEnvelope(Envelopes[k])

(* A sequence in full, which the model checker evaluates once. *)
Evaluated(seq) ==
  LET done[k \in 0..Len(seq)] == IF k = 0 THEN <<>> ELSE Append(done[k - 1], seq[k])
  IN  done[Len(seq)]

(* The header frames of the envelopes, and the properties read from them:  *)
(* the value of ReadHeaders.                                               *)
Headers == Evaluated([k \in DOMAIN Envelopes |-> HeaderFrame(Envelopes[k])])

WireHeaders ==
  Evaluated([k \in DOMAIN Envelopes |->
    readMetaData(Input(SubSeq(Headers[k].data, 20, Len(Headers[k].data)))).value])

(* An envelope as a program may store it, and read it again. *)
Stored ==
  Evaluated([k \in DOMAIN Envelopes |->
    [bytes |-> fillEnvelope(Envelopes[k]), size |-> sizeEnvelope(Envelopes[k])]])

Restored ==
  Evaluated([k \in DOMAIN Envelopes |-> readEnvelope(Input(Stored[k].bytes))])

(* Memory is exactly filled, that of a frame and that of an envelope which *)
(* a program stores: size() and fill() agree, and what was stored is read  *)
(* back as it was.                                                         *)
BuffersFilled ==
  \A k \in DOMAIN inbox :
    inbox[k].type = "header" =>
      LET of     == inbox[k].of
          buffer == Headers[of]
      IN  /\ Len(buffer.data) = buffer.capacity
          /\ Len(Stored[of].bytes) = Stored[of].size
          /\ Restored[of] = [value |-> Envelopes[of], in |-> Input(<<>>)]
=============================================================================
