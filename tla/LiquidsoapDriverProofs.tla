----------------------- MODULE LiquidsoapDriverProofs -----------------------
(* Theorems about LiquidsoapDriver, for all values of its constants.       *)
EXTENDS LiquidsoapDriver, SequenceTheorems, FiniteSetTheorems, TLAPS

-----------------------------------------------------------------------------
(* Lemmas on the operators of the model *)

(* A reply is a sequence of lines of its call, in order; only its last     *)
(* line is the END line.                                                   *)
LEMMA ReplyLines ==
  ASSUME NEW c \in 1..MaxCalls, NEW body \in Seq(LineKinds)
  PROVE  /\ Reply(c, body) \in Seq(Lines)
         /\ Len(Reply(c, body)) = Len(body) + 1
         /\ \A i \in 1..(Len(body) + 1) :
              Reply(c, body)[i] = [call |-> c, pos |-> i,
                                   kind |-> IF i <= Len(body) THEN body[i] ELSE "END"]
<1> DEFINE n == Len(body) + 1
<1>1. n \in Nat /\ n > 0
  OBVIOUS
<1>2. \A i \in 1..n : [call |-> c, pos |-> i,
                       kind |-> IF i <= Len(body) THEN body[i] ELSE "END"] \in Lines
  BY SizeAssumption DEF Lines
<1>3. Reply(c, body) \in [1..n -> Lines]
  BY <1>2 DEF Reply
<1>4. QED
  BY <1>1, <1>3, SeqDef DEF Reply

(* A truncated chunk is a prefix of the chunk, and the whole of it when no *)
(* line holds a NUL byte.                                                  *)
LEMMA UpToNulIsPrefix ==
  ASSUME NEW chunk \in Seq(Lines)
  PROVE  /\ \E k \in 0..Len(chunk) : UpToNul(chunk) = SubSeq(chunk, 1, k)
         /\ (\A i \in DOMAIN chunk : chunk[i].kind # "nul") => UpToNul(chunk) = chunk
<1> DEFINE kept == {i \in 1..Len(chunk) : \A j \in 1..i : chunk[j].kind # "nul"}
<1>1. UpToNul(chunk) = SubSeq(chunk, 1, Cardinality(kept))
  BY LenProperties DEF UpToNul
<1>2. IsFiniteSet(1..Len(chunk)) /\ Cardinality(1..Len(chunk)) = Len(chunk)
  <2>1. 1 \in Int /\ Len(chunk) \in Int /\ Len(chunk) >= 0
    BY LenProperties
  <2>2. QED
    BY <2>1, FS_Interval
<1>3. Cardinality(kept) \in 0..Len(chunk)
  <2>1. IsFiniteSet(kept) /\ Cardinality(kept) <= Len(chunk)
    BY <1>2, FS_Subset, kept \subseteq 1..Len(chunk)
  <2>2. QED
    BY <2>1, FS_CardinalityType
<1>4. ASSUME \A i \in DOMAIN chunk : chunk[i].kind # "nul"
      PROVE  UpToNul(chunk) = chunk
  <2>1. kept = 1..Len(chunk)
    BY <1>4
  <2>2. QED
    BY <1>1, <1>2, <2>1, SubSeqFull
<1>5. QED
  BY <1>1, <1>3, <1>4

(* What recv() does to its two sequences, line by line: s is cut after its *)
(* first k lines, and s is appended to t.                                  *)
LEMMA PiecesAreLines ==
  ASSUME NEW s \in Seq(Lines), NEW t \in Seq(Lines), NEW k \in 0..Len(s)
  PROVE  /\ /\ SubSeq(s, 1, k) \in Seq(Lines)
            /\ Len(SubSeq(s, 1, k)) = k
            /\ \A i \in 1..k : SubSeq(s, 1, k)[i] = s[i]
         /\ /\ SubSeq(s, k + 1, Len(s)) \in Seq(Lines)
            /\ Len(SubSeq(s, k + 1, Len(s))) = Len(s) - k
            /\ \A i \in 1..(Len(s) - k) : SubSeq(s, k + 1, Len(s))[i] = s[i + k]
         /\ /\ t \o s \in Seq(Lines)
            /\ Len(t \o s) = Len(t) + Len(s)
            /\ \A i \in 1..(Len(t) + Len(s)) :
                 (t \o s)[i] = IF i <= Len(t) THEN t[i] ELSE s[i - Len(t)]
<1>1. \A i \in 1..Len(s) : s[i] \in Lines
  BY ElementOfSeq
<1>2. k \in Int /\ k + 1 \in Int /\ Len(s) \in Int /\ k <= Len(s) /\ k >= 0
  OBVIOUS
<1>3. /\ SubSeq(s, 1, k) \in Seq(Lines)
      /\ Len(SubSeq(s, 1, k)) = k
      /\ \A i \in 1..k : SubSeq(s, 1, k)[i] = s[i]
  BY <1>1, <1>2, SubSeqProperties
<1>4. /\ SubSeq(s, k + 1, Len(s)) \in Seq(Lines)
      /\ Len(SubSeq(s, k + 1, Len(s))) = Len(s) - k
      /\ \A i \in 1..(Len(s) - k) : SubSeq(s, k + 1, Len(s))[i] = s[i + k]
  BY <1>1, <1>2, SubSeqProperties
<1>5. QED
  BY <1>3, <1>4, ConcatProperties

-----------------------------------------------------------------------------
(* Every variable keeps its type, whatever Liquidsoap replies. *)
TypeInv == TypeOK /\ (pc # "idle" => call > 0)

LEMMA TypeInit == Init => TypeInv
  BY SizeAssumption, BackoffAssumption
  DEF Init, TypeInv, TypeOK, ConnectionTypeOK, Outcomes

LEMMA TypeStep == TypeInv /\ [Next]_vars => TypeInv'
<1> USE SizeAssumption, BackoffAssumption
<1> SUFFICES ASSUME TypeInv, [Next]_vars
             PROVE  TypeInv'
  OBVIOUS
<1> USE DEF TypeInv, TypeOK, Outcomes, connection, timing
<1>1. connection' = connection => ConnectionTypeOK'
  BY DEF ConnectionTypeOK
<1>2. ToSet(sent) \subseteq 1..MaxCalls
  BY ElementOfSeq, LenProperties DEF ToSet, ConnectionTypeOK
<1>3. Disconnect => ConnectionTypeOK'
  BY <1>2, EmptySeq DEF Disconnect, ConnectionTypeOK
<1>4. CASE Execute
  BY <1>1, <1>4 DEF Execute, ApplyBackoffDelay, Smaller
<1>5. CASE Resolve
  BY <1>1, <1>5 DEF Resolve, Return
<1>6. CASE TryAddress
  <2>1. ConnectionTypeOK'
    BY <1>6 DEF TryAddress, Connected, ConnectionTypeOK
  <2>2. QED
    BY <1>6, <2>1 DEF TryAddress, Return, Connected
<1>7. CASE OpenSocket
  <2>1. ConnectionTypeOK'
    BY <1>3, <1>7 DEF OpenSocket, Connected, ConnectionTypeOK
  <2>2. QED
    BY <1>7, <2>1 DEF OpenSocket, Return, Connected
<1>8. CASE Send
  <2>1. Append(sent, call) \in Seq(1..MaxCalls)
    BY <1>8, AppendProperties DEF Send, ConnectionTypeOK
  <2>2. ConnectionTypeOK'
    BY <1>3, <1>8, <2>1 DEF Send, ConnectionTypeOK
  <2>3. QED
    BY <1>8, <2>2 DEF Send, Return
<1>9. CASE RecvTooLong
  BY <1>3, <1>9 DEF RecvTooLong, Return
<1>10. CASE RecvChunk
  <2>1. PICK n \in 1..Smaller(ChunkMax, Len(inbox)) :
          /\ response' = response \o UpToNul(SubSeq(inbox, 1, n))
          /\ inbox' = SubSeq(inbox, n + 1, Len(inbox))
    BY <1>10 DEF RecvChunk
  <2> DEFINE chunk == SubSeq(inbox, 1, n)
  <2>2. n \in 0..Len(inbox)
    BY <2>1 DEF Smaller, ConnectionTypeOK
  <2>3. chunk \in Seq(Lines) /\ inbox' \in Seq(Lines)
    BY <2>1, <2>2, PiecesAreLines DEF ConnectionTypeOK
  <2>4. UpToNul(chunk) \in Seq(Lines)
    <3> HIDE DEF chunk
    <3>1. PICK k \in 0..Len(chunk) : UpToNul(chunk) = SubSeq(chunk, 1, k)
      BY <2>3, UpToNulIsPrefix
    <3>2. QED
      BY <2>3, <3>1, PiecesAreLines
  <2>5. response' \in Seq(Lines)
    BY <2>1, <2>4, ConcatProperties
  <2>6. ConnectionTypeOK'
    BY <1>10, <2>3 DEF RecvChunk, ConnectionTypeOK
  <2>7. QED
    BY <1>10, <2>5, <2>6 DEF RecvChunk, Return
<1>11. CASE RecvClosed
  BY <1>3, <1>11 DEF RecvClosed, Return
<1>12. CASE Answer
  <2>1. PICK body \in Bodies : inbox' = inbox \o Reply(Head(sent), body)
    BY <1>12 DEF Answer
  <2>2. Head(sent) \in 1..MaxCalls /\ Tail(sent) \in Seq(1..MaxCalls)
    BY <1>12, HeadTailProperties DEF Answer, ConnectionTypeOK
  <2>3. inbox' \in Seq(Lines)
    BY <2>1, <2>2, BodiesAssumption, ReplyLines, ConcatProperties DEF ConnectionTypeOK
  <2>4. runs' \in [1..MaxCalls -> Nat]
    BY <1>12, <2>2 DEF Answer
  <2>5. ConnectionTypeOK'
    BY <1>12, <2>2, <2>3 DEF Answer, ConnectionTypeOK
  <2>6. QED
    BY <1>12, <2>4, <2>5 DEF Answer
<1>13. CASE PeerCloses
  <2>1. inbox' \in Seq(Lines)
    BY <1>13, PiecesAreLines DEF PeerCloses, ConnectionTypeOK
  <2>2. ConnectionTypeOK'
    BY <1>2, <1>13, <2>1, EmptySeq DEF PeerCloses, ConnectionTypeOK
  <2>3. QED
    BY <1>13, <2>2 DEF PeerCloses
<1>14. CASE RunOrphan
  <2>1. ConnectionTypeOK'
    BY <1>14 DEF RunOrphan, ConnectionTypeOK
  <2>2. QED
    BY <1>14, <2>1 DEF RunOrphan, ConnectionTypeOK
<1>15. CASE StartOrStopListening
  BY <1>1, <1>15 DEF StartOrStopListening
<1>16. CASE Tick
  BY <1>1, <1>16 DEF Tick
<1>17. CASE UNCHANGED vars
  BY <1>1, <1>17 DEF vars
<1>18. QED
  BY <1>4, <1>5, <1>6, <1>7, <1>8, <1>9, <1>10, <1>11, <1>12, <1>13, <1>14,
     <1>15, <1>16, <1>17 DEF Next, DriverStep, Environment

THEOREM TypeCorrect == Spec => []TypeOK
<1>1. TypeInv => TypeOK
  BY DEF TypeInv
<1>2. QED
  BY <1>1, TypeInit, TypeStep, PTL DEF Spec

-----------------------------------------------------------------------------
(* How the place execute() has reached goes with the connection.  None of  *)
(* this depends on what Liquidsoap replies.                                *)
ControlInv ==
  /\ fd # "unconnected"
  /\ fd = "none" => peer = "closed" /\ inbox = <<>>
  /\ peer = "closed" => sent = <<>>
  /\ pc \in {"resolve", "try", "open"} => fd = "none"
  /\ pc \in {"send", "recv"} => fd = "connected"
  /\ pc # "idle" => outcome = "none"
  /\ pc \notin {"idle", "recv"} => response = <<>>
  /\ ErrorDropsConnection

LEMMA ControlInit == Init => ControlInv
  BY DEF Init, ControlInv, ErrorDropsConnection

LEMMA ControlStep == TypeInv /\ ControlInv /\ [Next]_vars => ControlInv'
<1> SUFFICES ASSUME TypeInv, ControlInv, [Next]_vars
             PROVE  ControlInv'
  OBVIOUS
<1> USE DEF ControlInv, ErrorDropsConnection, connection, timing
<1>0. /\ pc \in {"idle", "resolve", "try", "open", "send", "recv"}
      /\ fd \in {"none", "unconnected", "connected"}
      /\ peer \in {"open", "closed"}
  BY DEF TypeInv, TypeOK, ConnectionTypeOK
<1>1. CASE Execute
  BY <1>0, <1>1 DEF Execute
<1>2. CASE Resolve
  BY <1>2 DEF Resolve, Return
<1>3. CASE TryAddress
  BY <1>0, <1>3 DEF TryAddress, Return, Connected
<1>4. CASE OpenSocket
  BY <1>0, <1>4 DEF OpenSocket, Return, Connected, Disconnect
<1>5. CASE Send
  BY <1>0, <1>5 DEF Send, Return, Disconnect
<1>6. CASE RecvTooLong
  BY <1>6 DEF RecvTooLong, Return, Disconnect
<1>7. CASE RecvChunk
  BY <1>7 DEF RecvChunk, Return
<1>8. CASE RecvClosed
  BY <1>8 DEF RecvClosed, Return, Disconnect
<1>9. CASE Answer
  BY <1>9 DEF Answer
<1>10. CASE PeerCloses
  BY <1>10 DEF PeerCloses
<1>11. CASE RunOrphan
  BY <1>11 DEF RunOrphan
<1>12. CASE StartOrStopListening
  BY <1>12 DEF StartOrStopListening
<1>13. CASE Tick
  BY <1>13 DEF Tick
<1>14. CASE UNCHANGED vars
  BY <1>14 DEF vars
<1>15. QED
  BY <1>1, <1>2, <1>3, <1>4, <1>5, <1>6, <1>7, <1>8, <1>9, <1>10, <1>11,
     <1>12, <1>13, <1>14 DEF Next, DriverStep, Environment

(* A failed call has closed its connection, for any replies. *)
THEOREM ErrorsDropConnections == Spec => []ErrorDropsConnection
<1>1. TypeInv /\ ControlInv => ErrorDropsConnection
  BY DEF ControlInv
<1>2. QED
  BY <1>1, TypeInit, TypeStep, ControlInit, ControlStep, PTL DEF Spec

(* No more than one buffer beyond the limit is ever held, whatever         *)
(* Liquidsoap sends.                                                       *)
THEOREM ResponsesAreBounded == Spec => []ResponseBounded
<1>1. Init => ResponseBounded
  BY SizeAssumption DEF Init, ResponseBounded
<1>2. TypeInv /\ ResponseBounded /\ [Next]_vars => ResponseBounded'
  <2> SUFFICES ASSUME TypeInv, ResponseBounded, [Next]_vars
               PROVE  ResponseBounded'
    OBVIOUS
  <2>1. CASE RecvChunk
    <3>1. Len(response) <= MaxResponse
      BY <2>1 DEF RecvChunk
    <3>2. response \in Seq(Lines) /\ inbox \in Seq(Lines)
      BY DEF TypeInv, TypeOK, ConnectionTypeOK
    <3>3. PICK n \in 1..Smaller(ChunkMax, Len(inbox)) :
            response' = response \o UpToNul(SubSeq(inbox, 1, n))
      BY <2>1 DEF RecvChunk
    <3>4. n \in 0..Len(inbox) /\ n <= ChunkMax
      BY <3>2, <3>3, SizeAssumption, LenProperties DEF Smaller
    <3>5. SubSeq(inbox, 1, n) \in Seq(Lines) /\ Len(SubSeq(inbox, 1, n)) = n
      BY <3>2, <3>4, PiecesAreLines, SubSeqProperties, LenProperties
    <3>6. PICK k \in 0..n : UpToNul(SubSeq(inbox, 1, n)) = SubSeq(SubSeq(inbox, 1, n), 1, k)
      BY <3>5, UpToNulIsPrefix
    <3>7. /\ UpToNul(SubSeq(inbox, 1, n)) \in Seq(Lines)
          /\ Len(UpToNul(SubSeq(inbox, 1, n))) = k
      BY <3>5, <3>6, SubSeqProperties, LenProperties
    <3>8. Len(response') = Len(response) + k
      BY <3>2, <3>3, <3>7, ConcatProperties
    <3>9. QED
      BY <3>1, <3>2, <3>4, <3>6, <3>8, SizeAssumption, LenProperties DEF ResponseBounded
  <2>2. CASE Execute
    BY <2>2, SizeAssumption DEF Execute, ResponseBounded
  <2>3. CASE Next /\ ~RecvChunk /\ ~Execute
    <3>1. response' = response
      BY <2>3 DEF Next, DriverStep, Environment, Resolve, TryAddress, OpenSocket, Send,
                  RecvTooLong, RecvClosed, Answer, PeerCloses, RunOrphan,
                  StartOrStopListening, Tick
    <3>2. QED
      BY <3>1 DEF ResponseBounded
  <2>4. CASE UNCHANGED vars
    BY <2>4 DEF vars, ResponseBounded
  <2>5. QED
    BY <2>1, <2>2, <2>3, <2>4
<1>3. QED
  BY <1>1, <1>2, TypeInit, TypeStep, PTL DEF Spec

-----------------------------------------------------------------------------
(* From here on no line of content ends in END or holds a NUL byte. *)
CleanReplies == Bodies \subseteq Seq({"text"})

(* What has been received and what is on its way are together a prefix of  *)
(* the reply to the current call; only the last line is the END line.      *)
ReplyInv ==
  /\ QuietBetweenCalls
  /\ OwnReply
  /\ pc = "recv" =>
       /\ sent # <<>> => sent = <<call>> /\ response = <<>> /\ inbox = <<>>
       /\ \A i \in 1..Len(response) :
            response[i].call = call /\ response[i].pos = i /\ response[i].kind = "text"
       /\ \A i \in 1..Len(inbox) :
            /\ inbox[i].call = call
            /\ inbox[i].pos = Len(response) + i
            /\ inbox[i].kind \in {"text", "END"}
            /\ inbox[i].kind = "END" => i = Len(inbox)

LEMMA ReplyInit == Init => ReplyInv
  BY DEF Init, ReplyInv, QuietBetweenCalls, OwnReply

LEMMA ReplyStep ==
  ASSUME CleanReplies, TypeInv, ControlInv, ReplyInv, [Next]_vars
  PROVE  ReplyInv'
<1> USE DEF ReplyInv, QuietBetweenCalls, OwnReply, connection, timing
<1>0. /\ response \in Seq(Lines) /\ inbox \in Seq(Lines)
      /\ Len(response) \in Nat /\ DOMAIN response = 1..Len(response)
      /\ Len(inbox) \in Nat
      /\ sent \in Seq(1..MaxCalls)
      /\ pc \in {"idle", "resolve", "try", "open", "send", "recv"}
      /\ fd # "unconnected"
      /\ pc \in {"resolve", "try", "open"} => sent = <<>> /\ inbox = <<>>
  BY LenProperties DEF TypeInv, TypeOK, ConnectionTypeOK, ControlInv
<1>1. CASE Execute
  BY <1>0, <1>1 DEF Execute
<1>2. CASE Resolve
  BY <1>0, <1>2 DEF Resolve, Return
<1>3. CASE TryAddress
  BY <1>0, <1>3 DEF TryAddress, Return, Connected
<1>4. CASE OpenSocket
  BY <1>0, <1>4 DEF OpenSocket, Return, Connected, Disconnect
<1>5. CASE Send
  <2>1. pc = "send" /\ sent = <<>> /\ inbox = <<>> /\ response = <<>>
    BY <1>5 DEF Send, ControlInv
  <2>2. CASE pc' = "recv"
    BY <1>5, <2>1, <2>2 DEF Send, Return
  <2>3. CASE pc' = "idle"
    BY <1>5, <2>1, <2>3 DEF Send, Return, Disconnect
  <2>4. QED
    BY <1>5, <2>2, <2>3 DEF Send, Return
<1>6. CASE RecvTooLong
  BY <1>6 DEF RecvTooLong, Return, Disconnect
<1>7. CASE RecvChunk
  <2>1. PICK n \in 1..Smaller(ChunkMax, Len(inbox)) :
          /\ response' = response \o UpToNul(SubSeq(inbox, 1, n))
          /\ inbox' = SubSeq(inbox, n + 1, Len(inbox))
    BY <1>7 DEF RecvChunk
  <2> DEFINE chunk == SubSeq(inbox, 1, n)
  <2>2. n \in 1..Len(inbox)
    BY <1>0, <2>1, SizeAssumption DEF Smaller
  <2>3. /\ chunk \in Seq(Lines)
        /\ Len(chunk) = n
        /\ \A i \in 1..n : chunk[i] = inbox[i]
        /\ Len(inbox') = Len(inbox) - n
        /\ \A i \in 1..(Len(inbox) - n) : inbox'[i] = inbox[i + n]
    BY <1>0, <2>1, <2>2, PiecesAreLines
  <2> HIDE DEF chunk
  <2>6. pc = "recv" /\ sent = <<>> /\ sent' = sent /\ call' = call /\ fd' = fd
    BY <1>7, <2>2, <1>0 DEF RecvChunk
  <2>4. response' = response \o chunk
    <3>1. DOMAIN chunk = 1..n
      BY <2>3, LenProperties
    <3>2. \A i \in 1..n : inbox[i].kind \in {"text", "END"}
      BY <1>0, <2>2, <2>6
    <3>3. \A i \in DOMAIN chunk : chunk[i].kind # "nul"
      BY <2>3, <3>1, <3>2
    <3>4. UpToNul(chunk) = chunk
      BY <2>3, <3>3, UpToNulIsPrefix
    <3>5. QED
      BY <2>1, <3>4 DEF chunk
  <2>5. /\ Len(response') = Len(response) + n
        /\ DOMAIN response' = 1..(Len(response) + n)
        /\ \A i \in 1..(Len(response) + n) :
             response'[i] = IF i <= Len(response) THEN response[i]
                                                  ELSE inbox[i - Len(response)]
    <3>1. /\ response' \in Seq(Lines)
          /\ Len(response') = Len(response) + Len(chunk)
          /\ \A i \in 1..(Len(response) + Len(chunk)) :
               response'[i] = IF i <= Len(response) THEN response[i]
                                                    ELSE chunk[i - Len(response)]
      BY <1>0, <2>3, <2>4, ConcatProperties
    <3>2. \A i \in (Len(response) + 1)..(Len(response) + n) :
             chunk[i - Len(response)] = inbox[i - Len(response)]
      BY <1>0, <2>2, <2>3
    <3>3. QED
      BY <1>0, <2>2, <2>3, <3>1, <3>2, LenProperties
  <2>7. \A i \in 1..Len(response') :
          /\ response'[i].call = call
          /\ response'[i].pos = i
          /\ response'[i].kind \in {"text", "END"}
          /\ response'[i].kind = "END" => i = Len(response') /\ n = Len(inbox)
    <3> SUFFICES ASSUME NEW i \in 1..Len(response')
                 PROVE  /\ response'[i].call = call
                        /\ response'[i].pos = i
                        /\ response'[i].kind \in {"text", "END"}
                        /\ response'[i].kind = "END" => i = Len(response') /\ n = Len(inbox)
      OBVIOUS
    <3>1. CASE i <= Len(response)
      BY <1>0, <2>2, <2>5, <2>6, <3>1
    <3>2. CASE i > Len(response)
      <4> DEFINE j == i - Len(response)
      <4>1. j \in 1..n /\ j \in 1..Len(inbox) /\ response'[i] = inbox[j]
        BY <1>0, <2>2, <2>5, <3>2
      <4>2. /\ inbox[j].call = call
            /\ inbox[j].pos = Len(response) + j
            /\ inbox[j].kind \in {"text", "END"}
            /\ inbox[j].kind = "END" => j = Len(inbox)
        BY <2>6, <4>1
      <4>3. i = Len(response) + j
        BY <1>0, <2>5
      <4> HIDE DEF j
      <4>4. j = Len(inbox) => j = n
        BY <1>0, <2>2, <4>1
      <4>5. QED
        BY <2>5, <4>1, <4>2, <4>3, <4>4
    <3>3. QED
      BY <1>0, <2>5, <3>1, <3>2
  <2>8. CASE Terminated(response')
    <3>1. PICK i \in 1..Len(response') : response'[i].kind \in {"END", "endline"}
      BY <2>5, <2>8 DEF Terminated
    <3>2. response'[i].kind = "END"
      BY <3>1, <2>7
    <3>3. i = Len(response') /\ n = Len(inbox)
      BY <3>1, <3>2, <2>7
    <3>4. inbox' = <<>>
      BY <1>0, <2>1, <3>3, SubSeqEmpty
    <3>5. OwnReply'
      BY <2>5, <2>6, <2>7, <3>1, <3>2, <3>3 DEF OwnReply
    <3>6. pc' = "idle"
      BY <1>7, <2>8 DEF RecvChunk, Return
    <3>7. QED
      BY <2>6, <3>4, <3>5, <3>6, <1>0
  <2>9. CASE ~Terminated(response')
    <3>1. pc' = "recv" /\ outcome' = outcome /\ outcome = "none"
      BY <1>7, <2>6, <2>9 DEF RecvChunk, ControlInv
    <3>2. \A i \in 1..Len(response') : response'[i].kind = "text"
      BY <2>5, <2>7, <2>9 DEF Terminated
    <3>3. \A i \in 1..Len(inbox') : /\ inbox'[i].call = call
                                    /\ inbox'[i].pos = Len(response') + i
                                    /\ inbox'[i].kind \in {"text", "END"}
                                    /\ inbox'[i].kind = "END" => i = Len(inbox')
      <4> SUFFICES ASSUME NEW i \in 1..Len(inbox')
                   PROVE  /\ inbox'[i].call = call
                          /\ inbox'[i].pos = Len(response') + i
                          /\ inbox'[i].kind \in {"text", "END"}
                          /\ inbox'[i].kind = "END" => i = Len(inbox')
        OBVIOUS
      <4>1. i \in Nat /\ i + n \in 1..Len(inbox) /\ inbox'[i] = inbox[i + n]
        BY <1>0, <2>2, <2>3
      <4>2. /\ inbox[i + n].call = call
            /\ inbox[i + n].pos = Len(response) + (i + n)
            /\ inbox[i + n].kind \in {"text", "END"}
            /\ inbox[i + n].kind = "END" => i + n = Len(inbox)
        BY <2>6, <4>1
      <4>3. QED
        BY <1>0, <2>2, <2>3, <2>5, <4>1, <4>2
    <3>4. QED
      BY <2>6, <2>7, <3>1, <3>2, <3>3
  <2>10. QED
    BY <2>8, <2>9
<1>8. CASE RecvClosed
  BY <1>8 DEF RecvClosed, Return, Disconnect
<1>9. CASE Answer
  <2>1. pc = "recv" /\ sent = <<call>> /\ response = <<>> /\ inbox = <<>>
    BY <1>0, <1>9 DEF Answer
  <2>2. PICK body \in Bodies : inbox' = inbox \o Reply(call, body)
    BY <1>9, <2>1 DEF Answer
  <2>3. call \in 1..MaxCalls /\ body \in Seq({"text"}) /\ body \in Seq(LineKinds)
    BY <2>1, BodiesAssumption DEF CleanReplies, TypeInv, TypeOK
  <2>4. inbox' = Reply(call, body)
    BY <2>1, <2>2, <2>3, ReplyLines, ConcatEmptySeq
  <2>5. /\ Len(inbox') = Len(body) + 1
        /\ \A i \in 1..Len(inbox') :
             inbox'[i] = [call |-> call, pos |-> i,
                          kind |-> IF i <= Len(body) THEN "text" ELSE "END"]
    <3>1. \A i \in 1..Len(body) : body[i] = "text"
      BY <2>3, ElementOfSeq
    <3>2. QED
      BY <2>3, <2>4, <3>1, ReplyLines
  <2>6. Len(body) \in Nat /\ sent' = <<>>
    BY <1>9, <2>1, <2>3, LenProperties DEF Answer
  <2>7. UNCHANGED <<pc, call, outcome, response>>
    BY <1>9 DEF Answer
  <2>8. QED
    BY <2>1, <2>5, <2>6, <2>7
<1>10. CASE PeerCloses
  <2>1. PICK n \in 0..Len(inbox) : inbox' = SubSeq(inbox, 1, n)
    BY <1>10 DEF PeerCloses
  <2>2. Len(inbox') = n /\ \A i \in 1..n : inbox'[i] = inbox[i]
    BY <1>0, <2>1, PiecesAreLines
  <2>3. inbox = <<>> => inbox' = <<>>
    BY <1>0, <2>1, SubSeqEmpty
  <2>4. sent' = <<>> /\ UNCHANGED <<pc, call, outcome, response, fd>>
    BY <1>10 DEF PeerCloses
  <2>5. CASE pc = "recv"
    <3>1. \A i \in 1..n : inbox[i].kind = "END" => i = n
      BY <1>0, <2>1, <2>5
    <3>2. QED
      BY <1>0, <2>1, <2>2, <2>4, <2>5, <3>1
  <2>6. CASE pc # "recv"
    BY <1>0, <2>3, <2>4, <2>6
  <2>7. QED
    BY <2>5, <2>6
<1>11. CASE RunOrphan
  BY <1>11 DEF RunOrphan
<1>12. CASE StartOrStopListening
  BY <1>12 DEF StartOrStopListening
<1>13. CASE Tick
  BY <1>13 DEF Tick
<1>14. CASE UNCHANGED vars
  BY <1>14 DEF vars
<1>15. QED
  BY <1>1, <1>2, <1>3, <1>4, <1>5, <1>6, <1>7, <1>8, <1>9, <1>10, <1>11,
     <1>12, <1>13, <1>14 DEF Next, DriverStep, Environment

(* Whatever fails and whenever it fails, an execute() that succeeds returns *)
(* the whole reply to its own command, provided no line of content ends in *)
(* END or holds a NUL byte.                                                *)
THEOREM RepliesAreOwn == ASSUME CleanReplies PROVE Spec => []OwnReply
<1>1. TypeInv /\ ControlInv /\ ReplyInv /\ [Next]_vars => ReplyInv'
  BY ReplyStep
<1>2. ReplyInv => OwnReply
  BY DEF ReplyInv
<1>3. QED
  BY <1>1, <1>2, TypeInit, TypeStep, ControlInit, ControlStep, ReplyInit, PTL DEF Spec

(* Between calls a kept connection is empty, under the same proviso. *)
THEOREM ConnectionsAreQuiet == ASSUME CleanReplies PROVE Spec => []QuietBetweenCalls
<1>1. TypeInv /\ ControlInv /\ ReplyInv /\ [Next]_vars => ReplyInv'
  BY ReplyStep
<1>2. ReplyInv => QuietBetweenCalls
  BY DEF ReplyInv
<1>3. QED
  BY <1>1, <1>2, TypeInit, TypeStep, ControlInit, ControlStep, ReplyInit, PTL DEF Spec

-----------------------------------------------------------------------------
(* How often the command of a call was run goes with how far the call is:  *)
(* one that is on its way or left behind has not been run, one that is     *)
(* answered has, and none is in two places.                                *)
RunsInv ==
  /\ \A c \in 1..MaxCalls : runs[c] \in {0, 1} /\ (c > call => runs[c] = 0)
  /\ \A c \in orphans : c <= call /\ runs[c] = 0
  /\ pc \notin {"idle", "recv"} \/ sent # <<>> => call \notin orphans /\ runs[call] = 0
  /\ pc = "recv" /\ (response # <<>> \/ inbox # <<>>) => runs[call] = 1

LEMMA RunsInit == Init => RunsInv
  BY DEF Init, RunsInv

(* A driver's own step other than a chunk goes on, or returns an error. *)
LEMMA GoesOnOrFails ==
  ASSUME TypeInv, ControlInv, DriverStep, ~RecvChunk
  PROVE  /\ pc # "idle" /\ outcome = "none"
         /\ \/ pc' # "idle" /\ outcome' = "none"
            \/ pc' = "idle" /\ outcome' \notin {"none", "reply"}
         /\ UNCHANGED <<call, response, runs>>
<1> USE DEF ControlInv, Return, connection, timing
<1>1. CASE Resolve
  BY <1>1 DEF Resolve
<1>2. CASE TryAddress
  BY <1>2 DEF TryAddress, Connected
<1>3. CASE OpenSocket
  BY <1>3 DEF OpenSocket, Connected
<1>4. CASE Send
  BY <1>4 DEF Send
<1>5. CASE RecvTooLong
  BY <1>5 DEF RecvTooLong
<1>6. CASE RecvClosed
  BY <1>6 DEF RecvClosed
<1>7. QED
  BY <1>1, <1>2, <1>3, <1>4, <1>5, <1>6 DEF DriverStep

(* Only a call that waits for its reply has sent something. *)
LEMMA SentIsCall ==
  ASSUME TypeInv, ControlInv, ReplyInv
  PROVE  sent # <<>> => pc = "recv" /\ sent = <<call>> /\ response = <<>> /\ inbox = <<>>
  BY DEF TypeInv, TypeOK, ControlInv, ReplyInv, QuietBetweenCalls

(* The steps that give a connection up leave its commands behind. *)
LEMMA OrphansGrow ==
  ASSUME TypeInv, ControlInv, ReplyInv, RunsInv,
         orphans' = orphans \/ orphans' = orphans \cup ToSet(sent), UNCHANGED <<call, runs>>
  PROVE  /\ \A c \in orphans' : c <= call' /\ runs'[c] = 0
         /\ sent = <<>> => orphans' = orphans
<1>1. sent = <<>> => ToSet(sent) = {}
  BY DEF ToSet
<1>2. sent # <<>> => ToSet(sent) = {call}
  BY SentIsCall DEF ToSet
<1>3. call \in Nat
  BY DEF TypeInv, TypeOK
<1>4. orphans' \subseteq orphans \cup ToSet(sent)
  OBVIOUS
<1>5. \A c \in ToSet(sent) : c <= call /\ runs[c] = 0
  BY <1>1, <1>2, <1>3 DEF RunsInv
<1>6. \A c \in orphans : c <= call /\ runs[c] = 0
  BY DEF RunsInv
<1>7. QED
  BY <1>1, <1>4, <1>5, <1>6

LEMMA RunsStep ==
  ASSUME TypeInv, ControlInv, ReplyInv, RunsInv, [Next]_vars
  PROVE  RunsInv'
<1>0. /\ call \in 0..MaxCalls /\ call \in Nat /\ MaxCalls \in Nat
      /\ pc \in {"idle", "resolve", "try", "open", "send", "recv"}
      /\ runs \in [1..MaxCalls -> Nat] /\ orphans \subseteq 1..MaxCalls
      /\ peer = "closed" => sent = <<>>
      /\ pc # "idle" => call \in 1..MaxCalls
  BY SizeAssumption DEF TypeInv, TypeOK, ConnectionTypeOK, ControlInv
<1>a. sent # <<>> => pc = "recv" /\ sent = <<call>> /\ response = <<>> /\ inbox = <<>>
  BY SentIsCall
<1> USE DEF RunsInv, connection, timing
<1>1. CASE Execute
  <2>1. sent = <<>> /\ inbox = <<>>
    BY <1>1 DEF Execute, ReplyInv, QuietBetweenCalls
  <2>2. /\ call' = call + 1 /\ pc' \in {"send", "resolve", "open"} /\ call' \in 1..MaxCalls
        /\ UNCHANGED <<runs, orphans, sent, inbox>>
    BY <1>0, <1>1 DEF Execute
  <2>3. QED
    BY <1>0, <2>1, <2>2
<1>2. CASE DriverStep /\ ~RecvChunk
  <2>1. pc # "idle" /\ UNCHANGED <<call, response, runs>>
    BY <1>2, GoesOnOrFails
  <2>2. orphans' = orphans \/ orphans' = orphans \cup ToSet(sent)
    BY <1>2 DEF DriverStep, Resolve, TryAddress, OpenSocket, Send, RecvTooLong, RecvClosed,
                Connected, Disconnect
  <2>3. /\ \A c \in orphans' : c <= call' /\ runs'[c] = 0
        /\ sent = <<>> => orphans' = orphans
    BY <2>1, <2>2, OrphansGrow
  <2>4. CASE pc = "recv"
    <3>1. pc' = "idle" /\ sent' = <<>>
      BY <1>2, <2>4 DEF DriverStep, Resolve, TryAddress, OpenSocket, Send, RecvTooLong,
                        RecvClosed, Disconnect, Return
    <3>2. QED
      BY <1>0, <2>1, <2>3, <3>1
  <2>5. CASE pc # "recv"
    <3>1. sent = <<>> /\ orphans' = orphans /\ call \notin orphans /\ runs[call] = 0
      BY <1>a, <2>1, <2>3, <2>5
    <3>2. inbox = <<>> /\ response = <<>>
      BY <2>1, <2>5, <1>0 DEF ControlInv, ReplyInv, QuietBetweenCalls
    <3>3. inbox' = <<>>
      BY <1>2, <2>5, <3>2 DEF DriverStep, Resolve, TryAddress, OpenSocket, Send, RecvTooLong,
                        RecvClosed, Disconnect, Connected
    <3>4. QED
      BY <1>0, <2>1, <2>3, <3>1, <3>2, <3>3
  <2>6. QED
    BY <2>4, <2>5
<1>3. CASE RecvChunk
  <2>1. PICK n \in 1..Smaller(ChunkMax, Len(inbox)) :
          inbox' = SubSeq(inbox, n + 1, Len(inbox))
    BY <1>3 DEF RecvChunk
  <2>2. /\ pc = "recv" /\ pc' \in {"idle", "recv"}
        /\ UNCHANGED <<call, runs, sent, orphans>>
    BY <1>3 DEF RecvChunk, Return
  <2>3. inbox # <<>>
    <3>1. SUFFICES ASSUME inbox = <<>> PROVE FALSE
      OBVIOUS
    <3>2. Len(inbox) = 0
      BY <3>1
    <3>3. QED
      BY <2>1, <3>2, SizeAssumption DEF Smaller
  <2>4. QED
    BY <1>0, <1>a, <2>2, <2>3
<1>4. CASE Answer
  <2>1. sent # <<>>
    BY <1>4 DEF Answer
  <2>2. /\ pc = "recv" /\ sent = <<call>> /\ call \in 1..MaxCalls
        /\ call \notin orphans /\ runs[call] = 0
    BY <1>0, <1>a, <2>1
  <2>3. Head(sent) = call /\ Tail(sent) = <<>>
    BY <2>2
  <2>4. /\ runs' = [runs EXCEPT ![call] = 1] /\ sent' = <<>>
        /\ UNCHANGED <<pc, call, orphans, response>>
    BY <1>0, <1>4, <2>2, <2>3 DEF Answer
  <2>5. QED
    BY <1>0, <2>2, <2>4
<1>5. CASE PeerCloses
  <2>1. PICK n \in 0..Len(inbox) : inbox' = SubSeq(inbox, 1, n)
    BY <1>5 DEF PeerCloses
  <2>2. inbox = <<>> => inbox' = <<>>
    BY <2>1, SubSeqEmpty DEF TypeInv, TypeOK, ConnectionTypeOK
  <2>3. /\ orphans' = orphans \cup ToSet(sent) /\ sent' = <<>>
        /\ UNCHANGED <<pc, call, response, runs>>
    BY <1>5 DEF PeerCloses
  <2>4. /\ \A c \in orphans' : c <= call' /\ runs'[c] = 0
        /\ sent = <<>> => orphans' = orphans
    BY <2>3, OrphansGrow
  <2>5. QED
    BY <1>0, <1>a, <2>2, <2>3, <2>4
<1>6. CASE RunOrphan
  <2>1. PICK c \in orphans : orphans' = orphans \ {c} /\ runs' = [runs EXCEPT ![c] = @ + 1]
    BY <1>6 DEF RunOrphan
  <2>2. UNCHANGED <<pc, call, response, sent, inbox>>
    BY <1>6 DEF RunOrphan
  <2>3. c \in 1..MaxCalls /\ c <= call /\ runs[c] = 0
    BY <1>0, <2>1
  <2>4. runs' = [runs EXCEPT ![c] = 1]
    BY <1>0, <2>1, <2>3
  <2>5. call = c => ~(pc \notin {"idle", "recv"} \/ sent # <<>>)
    BY <2>1
  <2>6. pc = "recv" /\ (response # <<>> \/ inbox # <<>>) => call # c
    BY <2>3
  <2>7. QED
    BY <1>0, <2>1, <2>2, <2>3, <2>4, <2>5, <2>6
<1>7. CASE StartOrStopListening
  BY <1>7 DEF StartOrStopListening
<1>8. CASE Tick
  BY <1>8 DEF Tick
<1>9. CASE UNCHANGED vars
  BY <1>9 DEF vars
<1>10. QED
  BY <1>1, <1>2, <1>3, <1>4, <1>5, <1>6, <1>7, <1>8, <1>9 DEF Next, DriverStep, Environment

(* A command is run at most once per call; a step that runs it, returns or *)
(* begins a call is a step of the promise, and no other is seen there.     *)
LEMMA PromiseStep ==
  ASSUME TypeInv, ControlInv, ReplyInv, RunsInv, [Next]_vars, ReplyInv'
  PROVE  [Promise!Next]_(Promise!vars)
<1>0. /\ call \in 0..MaxCalls /\ call \in Nat /\ MaxCalls \in Nat
      /\ runs \in [1..MaxCalls -> Nat] /\ orphans \subseteq 1..MaxCalls
      /\ pc # "idle" => call \in 1..MaxCalls
  BY SizeAssumption DEF TypeInv, TypeOK, ConnectionTypeOK
<1> DEFINE Seen == /\ (pc' # "idle") = (pc # "idle")
                   /\ UNCHANGED <<call, outcome, response>>
<1>s. Seen => (pc' # "idle") = (pc # "idle") /\ call' = call /\ Verdict' = Verdict
  BY DEF Verdict, OwnReply
<1>u. Seen /\ UNCHANGED runs => UNCHANGED Promise!vars
  BY <1>s DEF Promise!vars
<1>r. ASSUME NEW k \in 1..call, runs[k] = 0, runs' = [runs EXCEPT ![k] = @ + 1], Seen
      PROVE  Promise!Next
  <2>1. k \in 1..MaxCalls /\ runs' = [runs EXCEPT ![k] = 1]
    BY <1>0, <1>r
  <2>2. Promise!Execute(k)
    BY <1>r, <1>s, <2>1 DEF Promise!Execute
  <2>3. QED
    BY <2>1, <2>2 DEF Promise!Next
<1>1. CASE Execute
  <2>1. /\ pc = "idle" /\ pc' # "idle" /\ call < MaxCalls /\ call' = call + 1
        /\ outcome' = "none" /\ UNCHANGED runs
    BY <1>1 DEF Execute
  <2>2. Verdict' = "none"
    BY <2>1 DEF Verdict
  <2>3. QED
    BY <2>1, <2>2 DEF Promise!Next, Promise!Invoke
<1>2. CASE DriverStep /\ ~RecvChunk
  <2>1. /\ pc # "idle" /\ outcome = "none" /\ UNCHANGED <<call, response, runs>>
        /\ \/ pc' # "idle" /\ outcome' = "none"
           \/ pc' = "idle" /\ outcome' \notin {"none", "reply"}
    BY <1>2, GoesOnOrFails
  <2>2. CASE pc' # "idle" /\ outcome' = "none"
    BY <1>u, <2>1, <2>2
  <2>3. CASE pc' = "idle" /\ outcome' \notin {"none", "reply"}
    <3>1. Verdict' = "error"
      BY <2>3 DEF Verdict
    <3>2. QED
      BY <2>1, <2>3, <3>1 DEF Promise!Next, Promise!ReturnError
  <2>4. QED
    BY <2>1, <2>2, <2>3
<1>3. CASE RecvChunk
  <2>1. pc = "recv" /\ outcome = "none" /\ UNCHANGED <<call, runs>>
    BY <1>3 DEF RecvChunk, ControlInv
  <2>2. CASE UNCHANGED <<pc, outcome>>
    <3>1. Verdict' = "none" /\ Verdict = "none"
      BY <2>1, <2>2 DEF Verdict
    <3>2. QED
      BY <2>1, <2>2, <3>1 DEF Promise!vars
  <2>3. CASE Return("reply")
    <3>1. pc' = "idle" /\ outcome' = "reply"
      BY <2>3 DEF Return
    <3>2. Verdict' = "reply"
      BY <3>1 DEF Verdict, ReplyInv
    <3>3. inbox # <<>>
      <4>1. SUFFICES ASSUME inbox = <<>> PROVE FALSE
        OBVIOUS
      <4>2. Len(inbox) = 0
        BY <4>1
      <4>3. QED
        BY <1>3, <4>2, SizeAssumption DEF RecvChunk, Smaller
    <3>4. runs[call] = 1
      BY <2>1, <3>3 DEF RunsInv
    <3>5. QED
      BY <2>1, <3>1, <3>2, <3>4 DEF Promise!Next, Promise!ReturnReply
  <2>4. QED
    BY <1>3, <2>2, <2>3 DEF RecvChunk
<1>4. CASE Answer
  <2>1. sent # <<>> /\ Seen /\ runs' = [runs EXCEPT ![Head(sent)] = @ + 1]
    BY <1>4 DEF Answer
  <2>2. Head(sent) = call /\ pc = "recv" /\ runs[call] = 0
    BY <2>1, SentIsCall DEF RunsInv
  <2>3. call \in 1..call
    BY <1>0, <2>2
  <2>4. QED
    BY <1>r, <2>1, <2>2, <2>3
<1>5. CASE RunOrphan
  <2>1. PICK c \in orphans : runs' = [runs EXCEPT ![c] = @ + 1]
    BY <1>5 DEF RunOrphan
  <2>2. c \in 1..call /\ runs[c] = 0
    BY <1>0, <2>1 DEF RunsInv
  <2>3. Seen
    BY <1>5 DEF RunOrphan
  <2>4. QED
    BY <1>r, <2>1, <2>2, <2>3
<1>6. CASE PeerCloses \/ StartOrStopListening \/ Tick \/ UNCHANGED vars
  <2>1. Seen /\ UNCHANGED runs
    BY <1>6 DEF PeerCloses, StartOrStopListening, Tick, vars
  <2>2. QED
    BY <1>u, <2>1
<1>7. QED
  BY <1>1, <1>2, <1>3, <1>4, <1>5, <1>6 DEF Next, Environment

(* Both drivers keep the promise of a StreamProvider, under the same       *)
(* proviso: a success is the call's own reply, given after its command was *)
(* run, and however connections are lost and errors returned, no command   *)
(* is run twice, nor before its call.                                      *)
THEOREM PromiseIsKept == ASSUME CleanReplies PROVE Spec => KeepsPromise
<1>1. Init => Promise!Init
  BY DEF Init, Promise!Init, Verdict
<1>2. TypeInv /\ ControlInv /\ ReplyInv /\ [Next]_vars => ReplyInv'
  BY ReplyStep
<1>3. TypeInv /\ ControlInv /\ ReplyInv /\ RunsInv /\ [Next]_vars => RunsInv'
  BY RunsStep
<1>4. TypeInv /\ ControlInv /\ ReplyInv /\ RunsInv /\ [Next]_vars /\ ReplyInv'
        => [Promise!Next]_(Promise!vars)
  BY PromiseStep
<1>5. QED
  BY <1>1, <1>2, <1>3, <1>4, TypeInit, TypeStep, ControlInit, ControlStep, ReplyInit, RunsInit,
     PTL DEF Spec, KeepsPromise, Promise!Spec
=============================================================================
