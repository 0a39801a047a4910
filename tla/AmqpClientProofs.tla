-------------------------- MODULE AmqpClientProofs --------------------------
(***************************************************************************)
(* Proofs about AmqpClient, for every program of operations and callbacks, *)
(* every list of envelopes, every frame size and every broker: that the    *)
(* timer lives the life Heartbeat describes, that no operation is dropped  *)
(* or reported twice, that answers meet the operations they are for, that  *)
(* every wait has an end, and that messages arrive whole.                  *)
(*                                                                         *)
(* Working describes the channel between any two calls of ChannelImpl's    *)
(* functions, Matched its queue and the answers on their way, Flowing the  *)
(* frames of a message and what the receiver has of it.  Induction over    *)
(* the recursive functions of the model is by Least: the least place at    *)
(* which something is wrong.                                               *)
(***************************************************************************)
EXTENDS AmqpClient, HeartbeatProofs, SequenceTheorems, FiniteSetTheorems, WellFoundedInduction,
        NaturalsInduction

(* The least of some numbers. *)
LEMMA Least ==
  ASSUME NEW S \in SUBSET Nat, S # {}
  PROVE  \E m \in S : \A k \in S : m <= k
<1>1. IsWellFoundedOn(OpToRel(<, Nat), Nat)  BY NatLessThanWellFounded
<1>2. PICK m \in S : \A y \in S : ~(<<y, m>> \in OpToRel(<, Nat))  BY <1>1, WFMin
<1>3. ASSUME NEW k \in S PROVE m <= k
  <2>1. k \in Nat /\ m \in Nat  OBVIOUS
  <2>2. ~(<<k, m>> \in OpToRel(<, Nat))  BY <1>2
  <2>3. ~(k < m)  BY <2>1, <2>2 DEF OpToRel
  <2>4. QED BY <2>1, <2>3
<1>4. QED BY <1>3

-----------------------------------------------------------------------------
(* The order in which operations were asked for. *)
Asked(d) == ToSet(d.asked)

Once(d) == d.asked \in Seq(Ops) /\ IsInjective(d.asked)

(* Only what was asked for comes before or after something. *)
LEMMA BeforeAsked ==
  ASSUME NEW d, NEW x, NEW y, AskedBefore(d, x, y)
  PROVE  x \in Asked(d) /\ y \in Asked(d)
BY DEF AskedBefore, Asked, ToSet

(* AskedBefore is a strict total order of what was asked for. *)
LEMMA BeforeStrict ==
  ASSUME NEW d, Once(d), NEW x, NEW y, AskedBefore(d, x, y)
  PROVE  ~AskedBefore(d, y, x) /\ x # y
BY DEF AskedBefore, Once, IsInjective

LEMMA BeforeTransitive ==
  ASSUME NEW d, Once(d), NEW x, NEW y, NEW z, AskedBefore(d, x, y), AskedBefore(d, y, z)
  PROVE  AskedBefore(d, x, z)
<1>1. PICK i, j \in DOMAIN d.asked : i < j /\ d.asked[i] = x /\ d.asked[j] = y
  BY DEF AskedBefore
<1>2. PICK k, l \in DOMAIN d.asked : k < l /\ d.asked[k] = y /\ d.asked[l] = z
  BY DEF AskedBefore
<1>3. j = k BY <1>1, <1>2 DEF Once, IsInjective
<1>4. i < l BY <1>1, <1>2, <1>3 DEF Once
<1> QED BY <1>1, <1>2, <1>4 DEF AskedBefore

LEMMA BeforeTotal ==
  ASSUME NEW d, Once(d), NEW x \in Asked(d), NEW y \in Asked(d), x # y
  PROVE  AskedBefore(d, x, y) \/ AskedBefore(d, y, x)
<1>1. PICK i \in DOMAIN d.asked : d.asked[i] = x BY DEF Asked, ToSet
<1>2. PICK j \in DOMAIN d.asked : d.asked[j] = y BY DEF Asked, ToSet
<1>3. i < j \/ j < i BY <1>1, <1>2 DEF Once
<1> QED BY <1>1, <1>2, <1>3 DEF AskedBefore

(* The order does not depend on anything else of the channel. *)
LEMMA BeforeSame ==
  ASSUME NEW d, NEW e, e.asked = d.asked
  PROVE  /\ Asked(e) = Asked(d) /\ (Once(d) => Once(e))
         /\ \A x, y : AskedBefore(e, x, y) <=> AskedBefore(d, x, y)
BY DEF AskedBefore, Asked, Once

(* What is asked for now comes after everything asked for before. *)
LEMMA BeforeAppended ==
  ASSUME NEW d, NEW e, Once(d), NEW op \in Ops, op \notin Asked(d), e.asked = Append(d.asked, op)
  PROVE  /\ Once(e) /\ Asked(e) = Asked(d) \cup {op}
         /\ \A x, y : AskedBefore(e, x, y) <=> AskedBefore(d, x, y) \/ (x \in Asked(d) /\ y = op)
<1> DEFINE n == Len(d.asked)
<1>1. /\ n \in Nat /\ DOMAIN d.asked = 1..n /\ DOMAIN e.asked = 1..(n + 1)
      /\ e.asked \in Seq(Ops) /\ e.asked[n + 1] = op
      /\ \A i \in 1..n : e.asked[i] = d.asked[i] /\ e.asked[i] # op
  BY DEF Once, Asked, ToSet
<1>2. Once(e)
  <2>1. \A i, j \in 1..(n + 1) : e.asked[i] = e.asked[j] => i = j
    <3> TAKE i, j \in 1..(n + 1)
    <3>1. CASE i \in 1..n /\ j \in 1..n BY <1>1, <3>1 DEF Once, IsInjective
    <3>2. CASE i = n + 1 \/ j = n + 1 BY <1>1, <3>2
    <3> QED BY <1>1, <3>1, <3>2
  <2> QED BY <1>1, <2>1 DEF Once, IsInjective
<1>3. Asked(e) = Asked(d) \cup {op} 
  <2>1. \A x : x \in Asked(e) <=> \E i \in 1..(n + 1) : e.asked[i] = x BY <1>1 DEF Asked, ToSet
  <2>2. \A x : x \in Asked(d) <=> \E i \in 1..n : d.asked[i] = x BY <1>1 DEF Asked, ToSet
  <2>3. \A i \in 1..(n + 1) : i \in 1..n \/ i = n + 1 BY <1>1
  <2>4. 1..n \subseteq 1..(n + 1) /\ n + 1 \in 1..(n + 1) BY <1>1
  <2> QED BY <1>1, <2>1, <2>2, <2>3, <2>4
<1>4. ASSUME NEW x, NEW y, AskedBefore(e, x, y)
      PROVE  AskedBefore(d, x, y) \/ (x \in Asked(d) /\ y = op)
  <2>1. PICK i, j \in 1..(n + 1) : i < j /\ e.asked[i] = x /\ e.asked[j] = y
    BY <1>1, <1>4 DEF AskedBefore
  <2>2. i \in 1..n BY <1>1, <2>1
  <2>3. CASE j \in 1..n BY <1>1, <2>1, <2>2, <2>3 DEF AskedBefore
  <2>4. CASE j = n + 1 BY <1>1, <2>1, <2>2, <2>4 DEF Asked, ToSet
  <2> QED BY <1>1, <2>1, <2>3, <2>4
<1>5. ASSUME NEW x, NEW y, AskedBefore(d, x, y) PROVE AskedBefore(e, x, y)
  <2>1. PICK i, j \in 1..n : i < j /\ d.asked[i] = x /\ d.asked[j] = y
    BY <1>1, <1>5 DEF AskedBefore
  <2> QED BY <1>1, <2>1, SMTT(30) DEF AskedBefore
<1>6. ASSUME NEW x \in Asked(d) PROVE AskedBefore(e, x, op)
  <2>1. PICK i \in 1..n : d.asked[i] = x BY <1>1 DEF Asked, ToSet
  <2> QED BY <1>1, <2>1 DEF AskedBefore
<1> QED BY <1>2, <1>3, <1>4, <1>5, <1>6

-----------------------------------------------------------------------------
(* The list. *)
LEMMA ListedLinked ==
  ASSUME NEW d, NEW e, Once(d), NEW S \in SUBSET Asked(d), Listed(d, S),
         NEW op \in Ops, op \notin Asked(d),
         DOMAIN d.next = Ops,
         e.asked = Append(d.asked, op), e.newest = op,
         e.oldest = IF d.oldest = None THEN op ELSE d.oldest,
         e.next = IF d.newest = None THEN d.next ELSE [d.next EXCEPT ![d.newest] = op]
  PROVE  Listed(e, S \cup {op})
<1>1. /\ \A x, y : AskedBefore(e, x, y) <=> AskedBefore(d, x, y) \/ (x \in Asked(d) /\ y = op)
      /\ S \subseteq Ops /\ None \notin Ops /\ op \notin S
  <2>1. S \subseteq Ops BY DEF Once, Asked, ToSet
  <2>2. \A x, y : AskedBefore(e, x, y) <=> AskedBefore(d, x, y) \/ (x \in Asked(d) /\ y = op)
    BY BeforeAppended
  <2> QED BY <2>1, <2>2, ProgramAssumption
<1>2. \A x, y : AskedBefore(d, x, y) => x \in Asked(d) /\ y \in Asked(d) BY BeforeAsked
<1>3. CASE S = {}
  <2>1. e.oldest = op /\ e.next = d.next /\ \A x \in Ops : d.next[x] = None
    BY <1>3 DEF Listed
  <2> QED BY <1>1, <1>3, <2>1 DEF Listed
<1>4. CASE S # {}
  <2>1. /\ d.oldest \in S /\ d.newest \in S /\ e.oldest = d.oldest
        /\ \A x \in Ops : e.next[x] = IF x = d.newest THEN op ELSE d.next[x]
    BY <1>1, <1>4 DEF Listed
  <2>2. \A x \in (S \cup {op}) \ {e.oldest} : AskedBefore(e, e.oldest, x)
    BY <1>1, <1>4, <2>1 DEF Listed
  <2>3. \A x \in (S \cup {op}) \ {op} : AskedBefore(e, x, op) BY <1>1
  <2>4. \A x \in S : IsNext(e, S \cup {op}, x, e.next[x])
    <3> TAKE x \in S
    <3>1. CASE x = d.newest
      <4>1. e.next[x] = op /\ AskedBefore(e, x, op) BY <1>1, <2>1, <3>1
      <4>2. \A z \in S : ~AskedBefore(d, x, z) BY <1>4, <3>1, BeforeStrict DEF Listed
      <4> QED BY <1>1, <1>2, <4>1, <4>2 DEF IsNext
    <3>2. CASE x # d.newest
      <4>1. e.next[x] = d.next[x] /\ IsNext(d, S, x, d.next[x]) BY <1>1, <2>1, <3>2 DEF Listed
      <4> QED BY <1>1, <1>2, <4>1 DEF IsNext
    <3> QED BY <3>1, <3>2
  <2>5. \A x \in (S \cup {op}) \ {e.oldest} : \E z \in S \cup {op} : e.next[z] = x
    <3> TAKE x \in (S \cup {op}) \ {e.oldest}
    <3>1. CASE x = op BY <1>1, <2>1, <3>1
    <3>2. CASE x # op
      <4>1. PICK z \in S : d.next[z] = x BY <2>1, <3>2 DEF Listed
      <4>2. z # d.newest BY <1>1, <4>1, <2>1, <3>2 DEF Listed
      <4> QED BY <1>1, <2>1, <4>1, <4>2
    <3> QED BY <3>1, <3>2
  <2>6. \A x \in Ops : x \in (S \cup {op}) \ {op} \/ e.next[x] = None
    BY <1>1, <2>1 DEF Listed
  <2> QED BY <2>1, <2>2, <2>3, <2>4, <2>5, <2>6 DEF Listed
<1> QED BY <1>3, <1>4

(* Deferred::next(), unchain(): the list without the oldest operation. *)
LEMMA ListedUnlinked ==
  ASSUME NEW d, NEW e, Once(d), NEW S \in SUBSET Asked(d), Listed(d, S), S # {},
         DOMAIN d.next = Ops,
         e.asked = d.asked, e.oldest = d.next[d.oldest],
         e.newest = IF d.next[d.oldest] = None THEN None ELSE d.newest,
         e.next = [d.next EXCEPT ![d.oldest] = None]
  PROVE  Listed(e, S \ {d.oldest})
<1> DEFINE cb == d.oldest
           next == d.next[cb]
<1>1. /\ S \subseteq Ops /\ None \notin Ops /\ cb \in S
      /\ \A x \in S \ {cb} : AskedBefore(d, cb, x)
      /\ \A x \in Ops : e.next[x] = IF x = cb THEN None ELSE d.next[x]
  BY ProgramAssumption, SMTT(30) DEF Listed, Once, Asked, ToSet
<1>2. \A x, y : AskedBefore(e, x, y) <=> AskedBefore(d, x, y) BY BeforeSame
<1>3. CASE S = {cb}
  <2>1. d.newest = cb /\ next = None BY <1>1, <1>3 DEF Listed
  <2>2. e.oldest = None /\ e.newest = None BY <2>1
  <2>3. \A x \in Ops : e.next[x] = None BY <1>1, <1>3 DEF Listed
  <2> QED BY <1>3, <2>2, <2>3 DEF Listed
<1>4. CASE S # {cb}
  <2>1. cb # d.newest
    <3>1. PICK x \in S : x # cb BY <1>1, <1>4
    <3>2. AskedBefore(d, cb, x) BY <1>1, <3>1
    <3>3. ~AskedBefore(d, x, cb) BY <3>2, BeforeStrict
    <3> QED BY <3>1, <3>3 DEF Listed
  <2>2. IsNext(d, S, cb, next) BY <1>1, <2>1 DEF Listed
  <2>3. next \in S /\ next # cb /\ next # None
    BY <1>1, <2>2, BeforeStrict DEF IsNext
  <2>4. \A x \in S \ {cb, next} : AskedBefore(d, next, x)
    BY <1>1, <2>2, <2>3, BeforeTotal DEF IsNext
  <2>5. e.newest = d.newest /\ d.newest \in S BY <2>3 DEF Listed
  <2>6. \A x \in S \ {cb, d.newest} : IsNext(e, S \ {cb}, x, e.next[x])
    <3> TAKE x \in S \ {cb, d.newest}
    <3>1. e.next[x] = d.next[x] /\ IsNext(d, S, x, d.next[x]) BY <1>1 DEF Listed
    <3>2. d.next[x] # cb BY <3>1, <1>1, BeforeStrict DEF IsNext
    <3> QED BY <1>2, <3>1, <3>2 DEF IsNext
  <2>7. \A x \in S \ {cb, next} : \E z \in S \ {cb} : e.next[z] = x
    <3> TAKE x \in S \ {cb, next}
    <3>1. PICK z \in S : d.next[z] = x BY <1>1 DEF Listed
    <3> QED BY <1>1, <3>1
  <2>8. \A x \in Ops : x \in (S \ {cb}) \ {d.newest} \/ e.next[x] = None BY <1>1 DEF Listed
  <2>9. \A x \in (S \ {cb}) \ {d.newest} : AskedBefore(e, x, d.newest) BY <1>2 DEF Listed
  <2> QED BY <1>2, <2>1, <2>3, <2>4, <2>5, <2>6, <2>7, <2>8, <2>9 DEF Listed
<1> QED BY <1>1, <1>3, <1>4

(* Following _next from the oldest meets exactly the operations listed. *)
LEMMA PendingIsListed ==
  ASSUME NEW d, Once(d), NEW S \in SUBSET Asked(d), Listed(d, S), S # {}
  PROVE  Pending(d) = S
<1>1. S \subseteq Ops /\ None \notin Ops /\ d.oldest \in S
  BY ProgramAssumption DEF Listed, Once, Asked, ToSet
<1>2. Pending(d) \subseteq S
  <2>1. \A x \in S : d.next[x] \in S \cup {None} BY <1>1 DEF Listed, IsNext
  <2> QED BY <1>1, <2>1 DEF Pending
<1>3. ASSUME NEW T \in SUBSET Ops, d.oldest \in T, \A x \in T : d.next[x] \in T \cup {None}
      PROVE  S \subseteq T
  <2> SUFFICES ASSUME ~(S \subseteq T) PROVE FALSE OBVIOUS
  <2> DEFINE Places == {i \in DOMAIN d.asked : d.asked[i] \in S \ T}
  <2>1. Places \in SUBSET Nat /\ Places # {} BY DEF Once, Asked, ToSet
  <2>2. PICK m \in Places : \A k \in Places : m <= k BY <2>1, Least
  <2>3. d.asked[m] \in S \ {d.oldest} BY <1>3
  <2>4. PICK z \in S : d.next[z] = d.asked[m] BY <2>3 DEF Listed
  <2>5. z \notin T => AskedBefore(d, z, d.asked[m])
    BY <1>1, <2>3, <2>4 DEF Listed, IsNext
  <2>6. z \in T
    <3> SUFFICES ASSUME z \notin T PROVE FALSE OBVIOUS
    <3>1. PICK i, j \in DOMAIN d.asked : i < j /\ d.asked[i] = z /\ d.asked[j] = d.asked[m]
      BY <2>5 DEF AskedBefore
    <3>2. j = m /\ i \in Places BY <3>1, <2>4 DEF Once, IsInjective
    <3>3. m <= i /\ i \in Nat /\ j \in Nat BY <2>1, <2>2, <3>2
    <3> QED BY <3>1, <3>2, <3>3
  <2> QED BY <1>1, <1>3, <2>3, <2>4, <2>6
<1> QED BY <1>1, <1>2, <1>3 DEF Pending
-----------------------------------------------------------------------------
(* The types of a channel. *)
Frames == Ops \cup Async \cup {Open}

Replies == {"ok", "empty", "message"}

Told == {"nothing", "error"} \cup {Called(of[1], of[2]) : of \in Ops \X Replies}

Chan == [state : {"connected", "ready", "closing", "closed"},
         oldest : Ops \cup {None}, newest : Ops \cup {None}, next : [Ops -> Ops \cup {None}],
         synchronous : BOOLEAN, queue : Seq(Frames), handed : Seq(Frames),
         consumer : {op \in Ops : Kind[op] \in Consumers} \cup {None}, asked : Seq(Ops), failed : SUBSET Ops,
         results : [Ops -> Seq(Told)]]

(* send() changes nothing but the two queues and the flag. *)
SameList(d, e) ==
  /\ e.state = d.state /\ e.oldest = d.oldest /\ e.newest = d.newest /\ e.next = d.next
  /\ e.consumer = d.consumer /\ e.asked = d.asked /\ e.failed = d.failed
  /\ e.results = d.results

(* What send() does in each state, and that types are kept. *)
LEMMA SendKeeps ==
  ASSUME NEW d \in Chan, NEW f \in Frames
  PROVE  /\ send(d, f) \in Chan /\ SameList(d, send(d, f))
         /\ d.state \in {"closing", "closed"} => send(d, f) = d
         /\ d.state \notin {"closing", "closed"} /\ waiting(d) =>
              /\ send(d, f).queue = Append(d.queue, f) /\ send(d, f).handed = d.handed
              /\ send(d, f).synchronous = d.synchronous
         /\ d.state \notin {"closing", "closed"} /\ ~waiting(d) =>
              /\ send(d, f).queue = d.queue /\ send(d, f).handed = Append(d.handed, f)
              /\ send(d, f).synchronous = Synchronous(f)
<1>1. CASE d.state \in {"closing", "closed"} BY <1>1 DEF send, SameList
<1>2. CASE d.state \notin {"closing", "closed"} /\ waiting(d)
  <2>1. send(d, f) = [d EXCEPT !.queue = Append(@, f)] BY <1>2 DEF send
  <2>5. Append(d.queue, f) \in Seq(Frames) BY DEF Chan
  <2>6. [d EXCEPT !.queue = Append(d.queue, f)] \in Chan BY <2>5 DEF Chan
  <2>2. send(d, f) \in Chan BY <2>1, <2>6
  <2>3. SameList(d, send(d, f)) BY <2>1 DEF Chan, SameList
  <2>4. /\ send(d, f).queue = Append(d.queue, f) /\ send(d, f).handed = d.handed
        /\ send(d, f).synchronous = d.synchronous
    BY <2>1 DEF Chan
  <2> QED BY <1>2, <2>2, <2>3, <2>4
<1>3. CASE d.state \notin {"closing", "closed"} /\ ~waiting(d)
  <2>1. send(d, f) = [d EXCEPT !.handed = Append(@, f), !.synchronous = Synchronous(f)]
    BY <1>3 DEF send
  <2>2. Synchronous(f) \in BOOLEAN BY DEF Synchronous
  <2>6. Append(d.handed, f) \in Seq(Frames) BY DEF Chan
  <2>3. send(d, f) \in Chan BY <2>1, <2>2, <2>6 DEF Chan
  <2>4. SameList(d, send(d, f)) BY <2>1 DEF Chan, SameList
  <2>5. /\ send(d, f).queue = d.queue /\ send(d, f).handed = Append(d.handed, f)
        /\ send(d, f).synchronous = Synchronous(f)
    BY <2>1, <2>2 DEF Chan
  <2> QED BY <1>3, <2>3, <2>4, <2>5
<1> QED BY <1>1, <1>2, <1>3

(* The frame is sent like any other, and the operation is the newest. *)
Pushed(d, op, e) ==
  /\ e \in Chan /\ e.consumer = d.consumer
  /\ e.asked = Append(d.asked, op) /\ e.newest = op
  /\ e.oldest = (IF d.oldest = None THEN op ELSE d.oldest)
  /\ e.next = (IF d.newest = None THEN d.next ELSE [d.next EXCEPT ![d.newest] = op])
  /\ e.synchronous = send(d, op).synchronous
  /\ e.queue = send(d, op).queue
  /\ e.handed = send(d, op).handed
  /\ e.failed = (IF Accepts(d) THEN d.failed ELSE d.failed \cup {op})
  /\ e.results = (IF Accepts(d) \/ Kind[op] \in Gets THEN d.results
                  ELSE [d.results EXCEPT ![op] = Append(d.results[op], "error")])

(* push() and ask() do what Pushed says. *)
LEMMA PushKeeps ==
  ASSUME NEW d \in Chan, NEW op \in Ops
  PROVE  Pushed(d, op, push(d, op)) /\ push(d, op).state = d.state
<1> DEFINE s == send(d, op)
           l == Linked(s, op)
<1> HIDE DEF s, l
<1>1. s \in Chan /\ SameList(d, s) BY SendKeeps DEF s, Frames
<1>2. l = [s EXCEPT !.oldest = IF s.oldest = None THEN op ELSE s.oldest,
                    !.next = IF s.newest = None THEN s.next ELSE [s.next EXCEPT ![s.newest] = op],
                    !.newest = op]
  BY <1>1 DEF l, Linked, Chan
<1>3. /\ (IF s.oldest = None THEN op ELSE s.oldest) \in Ops \cup {None}
      /\ (IF s.newest = None THEN s.next ELSE [s.next EXCEPT ![s.newest] = op])
           \in [Ops -> Ops \cup {None}]
  BY <1>1 DEF Chan
<1>4. l \in Chan BY <1>1, <1>2, <1>3 DEF Chan
<1>5. /\ l.state = s.state /\ l.newest = op /\ l.asked = s.asked /\ l.failed = s.failed
      /\ l.results = s.results /\ l.synchronous = s.synchronous /\ l.queue = s.queue
      /\ l.handed = s.handed /\ l.consumer = s.consumer
      /\ l.oldest = (IF s.oldest = None THEN op ELSE s.oldest)
      /\ l.next = (IF s.newest = None THEN s.next ELSE [s.next EXCEPT ![s.newest] = op])
  BY <1>1, <1>2 DEF Chan
<1> DEFINE failed  == IF Accepts(d) THEN l.failed ELSE l.failed \cup {op}
           results == [l.results EXCEPT ![op] = IF Accepts(d) \/ Kind[op] \in Gets THEN @
                                                ELSE Append(@, "error")]
           asked   == Append(l.asked, op)
<1>6. failed \in SUBSET Ops /\ asked \in Seq(Ops)
  BY <1>4 DEF Chan
<1>7. results \in [Ops -> Seq(Told)]
  <2>1. l.results \in [Ops -> Seq(Told)] BY <1>4 DEF Chan
  <2>2. "error" \in Told BY Zenon DEF Told
  <2>3. Append(l.results[op], "error") \in Seq(Told) BY <2>1, <2>2
  <2> QED BY <2>1, <2>3
<1>8. results = IF Accepts(d) \/ Kind[op] \in Gets THEN l.results
                ELSE [l.results EXCEPT ![op] = Append(l.results[op], "error")]
  <2>1. l.results \in [Ops -> Seq(Told)] BY <1>4 DEF Chan
  <2> QED BY <2>1
<1> HIDE DEF failed, results, asked
<1>9. push(d, op) = [l EXCEPT !.asked = asked, !.failed = failed, !.results = results]
  BY <1>4 DEF push, l, s, asked, failed, results, Chan
<1>10. push(d, op) \in Chan BY <1>4, <1>6, <1>7, <1>9 DEF Chan
<1>11. /\ push(d, op).state = l.state /\ push(d, op).newest = l.newest /\ push(d, op).asked = asked
       /\ push(d, op).failed = failed /\ push(d, op).results = results
       /\ push(d, op).synchronous = l.synchronous /\ push(d, op).queue = l.queue
       /\ push(d, op).handed = l.handed /\ push(d, op).consumer = l.consumer
       /\ push(d, op).oldest = l.oldest /\ push(d, op).next = l.next
  BY <1>4, <1>9 DEF Chan
<1>12. /\ asked = Append(d.asked, op) /\ failed = (IF Accepts(d) THEN d.failed ELSE d.failed \cup {op})
       /\ l.results = d.results
  BY <1>1, <1>5 DEF asked, failed, SameList
<1> QED BY <1>1, <1>5, <1>8, <1>10, <1>11, <1>12 DEF SameList, s, Pushed

(* A close() besides makes the channel a closing one. *)
LEMMA AskKeeps ==
  ASSUME NEW d \in Chan, NEW op \in Ops
  PROVE  /\ Pushed(d, op, ask(d, op))
         /\ ask(d, op).state = IF Kind[op] \in Closings /\ Accepts(d) THEN "closing" ELSE d.state
<1> DEFINE p == push(d, op)
<1>1. p \in Chan /\ p.state = d.state /\ Pushed(d, op, p) BY PushKeeps DEF Pushed
<1> HIDE DEF p
<1>2. CASE Kind[op] \notin Closings
  <2>1. ask(d, op) = p BY <1>2 DEF ask, p
  <2> QED BY <1>1, <1>2, <2>1
<1>3. CASE Kind[op] \in Closings
  <2> DEFINE state == IF Accepts(d) THEN "closing" ELSE d.state
  <2>1. ask(d, op) = [p EXCEPT !.state = state] BY <1>1, <1>3 DEF ask, close, p, Chan
  <2>2. state \in {"connected", "ready", "closing", "closed"} BY DEF Chan
  <2> HIDE DEF state
  <2>3. ask(d, op) \in Chan /\ ask(d, op).state = state BY <1>1, <2>1, <2>2 DEF Chan
  <2>4. /\ ask(d, op).newest = p.newest /\ ask(d, op).asked = p.asked
        /\ ask(d, op).failed = p.failed /\ ask(d, op).results = p.results
        /\ ask(d, op).synchronous = p.synchronous /\ ask(d, op).queue = p.queue
        /\ ask(d, op).handed = p.handed /\ ask(d, op).consumer = p.consumer
        /\ ask(d, op).oldest = p.oldest /\ ask(d, op).next = p.next
    BY <1>1, <2>1 DEF Chan
  <2>5. state = (IF Kind[op] \in Closings /\ Accepts(d) THEN "closing" ELSE d.state)
    BY <1>3 DEF state
  <2>6. Pushed(d, op, ask(d, op)) BY <1>1, <2>3, <2>4 DEF Pushed
  <2> QED BY <2>3, <2>5, <2>6
<1> QED BY <1>2, <1>3

-----------------------------------------------------------------------------
(* The frame at the broker: the last one that awaits an answer. *)
Awaited(d) == d.handed[Len(d.handed)]

Queued(d, op) == \E k \in DOMAIN d.queue : d.queue[k] = op

Underway(d, op) == op = Awaited(d) \/ Queued(d, op)

(* L are the operations that have not been reported.  Their frames go out  *)
(* one by one in the order they were asked for; those asked for while the  *)
(* channel closes are never sent, and come after the close() that will     *)
(* report them.                                                            *)
InTurn(d, L) ==
  d.synchronous =>
    /\ Len(d.handed) > 0
    /\ \/ Awaited(d) = Open
       \/ Awaited(d) \in L /\ \A op \in L \ {Awaited(d)} : AskedBefore(d, Awaited(d), op)

Idle(d, L) == ~d.synchronous => d.queue = <<>> /\ L = {}

QueueInOrder(d, L) ==
  /\ \A k \in DOMAIN d.queue : d.queue[k] \in Async \/ (d.queue[k] \in L /\ d.queue[k] # Awaited(d))
  /\ \A j, k \in DOMAIN d.queue :
       j < k /\ Synchronous(d.queue[j]) /\ Synchronous(d.queue[k]) =>
         AskedBefore(d, d.queue[j], d.queue[k])

Ends(d, L, op) == op \in L /\ Kind[op] \in Closings /\ Underway(d, op)

NoneStranded(d, L) ==
  /\ \A op \in L : Underway(d, op) \/ \E last \in L : Ends(d, L, last) /\ AskedBefore(d, last, op)
  /\ d.state = "closing" => \E last \in L : Ends(d, L, last)

FramesInv(d, L) == InTurn(d, L) /\ Idle(d, L) /\ QueueInOrder(d, L) /\ NoneStranded(d, L)

(* Every operation awaits an answer. *)
LEMMA OpsAreSynchronous ==
  ASSUME NEW op \in Ops
  PROVE  Synchronous(op) /\ op # Open /\ op # None /\ op \in Frames
BY CallsAssumption, ProgramAssumption DEF Synchronous, Async, Frames

(* What nothing but the list and the reports has changed in. *)
SameFrames(d, e) ==
  /\ e.state = d.state /\ e.synchronous = d.synchronous /\ e.queue = d.queue
  /\ e.handed = d.handed /\ e.asked = d.asked

LEMMA SameFramesInv ==
  ASSUME NEW d, NEW e, NEW L, SameFrames(d, e), FramesInv(d, L)
  PROVE  FramesInv(e, L)
<1>1. Awaited(e) = Awaited(d) /\ \A op : Queued(e, op) <=> Queued(d, op)
  BY DEF SameFrames, Awaited, Queued
<1>2. \A x, y : AskedBefore(e, x, y) <=> AskedBefore(d, x, y) BY DEF SameFrames, AskedBefore
<1>3. \A op : Underway(e, op) <=> Underway(d, op) BY <1>1 DEF Underway
<1>4. InTurn(e, L) BY <1>1, <1>2 DEF FramesInv, InTurn, SameFrames
<1>5. Idle(e, L) BY DEF FramesInv, Idle, SameFrames
<1>6. QueueInOrder(e, L) BY <1>1, <1>2 DEF FramesInv, QueueInOrder, SameFrames
<1>7. NoneStranded(e, L) BY <1>1, <1>2, <1>3 DEF FramesInv, NoneStranded, Ends, SameFrames
<1> QED BY <1>4, <1>5, <1>6, <1>7 DEF FramesInv

(* An operation that is asked for keeps the frames in turn. *)
LEMMA PushedFrames ==
  ASSUME NEW d \in Chan, Once(d), NEW L \in SUBSET Asked(d), FramesInv(d, L), d.state # "closed",
         NEW op \in Ops, op \notin Asked(d), NEW e, Pushed(d, op, e),
         e.state = IF Kind[op] \in Closings THEN "closing" ELSE d.state
  PROVE  FramesInv(e, L \cup {op})
<1> DEFINE M == L \cup {op}
<1>1. /\ Synchronous(op) /\ op # Open /\ op \in Frames BY OpsAreSynchronous
<1>2. /\ \A x, y : AskedBefore(e, x, y) <=> AskedBefore(d, x, y) \/ (x \in Asked(d) /\ y = op)
      /\ Once(e)
  BY BeforeAppended DEF Pushed
<1>3. L \subseteq Ops /\ op \notin L BY DEF Once, Asked, ToSet
<1>4. /\ d.queue \in Seq(Frames) /\ d.handed \in Seq(Frames) BY DEF Chan
<1>5. CASE d.state = "closing"
  <2>1. e.synchronous = d.synchronous /\ e.queue = d.queue /\ e.handed = d.handed
    BY <1>1, <1>5, SendKeeps DEF Pushed
  <2>2. Awaited(e) = Awaited(d) /\ \A x : Underway(e, x) <=> Underway(d, x)
    BY <2>1 DEF Awaited, Queued, Underway
  <2>3. PICK last \in L : Ends(d, L, last) BY <1>5 DEF FramesInv, NoneStranded
  <2>4. InTurn(e, M) BY <1>2, <2>1, <2>2 DEF FramesInv, InTurn
  <2>5. Idle(e, M) BY <2>1, <2>3 DEF FramesInv, Idle
  <2>6. QueueInOrder(e, M) BY <1>2, <2>1, <2>2 DEF FramesInv, QueueInOrder
  <2>7. \A x \in L : Ends(d, L, x) => Ends(e, M, x) BY <2>2 DEF Ends
  <2>8. NoneStranded(e, M) BY <1>2, <2>2, <2>3, <2>7 DEF FramesInv, NoneStranded
  <2> QED BY <2>4, <2>5, <2>6, <2>8 DEF FramesInv
<1>6. CASE d.state # "closing" /\ d.synchronous
  <2> DEFINE n == Len(d.queue)
  <2>0. d.state \notin {"closing", "closed"} /\ waiting(d) BY <1>6 DEF waiting
  <2>1. e.synchronous /\ e.queue = Append(d.queue, op) /\ e.handed = d.handed
    BY <1>1, <1>6, <2>0, SendKeeps DEF Pushed
  <2>2. /\ n \in Nat /\ DOMAIN d.queue = 1..n /\ DOMAIN e.queue = 1..(n + 1)
        /\ e.queue[n + 1] = op /\ \A k \in 1..n : e.queue[k] = d.queue[k]
    BY <1>1, <1>4, <2>1
  <2>3. Awaited(e) = Awaited(d) BY <2>1 DEF Awaited
  <2>4. \A x : Queued(e, x) <=> Queued(d, x) \/ x = op
    <3>1. \A k \in 1..(n + 1) : k \in 1..n \/ k = n + 1 BY <2>2
    <3>2. 1..n \subseteq 1..(n + 1) /\ n + 1 \in 1..(n + 1) BY <2>2
    <3> QED BY <2>2, <3>1, <3>2 DEF Queued
  <2>5. Awaited(d) # op BY <1>1, <1>3, <1>6 DEF FramesInv, InTurn
  <2>6. InTurn(e, M)
    <3>1. Len(e.handed) > 0 BY <1>6, <2>1 DEF FramesInv, InTurn
    <3> QED BY <1>2, <1>6, <2>3, <3>1 DEF FramesInv, InTurn
  <2>7. Idle(e, M) BY <2>1 DEF Idle
  <2>8. QueueInOrder(e, M)
    <3>1. ASSUME NEW k \in 1..(n + 1)
          PROVE  e.queue[k] \in Async \/ (e.queue[k] \in M /\ e.queue[k] # Awaited(e))
      <4>1. CASE k \in 1..n BY <2>2, <2>3, <4>1 DEF FramesInv, QueueInOrder
      <4>2. CASE k = n + 1 BY <2>2, <2>3, <2>5, <4>2
      <4> QED BY <2>2, <4>1, <4>2
    <3>2. ASSUME NEW j \in 1..(n + 1), NEW k \in 1..(n + 1), j < k,
                 Synchronous(e.queue[j]), Synchronous(e.queue[k])
          PROVE  AskedBefore(e, e.queue[j], e.queue[k])
      <4>1. j \in 1..n BY <2>2, <3>2
      <4>2. e.queue[j] = d.queue[j] /\ e.queue[j] \in L
        BY <2>2, <3>2, <4>1 DEF FramesInv, QueueInOrder, Synchronous
      <4>3. CASE k \in 1..n
        <5>1. e.queue[k] = d.queue[k] BY <2>2, <4>3
        <5>2. AskedBefore(d, d.queue[j], d.queue[k])
          BY <2>2, <3>2, <4>1, <4>2, <4>3, <5>1 DEF FramesInv, QueueInOrder
        <5> QED BY <1>2, <4>2, <5>1, <5>2
      <4>4. CASE k = n + 1 BY <1>2, <2>2, <4>2, <4>4
      <4> QED BY <2>2, <4>3, <4>4
    <3> QED BY <2>2, <3>1, <3>2 DEF QueueInOrder
  <2>9. \A x \in L : Ends(d, L, x) => Ends(e, M, x) BY <2>3, <2>4 DEF Ends, Underway
  <2>10. NoneStranded(e, M)
    <3>1. Underway(e, op) BY <2>4 DEF Underway
    <3>2. \A x \in L : Underway(d, x) => Underway(e, x) BY <2>3, <2>4 DEF Underway
    <3>3. e.state = "closing" => Ends(e, M, op) BY <1>6, <3>1 DEF Ends
    <3> QED BY <1>2, <2>9, <3>1, <3>2, <3>3 DEF FramesInv, NoneStranded
  <2> QED BY <2>6, <2>7, <2>8, <2>10 DEF FramesInv
<1>7. CASE d.state # "closing" /\ ~d.synchronous
  <2>1. d.queue = <<>> /\ L = {} BY <1>7 DEF FramesInv, Idle
  <2>0. d.state \notin {"closing", "closed"} /\ ~waiting(d) BY <1>7, <2>1 DEF waiting
  <2>2. e.synchronous /\ e.queue = d.queue /\ e.handed = Append(d.handed, op)
    BY <1>1, <2>0, SendKeeps DEF Pushed
  <2>3. Len(e.handed) > 0 /\ Awaited(e) = op BY <1>1, <1>4, <2>2 DEF Awaited
  <2>4. e.queue = <<>> /\ DOMAIN e.queue = {} BY <2>1, <2>2
  <2>5. InTurn(e, M) BY <2>1, <2>3 DEF InTurn
  <2>6. Idle(e, M) BY <2>2 DEF Idle
  <2>7. QueueInOrder(e, M) BY <2>4 DEF QueueInOrder
  <2>8. NoneStranded(e, M)
    <3>1. Underway(e, op) BY <2>3 DEF Underway
    <3>2. e.state = "closing" => Ends(e, M, op) BY <1>7, <3>1 DEF Ends
    <3> QED BY <2>1, <3>1, <3>2 DEF NoneStranded
  <2> QED BY <2>5, <2>6, <2>7, <2>8 DEF FramesInv
<1> QED BY <1>5, <1>6, <1>7

(* A publish or an acknowledgement awaits nothing. *)
LEMMA AsyncFrames ==
  ASSUME NEW d \in Chan, NEW L, FramesInv(d, L), d.state # "closed", NEW f \in Async
  PROVE  FramesInv(send(d, f), L)
<1> DEFINE e == send(d, f)
           n == Len(d.queue)
<1>1. ~Synchronous(f) /\ f \in Frames BY DEF Synchronous, Frames
<1>2. SameList(d, e) BY <1>1, SendKeeps
<1>3. d.queue \in Seq(Frames) BY DEF Chan
<1>4. \A x, y : AskedBefore(e, x, y) <=> AskedBefore(d, x, y) BY <1>2 DEF SameList, AskedBefore
<1>5. CASE d.state = "closing"
  <2>1. e = d BY <1>1, <1>5, SendKeeps
  <2> QED BY <2>1
<1>6. CASE d.state # "closing" /\ d.synchronous
  <2>0. d.state \notin {"closing", "closed"} /\ waiting(d) BY <1>6 DEF waiting
  <2>1. e.synchronous /\ e.queue = Append(d.queue, f) /\ e.handed = d.handed
    BY <1>1, <1>6, <2>0, SendKeeps
  <2>2. /\ n \in Nat /\ DOMAIN d.queue = 1..n /\ DOMAIN e.queue = 1..(n + 1)
        /\ e.queue[n + 1] = f /\ \A k \in 1..n : e.queue[k] = d.queue[k]
    BY <1>1, <1>3, <2>1
  <2>3. Awaited(e) = Awaited(d) BY <2>1 DEF Awaited
  <2>4. \A x : Queued(d, x) => Queued(e, x)
    <3>1. 1..n \subseteq 1..(n + 1) BY <2>2
    <3> QED BY <2>2, <3>1 DEF Queued
  <2>5. InTurn(e, L)
    <3>1. Len(e.handed) > 0 BY <1>6, <2>1 DEF FramesInv, InTurn
    <3> QED BY <1>4, <1>6, <2>3, <3>1 DEF FramesInv, InTurn
  <2>6. Idle(e, L) BY <2>1 DEF Idle
  <2>7. QueueInOrder(e, L)
    <3>1. ASSUME NEW k \in 1..(n + 1)
          PROVE  e.queue[k] \in Async \/ (e.queue[k] \in L /\ e.queue[k] # Awaited(e))
      <4>1. CASE k \in 1..n BY <2>2, <2>3, <4>1 DEF FramesInv, QueueInOrder
      <4>2. CASE k = n + 1 BY <2>2, <4>2
      <4> QED BY <2>2, <4>1, <4>2
    <3>2. ASSUME NEW j \in 1..(n + 1), NEW k \in 1..(n + 1), j < k,
                 Synchronous(e.queue[j]), Synchronous(e.queue[k])
          PROVE  AskedBefore(e, e.queue[j], e.queue[k])
      <4>1. k \in 1..n BY <1>1, <2>2, <3>2
      <4>2. j \in 1..n BY <2>2, <3>2
      <4>3. e.queue[j] = d.queue[j] /\ e.queue[k] = d.queue[k] BY <2>2, <4>1, <4>2
      <4> QED BY <1>4, <2>2, <3>2, <4>1, <4>2, <4>3 DEF FramesInv, QueueInOrder
    <3> QED BY <2>2, <3>1, <3>2 DEF QueueInOrder
  <2>8. NoneStranded(e, L)
    <3>1. \A x : Underway(d, x) => Underway(e, x) BY <2>3, <2>4 DEF Underway
    <3>2. \A x \in L : Ends(d, L, x) => Ends(e, L, x) BY <3>1 DEF Ends
    <3>3. e.state = d.state BY <1>2 DEF SameList
    <3> QED BY <1>4, <3>1, <3>2, <3>3 DEF FramesInv, NoneStranded
  <2> QED BY <2>5, <2>6, <2>7, <2>8 DEF FramesInv
<1>7. CASE d.state # "closing" /\ ~d.synchronous
  <2>1. d.queue = <<>> /\ L = {} BY <1>7 DEF FramesInv, Idle
  <2>0. d.state \notin {"closing", "closed"} /\ ~waiting(d) BY <1>7, <2>1 DEF waiting
  <2>2. ~e.synchronous /\ e.queue = d.queue BY <1>1, <2>0, SendKeeps
  <2>3. e.queue = <<>> /\ DOMAIN e.queue = {} BY <2>1, <2>2
  <2>4. InTurn(e, L) BY <2>2 DEF InTurn
  <2>5. Idle(e, L) BY <2>1, <2>2 DEF Idle
  <2>6. QueueInOrder(e, L) BY <2>3 DEF QueueInOrder
  <2>7. NoneStranded(e, L)
    <3>1. e.state # "closing" BY <1>2, <1>7 DEF SameList
    <3> QED BY <2>1, <3>1 DEF NoneStranded
  <2> QED BY <2>4, <2>5, <2>6, <2>7 DEF FramesInv
<1> QED BY <1>5, <1>6, <1>7

(* flush() hands over the queue up to the first frame that awaits an answer. *)
Handed(d, e, last) ==
  /\ DOMAIN e.handed = 1..(Len(d.handed) + last) /\ Len(e.handed) = Len(d.handed) + last
  /\ \A k \in 1..Len(d.handed) : e.handed[k] = d.handed[k]
  /\ \A k \in 1..last : e.handed[Len(d.handed) + k] = d.queue[k]

Kept(d, e, last) ==
  /\ DOMAIN e.queue = 1..(Len(d.queue) - last) /\ Len(e.queue) = Len(d.queue) - last
  /\ \A k \in 1..(Len(d.queue) - last) : e.queue[k] = d.queue[last + k]

Flushed(d, e, last) ==
  /\ last \in 0..Len(d.queue)
  /\ Handed(d, e, last) /\ Kept(d, e, last)
  /\ \A k \in 1..Len(d.queue) : Synchronous(d.queue[k]) => last <= k
  /\ IF e.synchronous THEN last > 0 /\ Synchronous(d.queue[last])
     ELSE last = Len(d.queue) /\ \A k \in 1..last : ~Synchronous(d.queue[k])

(* flush() does what Flushed says. *)
LEMMA FlushKeeps ==
  ASSUME NEW d \in Chan
  PROVE  /\ flush(d) \in Chan /\ SameList(d, flush(d))
         /\ \E last \in 0..Len(d.queue) : Flushed(d, flush(d), last)
<1> DEFINE e     == flush(d)
           n     == Len(d.queue)
           m     == Len(d.handed)
           stops == {k \in DOMAIN d.queue : Synchronous(d.queue[k])}
           last  == IF stops = {} THEN n ELSE CHOOSE k \in stops : \A j \in stops : k <= j
           front == SubSeq(d.queue, 1, last)
           rest  == SubSeq(d.queue, last + 1, n)
           waits == stops # {}
<1>1. /\ d.queue \in Seq(Frames) /\ d.handed \in Seq(Frames)
      /\ n \in Nat /\ m \in Nat /\ DOMAIN d.queue = 1..n /\ DOMAIN d.handed = 1..m
  BY DEF Chan
<1>2. stops # {} => last \in stops /\ \A j \in stops : last <= j
  <2> SUFFICES ASSUME stops # {} PROVE last \in stops /\ \A j \in stops : last <= j OBVIOUS
  <2>1. stops \in SUBSET Nat BY <1>1
  <2>2. \E k \in stops : \A j \in stops : k <= j BY <2>1, Least
  <2> QED BY <2>2
<1>3. last \in 0..n BY <1>1, <1>2
<1>4. e = [d EXCEPT !.synchronous = waits, !.handed = d.handed \o front, !.queue = rest]
  BY DEF flush, Chan
<1> HIDE DEF last
<1>5. /\ front \in Seq(Frames) /\ Len(front) = last /\ \A k \in 1..last : front[k] = d.queue[k]
  BY <1>1, <1>3
<1>6. /\ rest \in Seq(Frames) /\ Len(rest) = n - last
      /\ \A k \in 1..(n - last) : rest[k] = d.queue[last + k]
  BY <1>1, <1>3
<1> HIDE DEF front, rest
<1>7. /\ d.handed \o front \in Seq(Frames) /\ waits \in BOOLEAN
  BY <1>1, <1>5
<1> HIDE DEF waits
<1>8. e \in Chan BY <1>4, <1>6, <1>7 DEF Chan
<1>9. SameList(d, e) BY <1>4 DEF Chan, SameList
<1>10. e.handed = d.handed \o front /\ e.queue = rest /\ e.synchronous = waits
  BY <1>4, <1>6, <1>7 DEF Chan
<1>11. Handed(d, e, last)
  <2>1. Len(d.handed \o front) = m + last /\ DOMAIN (d.handed \o front) = 1..(m + last)
    BY <1>1, <1>3, <1>5, SMTT(30)
  <2>2. \A k \in 1..m : (d.handed \o front)[k] = d.handed[k] BY <1>1, <1>3, <1>5
  <2>3. \A k \in 1..last : (d.handed \o front)[m + k] = d.queue[k] BY <1>1, <1>3, <1>5
  <2> QED BY <1>10, <2>1, <2>2, <2>3 DEF Handed
<1>12. Kept(d, e, last) BY <1>1, <1>3, <1>6, <1>10 DEF Kept
<1>13. \A k \in 1..n : Synchronous(d.queue[k]) => last <= k
  BY <1>1, <1>2
<1>14. IF waits THEN last > 0 /\ Synchronous(d.queue[last])
       ELSE last = n /\ \A k \in 1..last : ~Synchronous(d.queue[k])
  <2>1. CASE stops # {} BY <1>1, <1>2, <2>1 DEF waits
  <2>2. CASE stops = {}
    <3>1. last = n BY <2>2 DEF last
    <3> QED BY <1>1, <2>2, <3>1 DEF waits
  <2> QED BY <2>1, <2>2
<1>15. Flushed(d, e, last) BY <1>3, <1>10, <1>11, <1>12, <1>13, <1>14 DEF Flushed
<1> QED BY <1>3, <1>8, <1>9, <1>15

(* With the answer to the awaited frame the next operation's frame leaves. *)
LEMMA FlushedFrames ==
  ASSUME NEW d \in Chan, Once(d), NEW L \in SUBSET Asked(d), FramesInv(d, L), d.synchronous,
         Awaited(d) \in L => Kind[Awaited(d)] \notin Closings
  PROVE  FramesInv(flush(d), L \ {Awaited(d)})
<1> DEFINE e == flush(d)
           n == Len(d.queue)
           M == L \ {Awaited(d)}
<1>1. e \in Chan /\ SameList(d, e) BY FlushKeeps
<1>2. PICK last \in 0..n : Flushed(d, e, last) BY FlushKeeps
<1> HIDE DEF e
<1>3. /\ d.queue \in Seq(Frames) /\ n \in Nat /\ DOMAIN d.queue = 1..n
      /\ last \in Nat /\ last <= n /\ Len(d.handed) \in Nat
  BY <1>2 DEF Chan
<1>4. \A x, y : AskedBefore(e, x, y) <=> AskedBefore(d, x, y) BY <1>1 DEF SameList, AskedBefore
<1>5. e.state = d.state BY <1>1 DEF SameList
<1>6. L \subseteq Ops BY DEF Once, Asked, ToSet
<1>7. \A x \in L : Synchronous(x) BY <1>6, OpsAreSynchronous
<1>8. \A k \in 1..n : d.queue[k] \in Async \/ d.queue[k] \in M
  BY <1>3 DEF FramesInv, QueueInOrder
<1>9. ASSUME NEW x \in M, Underway(d, x)
      PROVE  \E k \in 1..n : d.queue[k] = x /\ last <= k
  <2>1. Queued(d, x) BY <1>9 DEF Underway
  <2>2. PICK k \in 1..n : d.queue[k] = x BY <1>3, <2>1 DEF Queued
  <2>3. last <= k BY <1>2, <1>7, <2>2 DEF Flushed
  <2> QED BY <2>2, <2>3
<1>10. ASSUME NEW x \in L, Ends(d, L, x) PROVE x \in M
  BY <1>10 DEF Ends
<1>11. CASE ~e.synchronous
  <2>1. last = n /\ \A k \in 1..n : ~Synchronous(d.queue[k]) BY <1>2, <1>11 DEF Flushed
  <2>2. \A x \in M : ~Underway(d, x) BY <1>7, <1>9, <2>1
  <2>3. \A x \in L : ~Ends(d, L, x) BY <1>10, <2>2 DEF Ends
  <2>4. M = {} BY <2>2, <2>3 DEF FramesInv, NoneStranded
  <2>5. DOMAIN e.queue = {} BY <1>2, <1>3, <2>1 DEF Flushed, Kept
  <2>6. e.queue = <<>>
    <3>1. e.queue \in Seq(Frames) BY <1>1 DEF Chan
    <3>2. Len(e.queue) = 0 BY <1>2, <1>3, <2>1 DEF Flushed, Kept
    <3> QED BY <3>1, <3>2, EmptySeq
  <2>7. e.state # "closing" BY <1>5, <2>3 DEF FramesInv, NoneStranded
  <2>8. InTurn(e, M) /\ Idle(e, M) BY <1>11, <2>4, <2>6 DEF InTurn, Idle
  <2>9. QueueInOrder(e, M) BY <2>5 DEF QueueInOrder
  <2>10. NoneStranded(e, M) BY <2>4, <2>7 DEF NoneStranded
  <2> QED BY <2>8, <2>9, <2>10 DEF FramesInv, e
<1>12. CASE e.synchronous
  <2>1. last > 0 /\ Synchronous(d.queue[last]) BY <1>2, <1>12 DEF Flushed
  <2>2. Len(e.handed) > 0 /\ Awaited(e) = d.queue[last]
    <3>1. Len(e.handed) = Len(d.handed) + last /\ last \in 1..last BY <1>2, <1>3, <2>1 DEF Flushed, Handed
    <3>2. e.handed[Len(d.handed) + last] = d.queue[last] BY <1>2, <3>1 DEF Flushed, Handed
    <3> QED BY <1>3, <2>1, <3>1, <3>2 DEF Awaited
  <2>3. Awaited(e) \in M BY <1>3, <1>8, <2>1, <2>2 DEF Synchronous
  <2>4. \A k \in 1..n : Synchronous(d.queue[k]) /\ last < k => AskedBefore(d, d.queue[last], d.queue[k])
    BY <1>3, <2>1 DEF FramesInv, QueueInOrder
  <2>5. ASSUME NEW x \in M, Underway(d, x), x # Awaited(e)
        PROVE  AskedBefore(d, Awaited(e), x) /\ \E k \in 1..n : last < k /\ d.queue[k] = x
    <3>1. PICK k \in 1..n : d.queue[k] = x /\ last <= k BY <1>9, <2>5
    <3>2. last < k BY <1>3, <2>2, <2>5, <3>1
    <3> QED BY <1>7, <2>2, <2>4, <3>1, <3>2
  <2>6. ASSUME NEW x \in M, Underway(d, x) PROVE Underway(e, x)
    <3>1. CASE x = Awaited(e) BY <3>1 DEF Underway
    <3>2. CASE x # Awaited(e)
      <4>1. PICK k \in 1..n : last < k /\ d.queue[k] = x BY <2>5, <2>6, <3>2
      <4>2. k - last \in 1..(n - last) /\ last + (k - last) = k BY <1>3, <4>1
      <4>3. k - last \in DOMAIN e.queue /\ e.queue[k - last] = x
        BY <1>2, <4>1, <4>2 DEF Flushed, Kept
      <4> QED BY <4>3 DEF Underway, Queued
    <3> QED BY <3>1, <3>2
  <2>7. \A x \in L : Ends(d, L, x) => Ends(e, M, x) BY <1>10, <2>6 DEF Ends
  <2>8. ASSUME NEW x \in M, x # Awaited(e) PROVE AskedBefore(d, Awaited(e), x)
    <3>1. CASE Underway(d, x) BY <2>5, <2>8, <3>1
    <3>2. CASE ~Underway(d, x)
      <4>1. PICK y \in L : Ends(d, L, y) /\ AskedBefore(d, y, x)
        BY <3>2 DEF FramesInv, NoneStranded
      <4>2. y \in M /\ Underway(d, y) BY <1>10, <4>1 DEF Ends
      <4> QED BY <2>5, <4>1, <4>2, BeforeTransitive
    <3> QED BY <3>1, <3>2
  <2>9. InTurn(e, M) BY <1>4, <2>2, <2>3, <2>8 DEF InTurn
  <2>10. Idle(e, M) BY <1>12 DEF Idle
  <2>11. QueueInOrder(e, M)
    <3>1. DOMAIN e.queue = 1..(n - last) /\ \A k \in 1..(n - last) : e.queue[k] = d.queue[last + k]
      BY <1>2 DEF Flushed, Kept
    <3>2. ASSUME NEW k \in 1..(n - last)
          PROVE  e.queue[k] \in Async \/ (e.queue[k] \in M /\ e.queue[k] # Awaited(e))
      <4>1. last + k \in 1..n /\ last < last + k BY <1>3
      <4>2. e.queue[k] = d.queue[last + k] BY <3>1
      <4>3. CASE d.queue[last + k] \in Async BY <4>2, <4>3
      <4>4. CASE d.queue[last + k] \in M
        <5>1. Synchronous(d.queue[last + k]) BY <1>7, <4>4
        <5>2. AskedBefore(d, d.queue[last], d.queue[last + k]) BY <2>4, <4>1, <5>1
        <5>3. d.queue[last] # d.queue[last + k] BY <5>2, BeforeStrict
        <5> QED BY <2>2, <4>2, <4>4, <5>3
      <4> QED BY <1>8, <4>1, <4>3, <4>4
    <3>3. ASSUME NEW j \in 1..(n - last), NEW k \in 1..(n - last), j < k,
                 Synchronous(e.queue[j]), Synchronous(e.queue[k])
          PROVE  AskedBefore(e, e.queue[j], e.queue[k])
      <4>1. last + j \in 1..n /\ last + k \in 1..n /\ last + j < last + k BY <1>3, <3>3
      <4>2. e.queue[j] = d.queue[last + j] /\ e.queue[k] = d.queue[last + k] BY <3>1
      <4>3. AskedBefore(d, d.queue[last + j], d.queue[last + k])
        BY <1>3, <3>3, <4>1, <4>2 DEF FramesInv, QueueInOrder
      <4> QED BY <1>4, <4>2, <4>3
    <3> QED BY <3>1, <3>2, <3>3 DEF QueueInOrder
  <2>12. NoneStranded(e, M)
    <3>1. ASSUME NEW x \in M
          PROVE  Underway(e, x) \/ \E y \in M : Ends(e, M, y) /\ AskedBefore(e, y, x)
      <4>1. CASE Underway(d, x) BY <2>6, <4>1
      <4>2. CASE ~Underway(d, x)
        <5>1. PICK y \in L : Ends(d, L, y) /\ AskedBefore(d, y, x)
          BY <4>2 DEF FramesInv, NoneStranded
        <5> QED BY <1>4, <1>10, <2>7, <5>1
      <4> QED BY <4>1, <4>2
    <3>2. e.state = "closing" => \E y \in M : Ends(e, M, y)
      BY <1>5, <1>10, <2>7 DEF FramesInv, NoneStranded
    <3> QED BY <3>1, <3>2 DEF NoneStranded
  <2> QED BY <2>9, <2>10, <2>11, <2>12 DEF FramesInv, e
<1> QED BY <1>11, <1>12

-----------------------------------------------------------------------------
(* Of the frames the broker has not dealt with only the last awaits an     *)
(* answer.                                                                 *)
OnlyLast(d, n) ==
  \A k \in DOMAIN d.handed : k > n /\ Synchronous(d.handed[k]) => k = Len(d.handed) /\ d.synchronous

NoneLeft(d, n) == \A k \in DOMAIN d.handed : k > n => ~Synchronous(d.handed[k])

(* When everything was answered, whatever is sent next is the only one. *)
LEMMA OnlyLastSend ==
  ASSUME NEW d \in Chan, NEW n \in Nat, OnlyLast(d, n), NEW f \in Frames, Len(d.handed) >= n
  PROVE  OnlyLast(send(d, f), n) /\ Len(send(d, f).handed) >= n
<1> DEFINE e == send(d, f)
           m == Len(d.handed)
<1>1. d.handed \in Seq(Frames) /\ m \in Nat /\ DOMAIN d.handed = 1..m BY DEF Chan
<1>2. CASE d.state \notin {"closing", "closed"} /\ ~waiting(d)
  <2>1. e.handed = Append(d.handed, f) /\ e.synchronous = Synchronous(f) /\ ~d.synchronous
    BY <1>2, SendKeeps DEF waiting
  <2>2. /\ Len(e.handed) = m + 1 /\ DOMAIN e.handed = 1..(m + 1) /\ e.handed[m + 1] = f
        /\ \A k \in 1..m : e.handed[k] = d.handed[k]
    BY <1>1, <2>1
  <2>3. ASSUME NEW k \in 1..(m + 1), k > n, Synchronous(e.handed[k])
        PROVE  k = m + 1 /\ e.synchronous
    <3>1. k \notin 1..m BY <1>1, <2>1, <2>2, <2>3 DEF OnlyLast
    <3>2. k = m + 1 BY <1>1, <3>1
    <3> QED BY <2>1, <2>2, <2>3, <3>2
  <2> QED BY <1>1, <2>2, <2>3 DEF OnlyLast
<1>3. CASE d.state \notin {"closing", "closed"} /\ waiting(d)
  <2>1. e.handed = d.handed /\ e.synchronous = d.synchronous BY <1>3, SendKeeps
  <2> QED BY <2>1 DEF OnlyLast
<1>4. CASE d.state \in {"closing", "closed"}
  <2>1. e = d BY <1>4, SendKeeps
  <2> QED BY <2>1
<1> QED BY <1>2, <1>3, <1>4

(* The same for what flush() hands over. *)
LEMMA OnlyLastFlush ==
  ASSUME NEW d \in Chan, NEW n \in Nat, NoneLeft(d, n), Len(d.handed) >= n
  PROVE  OnlyLast(flush(d), n) /\ Len(flush(d).handed) >= n
<1> DEFINE e == flush(d)
           m == Len(d.handed)
<1>1. PICK last \in 0..Len(d.queue) : Flushed(d, e, last) BY FlushKeeps
<1>2. /\ d.handed \in Seq(Frames) /\ m \in Nat /\ DOMAIN d.handed = 1..m
      /\ d.queue \in Seq(Frames) /\ Len(d.queue) \in Nat /\ last \in Nat
  BY DEF Chan
<1> HIDE DEF e
<1>3. Len(e.handed) = m + last /\ DOMAIN e.handed = 1..(m + last) BY <1>1 DEF Flushed, Handed
<1>4. ASSUME NEW k \in 1..(m + last), k > n, Synchronous(e.handed[k])
      PROVE  k = m + last /\ e.synchronous
  <2>1. k \notin 1..m
    <3> SUFFICES ASSUME k \in 1..m PROVE FALSE OBVIOUS
    <3>1. e.handed[k] = d.handed[k] BY <1>1 DEF Flushed, Handed
    <3> QED BY <1>2, <1>4, <3>1 DEF NoneLeft
  <2>2. PICK j \in 1..last : k = m + j
    <3>1. k - m \in 1..last /\ k = m + (k - m) BY <1>2, <2>1
    <3> QED BY <3>1
  <2>3. e.handed[k] = d.queue[j] /\ j \in 1..Len(d.queue)
    BY <1>1, <1>2, <2>2 DEF Flushed, Handed
  <2>4. last <= j /\ e.synchronous BY <1>1, <1>2, <1>4, <2>2, <2>3 DEF Flushed
  <2> QED BY <1>2, <2>2, <2>4
<1> QED BY <1>2, <1>3, <1>4 DEF OnlyLast, e

(* As long as the channel waits, a frame that awaits an answer is still to *)
(* be dealt with.                                                          *)
Owed(d, n) == d.synchronous => ~NoneLeft(d, n)

(* Owed: while the channel waits, what it waits for is not dealt with. *)
LEMMA OwedSend ==
  ASSUME NEW d \in Chan, NEW n \in Nat, NEW f \in Frames, Len(d.handed) >= n
  PROVE  /\ Owed(d, n) => Owed(send(d, f), n)
         /\ d.synchronous => send(d, f).synchronous /\ send(d, f).handed = d.handed
<1> DEFINE e == send(d, f)
           m == Len(d.handed)
<1>1. d.handed \in Seq(Frames) /\ m \in Nat /\ DOMAIN d.handed = 1..m BY DEF Chan
<1>2. CASE d.state \notin {"closing", "closed"} /\ ~waiting(d)
  <2>1. e.handed = Append(d.handed, f) /\ e.synchronous = Synchronous(f) /\ ~d.synchronous
    BY <1>2, SendKeeps DEF waiting
  <2>2. m + 1 \in DOMAIN e.handed /\ e.handed[m + 1] = f /\ m + 1 > n BY <1>1, <2>1
  <2> QED BY <2>1, <2>2 DEF Owed, NoneLeft
<1>3. CASE d.state \notin {"closing", "closed"} /\ waiting(d)
  <2>1. e.handed = d.handed /\ e.synchronous = d.synchronous BY <1>3, SendKeeps
  <2> QED BY <2>1 DEF Owed, NoneLeft
<1>4. CASE d.state \in {"closing", "closed"}
  <2>1. e = d BY <1>4, SendKeeps
  <2> QED BY <2>1
<1> QED BY <1>2, <1>3, <1>4

LEMMA OwedFlush ==
  ASSUME NEW d \in Chan, NEW n \in Nat, Len(d.handed) >= n
  PROVE  Owed(flush(d), n)
<1> DEFINE e == flush(d)
           m == Len(d.handed)
<1>1. PICK last \in 0..Len(d.queue) : Flushed(d, e, last) BY FlushKeeps
<1>2. m \in Nat /\ Len(d.queue) \in Nat BY DEF Chan
<1> HIDE DEF e
<1> SUFFICES ASSUME e.synchronous PROVE ~NoneLeft(e, n) BY DEF Owed, e
<1>3. last > 0 /\ Synchronous(d.queue[last]) BY <1>1 DEF Flushed
<1>4. m + last \in DOMAIN e.handed /\ e.handed[m + last] = d.queue[last] /\ m + last > n
  <2>1. last \in 1..last /\ m + last \in 1..(m + last) /\ m + last > n BY <1>2, <1>3
  <2> QED BY <1>1, <2>1 DEF Flushed, Handed
<1> QED BY <1>3, <1>4 DEF NoneLeft

-----------------------------------------------------------------------------
(* What is left to be reported; why an operation was asked for. *)
Left(d) == {op \in Asked(d) : d.results[op] = <<>>}

Reports(d) ==
  \A op \in Ops : /\ d.results[op] = <<>> \/ Len(d.results[op]) = 1
                  /\ op \notin Asked(d) => d.results[op] = <<>>

Reason(d, op) ==
  \/ op \in ToSet(Start) \cup Extras
  \/ \E other \in Asked(d) : d.results[other] # <<>> /\ op \in ToSet(Program[other])

Reasoned(d) == \A op \in Asked(d) : Reason(d, op)

(* A channel at work: the list holds what is left and, while its callback  *)
(* runs, the operation in X; n frames were dealt with by the broker.       *)
Working(d, X, n) ==
  /\ d \in Chan /\ Once(d) /\ Reports(d) /\ Reasoned(d)
  /\ X \subseteq Asked(d) /\ Listed(d, Left(d) \cup X) /\ (X # {} => d.oldest \in X)
  /\ n \in Nat /\ OnlyLast(d, n) /\ Len(d.handed) >= n
  /\ d.state # "closed" => FramesInv(d, Left(d))

LEMMA LeftAsked == ASSUME NEW d PROVE Left(d) \subseteq Asked(d)
BY DEF Left

LEMMA AskedOps == ASSUME NEW d, Once(d) PROVE Asked(d) \subseteq Ops
BY DEF Once, Asked, ToSet

(* Asking for one operation more. *)
LEMMA AskWorking ==
  ASSUME NEW d, NEW X, NEW n, Working(d, X, n),
         NEW op \in Ops, op \notin Asked(d), Reason(d, op),
         d.state = "closed" => Kind[op] \in Gets
  PROVE  LET e == ask(d, op)
         IN  /\ Working(e, X, n) /\ Asked(e) = Asked(d) \cup {op} /\ e.results = d.results
             /\ (e.state = "closed" <=> d.state = "closed") /\ (Owed(d, n) => Owed(e, n))
<1> DEFINE e == ask(d, op)
<1>1. /\ Pushed(d, op, e)
      /\ e.state = IF Kind[op] \in Closings /\ Accepts(d) THEN "closing" ELSE d.state
  BY AskKeeps DEF Working
<1> HIDE DEF e
<1>2. e.state = "closed" <=> d.state = "closed" BY <1>1 DEF Accepts
<1>3. e.results = d.results BY <1>1 DEF Pushed, Accepts
<1>4. Once(e) /\ Asked(e) = Asked(d) \cup {op} BY <1>1, BeforeAppended DEF Pushed, Working
<1>5. Left(e) = Left(d) \cup {op} BY <1>3, <1>4 DEF Left, Working, Reports
<1>6. Reports(e) BY <1>3, <1>4 DEF Reports, Working
<1>7. Reasoned(e)
  <2>1. \A x : Reason(d, x) => Reason(e, x) BY <1>3, <1>4 DEF Reason
  <2> QED BY <1>4, <2>1 DEF Reasoned, Working
<1>8. Listed(e, (Left(d) \cup X) \cup {op})
  <2>1. Left(d) \cup X \in SUBSET Asked(d) BY LeftAsked DEF Working
  <2>2. DOMAIN d.next = Ops BY DEF Working, Chan
  <2> QED BY <1>1, <2>1, <2>2, ListedLinked DEF Pushed, Working
<1>9. Listed(e, Left(e) \cup X)
  <2>1. Left(e) \cup X = (Left(d) \cup X) \cup {op} BY <1>5
  <2> QED BY <1>8, <2>1
<1>10. X # {} => e.oldest \in X
  <2> SUFFICES ASSUME X # {} PROVE e.oldest \in X OBVIOUS
  <2>1. d.oldest \in X /\ d.oldest # None
    BY AskedOps, ProgramAssumption DEF Working
  <2> QED BY <1>1, <2>1 DEF Pushed
<1>11. OnlyLast(e, n) /\ Len(e.handed) >= n
  <2>1. OnlyLast(send(d, op), n) /\ Len(send(d, op).handed) >= n
    BY OnlyLastSend, OpsAreSynchronous DEF Working
  <2> QED BY <1>1, <2>1 DEF Pushed, OnlyLast
<1>12. e.state # "closed" => FramesInv(e, Left(e))
  <2> SUFFICES ASSUME e.state # "closed" PROVE FramesInv(e, Left(e)) OBVIOUS
  <2>1. e.state = IF Kind[op] \in Closings THEN "closing" ELSE d.state
    BY <1>1, <1>2 DEF Accepts
  <2>2. FramesInv(d, Left(d)) /\ Left(d) \in SUBSET Asked(d) BY <1>2, LeftAsked DEF Working
  <2>3. FramesInv(e, Left(d) \cup {op}) BY <1>1, <1>2, <2>1, <2>2, PushedFrames DEF Working
  <2> QED BY <1>5, <2>3
<1>13. Working(e, X, n)
  BY <1>1, <1>4, <1>6, <1>7, <1>9, <1>10, <1>11, <1>12 DEF Working, Pushed
<1>14. Owed(d, n) => Owed(e, n)
  <2>1. Owed(d, n) => Owed(send(d, op), n) BY OwedSend, OpsAreSynchronous DEF Working
  <2> QED BY <1>1, <2>1 DEF Pushed, Owed, NoneLeft
<1> QED BY <1>2, <1>3, <1>4, <1>13, <1>14 DEF e

(* The recursion of askAll() defines a function. *)
IsAsked(f, d, ops, n) == f = [k \in 0..n |-> IF k = 0 THEN d ELSE ask(f[k - 1], ops[k])]

(* The recursive function of askAll() exists: without it nothing follows. *)
LEMMA AskedExists ==
  ASSUME NEW d, NEW ops, NEW n \in Nat
  PROVE  \E f : IsAsked(f, d, ops, n)
<1> DEFINE Bad == {m \in Nat : ~\E f : IsAsked(f, d, ops, m)}
<1> SUFFICES ASSUME Bad # {} PROVE FALSE BY DEF Bad
<1>1. PICK m \in Bad : \A k \in Bad : m <= k
  <2>1. Bad \in SUBSET Nat BY DEF Bad
  <2> HIDE DEF Bad
  <2> QED BY <2>1, Least
<1>2. m \in Nat /\ ~\E f : IsAsked(f, d, ops, m) BY DEF Bad
<1>3. CASE m = 0
  <2> DEFINE f == [k \in 0..0 |-> d]
  <2>1. IsAsked(f, d, ops, 0) BY DEF IsAsked
  <2> HIDE DEF f
  <2> QED BY <1>2, <1>3, <2>1
<1>4. CASE m # 0
  <2>1. PICK l \in Nat : l = m - 1 BY <1>2, <1>4
  <2>2. l \notin Bad BY <1>1, <1>2, <2>1
  <2>3. PICK f : IsAsked(f, d, ops, l) BY <2>2 DEF Bad
  <2> DEFINE g == [k \in 0..m |-> IF k = m THEN ask(f[l], ops[m]) ELSE f[k]]
  <2>4. ASSUME NEW k \in 0..m PROVE g[k] = IF k = 0 THEN d ELSE ask(g[k - 1], ops[k])
    <3>1. CASE k = m
      <4>1. g[k] = ask(f[l], ops[m]) /\ l \in 0..m /\ l # m BY <1>2, <2>1, <3>1
      <4>2. g[l] = f[l] BY <4>1
      <4>3. k - 1 = l BY <2>1, <3>1
      <4> QED BY <1>4, <3>1, <4>1, <4>2, <4>3
    <3>2. CASE k # m
      <4>1. k \in 0..l /\ g[k] = f[k] BY <1>2, <2>1, <3>2
      <4>2. f[k] = IF k = 0 THEN d ELSE ask(f[k - 1], ops[k]) BY <2>3, <4>1 DEF IsAsked
      <4>3. CASE k = 0 BY <4>1, <4>2, <4>3
      <4>4. CASE k # 0
        <5>1. k - 1 \in 0..m /\ k - 1 # m BY <1>2, <3>2, <4>4
        <5>2. g[k - 1] = f[k - 1] BY <5>1
        <5> QED BY <4>1, <4>2, <4>4, <5>2
      <4> QED BY <4>3, <4>4
    <3> QED BY <3>1, <3>2
  <2>5. g = [k \in 0..m |-> g[k]] OBVIOUS
  <2> HIDE DEF g
  <2>6. IsAsked(g, d, ops, m) BY <2>4, <2>5 DEF IsAsked
  <2> QED BY <1>2, <2>6
<1> QED BY <1>3, <1>4

(* What askAll() does, one call after the other. *)
LEMMA AskAllUnfolds ==
  ASSUME NEW d, NEW ops, Len(ops) \in Nat
  PROVE  \E f : /\ askAll(d, ops) = f[Len(ops)] /\ f[0] = d
                /\ \A k \in 1..Len(ops) : f[k] = ask(f[k - 1], ops[k])
<1> DEFINE f == CHOOSE g : g = [k \in 0..Len(ops) |-> IF k = 0 THEN d ELSE ask(g[k - 1], ops[k])]
<1>1. IsAsked(f, d, ops, Len(ops)) BY AskedExists DEF IsAsked
<1>2. askAll(d, ops) = f[Len(ops)] BY DEF askAll
<1> HIDE DEF f
<1>3. f[0] = d /\ \A k \in 1..Len(ops) : f[k] = ask(f[k - 1], ops[k]) BY <1>1 DEF IsAsked
<1> QED BY <1>2, <1>3

(* Asking for some, each for a reason. *)
LEMMA AskAllWorking ==
  ASSUME NEW d, NEW X, NEW n, Working(d, X, n),
         NEW ops \in Seq(Ops), IsInjective(ops), ToSet(ops) \cap Asked(d) = {},
         \A op \in ToSet(ops) : Reason(d, op),
         d.state = "closed" => \A op \in ToSet(ops) : Kind[op] \in Gets
  PROVE  LET e == askAll(d, ops)
         IN  /\ Working(e, X, n) /\ e.results = d.results
             /\ (e.state = "closed" <=> d.state = "closed") /\ (Owed(d, n) => Owed(e, n))
<1> DEFINE m == Len(ops)
<1>1. m \in Nat /\ DOMAIN ops = 1..m /\ \A k \in 1..m : ops[k] \in Ops /\ ops[k] \in ToSet(ops)
  BY DEF ToSet
<1>2. PICK f : /\ askAll(d, ops) = f[m] /\ f[0] = d
               /\ \A k \in 1..m : f[k] = ask(f[k - 1], ops[k])
  BY <1>1, AskAllUnfolds
<1> DEFINE So(k) == /\ Working(f[k], X, n) /\ f[k].results = d.results /\ (Owed(d, n) => Owed(f[k], n))
                    /\ (f[k].state = "closed" <=> d.state = "closed")
                    /\ Asked(f[k]) = Asked(d) \cup {ops[i] : i \in 1..k}
           Bad   == {k \in 0..m : ~So(k)}
<1>3. So(0) BY <1>2
<1>4. ASSUME NEW k \in 1..m, So(k - 1) PROVE So(k)
  <2> DEFINE g == f[k - 1]
             op == ops[k]
  <2>1. Working(g, X, n) /\ g.results = d.results /\ (g.state = "closed" <=> d.state = "closed")
    BY <1>4
  <2>2. Asked(g) = Asked(d) \cup {ops[i] : i \in 1..(k - 1)} BY <1>4
  <2>3. op \in Ops /\ op \in ToSet(ops) BY <1>1
  <2>4. op \notin Asked(g)
    <3>1. \A i \in 1..(k - 1) : i \in DOMAIN ops /\ i # k BY <1>1
    <3>2. \A i \in 1..(k - 1) : ops[i] # op BY <1>1, <3>1 DEF IsInjective
    <3> QED BY <2>2, <2>3, <3>2
  <2>5. Reason(g, op)
    <3>1. Reason(d, op) BY <2>3
    <3> QED BY <2>1, <2>2, <3>1 DEF Reason
  <2>6. g.state = "closed" => Kind[op] \in Gets BY <2>1, <2>3
  <2>7. f[k] = ask(g, op) BY <1>2
  <2> HIDE DEF g, op
  <2>8. /\ Working(f[k], X, n) /\ Asked(f[k]) = Asked(g) \cup {op} /\ f[k].results = g.results
        /\ (f[k].state = "closed" <=> g.state = "closed") /\ (Owed(g, n) => Owed(f[k], n))
    BY <2>1, <2>3, <2>4, <2>5, <2>6, <2>7, AskWorking
  <2>9. {ops[i] : i \in 1..(k - 1)} \cup {op} = {ops[i] : i \in 1..k}
    <3>1. \A i \in 1..k : i \in 1..(k - 1) \/ i = k OBVIOUS
    <3>2. \A i \in 1..(k - 1) : i \in 1..k OBVIOUS
    <3>3. k \in 1..k OBVIOUS
    <3> QED BY <3>1, <3>2, <3>3 DEF op
  <2> QED BY <1>4, <2>2, <2>8, <2>9 DEF g
<1> HIDE DEF So
<1>5. Bad = {}
  <2> SUFFICES ASSUME Bad # {} PROVE FALSE OBVIOUS
  <2>1. Bad \in SUBSET Nat BY <1>1
  <2>2. PICK k \in Bad : \A j \in Bad : k <= j BY <2>1, Least
  <2>3. k \in 1..m BY <1>1, <1>3, <2>2
  <2>4. k - 1 \in 0..m /\ k - 1 \notin Bad BY <1>1, <2>2, <2>3
  <2> QED BY <1>4, <2>2, <2>3, <2>4
<1>6. So(m) BY <1>1, <1>5
<1> QED BY <1>2, <1>6 DEF So

-----------------------------------------------------------------------------
(* flush() leaves the operations as they are. *)
LEMMA FlushSame ==
  ASSUME NEW d \in Chan
  PROVE  LET e == flush(d)
         IN  /\ e \in Chan /\ SameList(d, e) /\ Asked(e) = Asked(d) /\ Left(e) = Left(d)
             /\ (Once(d) => Once(e)) /\ (Reports(d) => Reports(e)) /\ (Reasoned(d) => Reasoned(e))
             /\ \A S : Listed(d, S) => Listed(e, S)
<1> DEFINE e == flush(d)
<1>1. e \in Chan /\ SameList(d, e) BY FlushKeeps
<1> HIDE DEF e
<1>2. Asked(e) = Asked(d) /\ (Once(d) => Once(e)) BY <1>1 DEF SameList, Asked, Once
<1>3. Left(e) = Left(d) BY <1>1, <1>2 DEF SameList, Left
<1>4. (Reports(d) => Reports(e)) /\ (Reasoned(d) => Reasoned(e))
  BY <1>1, <1>2 DEF SameList, Reports, Reasoned, Reason
<1>5. \A x, y : AskedBefore(e, x, y) <=> AskedBefore(d, x, y) BY <1>1 DEF SameList, AskedBefore
<1>6. \A S : Listed(d, S) => Listed(e, S) BY <1>1, <1>5 DEF SameList, Listed, IsNext
<1> QED BY <1>1, <1>2, <1>3, <1>4, <1>6 DEF e

(* A callback is told once, and may ask for what it is the reason of. *)
LEMMA CallbackWorking ==
  ASSUME NEW d \in Chan, NEW n \in Nat, NEW answer \in Replies,
         Once(d), Reports(d), Reasoned(d), NEW cb \in Left(d), d.oldest = cb,
         Listed(d, Left(d)), OnlyLast(d, n), Len(d.handed) >= n,
         d.state # "closed" => FramesInv(d, Left(d) \ {cb}),
         d.state = "closed" => Kind[cb] \in Closings
  PROVE  LET e == Callback(d, cb, answer)
         IN  /\ Working(e, {cb}, n) /\ (e.state = "closed" <=> d.state = "closed")
             /\ e.results[cb] # <<>> /\ (Owed(d, n) => Owed(e, n))
<1> DEFINE called   == Called(cb, answer)
           consumer == IF Kind[cb] \in Cancels THEN None
                       ELSE IF Kind[cb] \in Consumers THEN cb ELSE d.consumer
           told     == [uninstall(install(d, cb), cb) EXCEPT !.results[cb] = Append(@, called)]
<1> HIDE DEF called
<1>1. cb \in Asked(d) /\ cb \in Ops /\ d.results[cb] = <<>> BY AskedOps DEF Left
<1>2. /\ consumer \in {op \in Ops : Kind[op] \in Consumers} \cup {None}
      /\ uninstall(install(d, cb), cb) = [d EXCEPT !.consumer = consumer]
  <2>1. consumer \in {op \in Ops : Kind[op] \in Consumers} \cup {None} BY <1>1 DEF Chan
  <2>2. install(d, cb) = [d EXCEPT !.consumer = IF Kind[cb] \in Consumers THEN cb ELSE d.consumer]
    BY DEF install, Chan
  <2>3. install(d, cb) \in Chan /\ install(d, cb).consumer = IF Kind[cb] \in Consumers THEN cb ELSE d.consumer
    BY <1>1, <2>2 DEF Chan
  <2>4. uninstall(install(d, cb), cb) = [install(d, cb) EXCEPT !.consumer = consumer]
    BY <2>3 DEF uninstall, Chan
  <2>5. uninstall(install(d, cb), cb) = [d EXCEPT !.consumer = consumer]
    BY <2>2, <2>4 DEF Chan
  <2> QED BY <2>1, <2>5
<1> HIDE DEF consumer
<1> DEFINE u == uninstall(install(d, cb), cb)
           results == [d.results EXCEPT ![cb] = Append(<<>>, called)]
<1>3. u \in Chan /\ u.results = d.results BY <1>2 DEF Chan
<1>4. results \in [Ops -> Seq(Told)]
  <2>1. called \in Told
    <3>1. <<cb, answer>> \in Ops \X Replies BY <1>1
    <3> QED BY <3>1 DEF called, Told
  <2>2. Append(<<>>, called) \in Seq(Told) BY <2>1
  <2> QED BY <2>2 DEF Chan
<1>5. told = [u EXCEPT !.results = results]
  <2>1. told = [u EXCEPT !.results = [u.results EXCEPT ![cb] = Append(u.results[cb], called)]]
    BY <1>1, <1>3 DEF Chan
  <2> QED BY <1>1, <1>3, <2>1
<1>6. told = [d EXCEPT !.consumer = consumer, !.results = results]
  BY <1>2, <1>5 DEF Chan
<1> HIDE DEF told, results, u
<1>7. told \in Chan BY <1>2, <1>4, <1>6 DEF Chan
<1>8. /\ told.state = d.state /\ told.oldest = d.oldest /\ told.newest = d.newest
      /\ told.next = d.next /\ told.synchronous = d.synchronous /\ told.queue = d.queue
      /\ told.handed = d.handed /\ told.asked = d.asked /\ told.results = results
      /\ told.consumer = consumer
  BY <1>2, <1>4, <1>6 DEF Chan
<1>9. /\ \A op \in Ops \ {cb} : told.results[op] = d.results[op]
      /\ told.results[cb] # <<>> /\ Len(told.results[cb]) = 1
  <2>1. /\ \A op \in Ops \ {cb} : told.results[op] = d.results[op]
        /\ told.results[cb] = Append(<<>>, called)
    BY <1>1, <1>8 DEF results, Chan
  <2>2. called \in {called} /\ <<>> \in Seq({called}) OBVIOUS
  <2>3. Append(<<>>, called) # <<>> /\ Len(Append(<<>>, called)) = 1 BY <2>2
  <2> QED BY <2>1, <2>3
<1>10. /\ Asked(told) = Asked(d) /\ Once(told)
       /\ \A x, y : AskedBefore(told, x, y) <=> AskedBefore(d, x, y)
  BY <1>8, BeforeSame
<1>11. Left(told) = Left(d) \ {cb} BY <1>9, <1>10, AskedOps DEF Left
<1>12. Working(told, {cb}, n)
  <2>1. Reports(told) BY <1>1, <1>9, <1>10 DEF Reports
  <2>2. Reasoned(told)
    <3>1. \A op : Reason(d, op) => Reason(told, op)
      <4> TAKE op
      <4> HAVE Reason(d, op)
      <4>1. CASE op \in ToSet(Start) \cup Extras BY <4>1 DEF Reason
      <4>2. CASE \E other \in Asked(d) : d.results[other] # <<>> /\ op \in ToSet(Program[other])
        <5>1. PICK other \in Asked(d) : d.results[other] # <<>> /\ op \in ToSet(Program[other])
          BY <4>2
        <5>2. told.results[other] # <<>> BY <1>1, <1>9, <5>1, AskedOps
        <5> QED BY <1>10, <5>1, <5>2 DEF Reason
      <4> QED BY <4>1, <4>2 DEF Reason
    <3> QED BY <1>10, <3>1 DEF Reasoned
  <2>3. Left(told) \cup {cb} = Left(d) BY <1>11
  <2>4. Listed(told, Left(d)) BY <1>8, <1>10 DEF Listed, IsNext
  <2>5. OnlyLast(told, n) /\ Len(told.handed) >= n BY <1>8 DEF OnlyLast
  <2>6. told.state # "closed" => FramesInv(told, Left(told))
    <3>1. SameFrames(d, told) BY <1>8 DEF SameFrames
    <3> QED BY <1>8, <1>11, <3>1, SameFramesInv
  <2> QED BY <1>1, <1>7, <1>8, <1>10, <2>1, <2>2, <2>3, <2>4, <2>5, <2>6 DEF Working
<1>13. Owed(d, n) => Owed(told, n) BY <1>8 DEF Owed, NoneLeft
<1>14. CASE called = "nothing"
  <2>1. Callback(d, cb, answer) = told BY <1>14 DEF Callback, told, called
  <2> QED BY <1>8, <1>9, <1>12, <1>13, <2>1
<1>15. CASE called # "nothing"
  <2> DEFINE ops == Program[cb]
  <2>1. Callback(d, cb, answer) = askAll(told, ops) BY <1>15 DEF Callback, told, called
  <2>2. ops \in Seq(Ops) /\ IsInjective(ops) BY <1>1, ProgramAssumption, CallsAssumption
  <2>3. \A op \in ToSet(ops) : Reason(told, op) BY <1>1, <1>9, <1>10 DEF Reason
  <2>4. ToSet(ops) \cap Asked(told) = {}
    <3> SUFFICES ASSUME NEW op \in ToSet(ops), op \in Asked(d) PROVE FALSE BY <1>10
    <3>1. Reason(d, op) BY DEF Reasoned
    <3>2. op \notin ToSet(Start) \cup Extras BY <1>1, ClientAssumption
    <3>3. PICK other \in Asked(d) : d.results[other] # <<>> /\ op \in ToSet(Program[other])
      BY <3>1, <3>2 DEF Reason
    <3>4. other # cb /\ other \in Ops BY <1>1, <3>3, AskedOps
    <3> QED BY <1>1, <3>3, <3>4, CallsAssumption
  <2>5. told.state = "closed" => \A op \in ToSet(ops) : Kind[op] \in Gets
    BY <1>1, <1>8, CallsAssumption
  <2> DEFINE e == askAll(told, ops)
  <2> HIDE DEF ops
  <2>6. /\ Working(e, {cb}, n) /\ e.results = told.results /\ (Owed(told, n) => Owed(e, n))
        /\ (e.state = "closed" <=> told.state = "closed")
    BY <1>12, <2>2, <2>3, <2>4, <2>5, AskAllWorking
  <2> QED BY <1>8, <1>9, <1>13, <2>1, <2>6
<1> QED BY <1>14, <1>15

-----------------------------------------------------------------------------
(* The channel while it is open, and when it is closed: what is left then  *)
(* are calls of get() that were refused.                                   *)
Live(d, n) == Working(d, {}, n) /\ d.state # "closed"

Shut(d, n) ==
  /\ d \in Chan /\ Once(d) /\ Reports(d) /\ Reasoned(d) /\ d.state = "closed"
  /\ n \in Nat /\ Len(d.handed) >= n
  /\ \A op \in Left(d) : Kind[op] \in Gets /\ op \in d.failed

(* The frame that awaits an answer is that of the oldest operation. *)
LEMMA AwaitedIsOldest ==
  ASSUME NEW d, NEW n, Live(d, n), d.synchronous, Awaited(d) # Open
  PROVE  Awaited(d) = d.oldest /\ d.oldest \in Left(d)
<1>1. /\ Once(d) /\ Listed(d, Left(d) \cup {}) /\ InTurn(d, Left(d))
  BY DEF Live, Working, FramesInv
<1>2. Left(d) \cup {} = Left(d) OBVIOUS
<1>3. Awaited(d) \in Left(d) /\ \A op \in Left(d) \ {Awaited(d)} : AskedBefore(d, Awaited(d), op)
  BY <1>1 DEF InTurn
<1>4. d.oldest \in Left(d) /\ \A op \in Left(d) \ {d.oldest} : AskedBefore(d, d.oldest, op)
  BY <1>1, <1>2, <1>3 DEF Listed
<1> QED BY <1>1, <1>3, <1>4, BeforeStrict

(* An open channel stays open while operations are asked for, *)
LEMMA LiveAsk ==
  ASSUME NEW d, NEW n, Live(d, n), NEW op \in Ops, op \notin Asked(d), Reason(d, op)
  PROVE  Live(ask(d, op), n)
BY AskWorking DEF Live

(* and while frames are sent that await no answer. *)
LEMMA LiveSend ==
  ASSUME NEW d, NEW n, Live(d, n), NEW f \in Async
  PROVE  Live(send(d, f), n) /\ send(d, f).failed = d.failed /\ Left(send(d, f)) = Left(d)
<1> DEFINE e == send(d, f)
<1>1. f \in Frames BY DEF Frames
<1>2. d \in Chan /\ n \in Nat /\ OnlyLast(d, n) /\ Len(d.handed) >= n BY DEF Live, Working
<1>3. e \in Chan /\ SameList(d, e) BY <1>1, <1>2, SendKeeps
<1>4. OnlyLast(e, n) /\ Len(e.handed) >= n BY <1>1, <1>2, OnlyLastSend
<1>5. FramesInv(e, Left(d)) BY <1>2, AsyncFrames DEF Live, Working
<1> HIDE DEF e
<1>6. Asked(e) = Asked(d) /\ Left(e) = Left(d) BY <1>3 DEF SameList, Asked, Left
<1>7. Once(e) /\ Reports(e) /\ Reasoned(e)
  BY <1>3, <1>6 DEF SameList, Live, Working, Once, Reports, Reasoned, Reason
<1>8. \A x, y : AskedBefore(e, x, y) <=> AskedBefore(d, x, y) BY <1>3 DEF SameList, AskedBefore
<1>9. Listed(e, Left(e) \cup {}) BY <1>3, <1>6, <1>8 DEF SameList, Live, Working, Listed, IsNext
<1>10. Live(e, n) BY <1>2, <1>3, <1>4, <1>5, <1>6, <1>7, <1>9 DEF Live, Working, SameList
<1> QED BY <1>3, <1>6, <1>10 DEF SameList, e

(* The channel is opened: the first operation's frame leaves. *)
LEMMA LiveReady ==
  ASSUME NEW d, NEW n, Live(d, n), d.synchronous, Awaited(d) = Open, NoneLeft(d, n)
  PROVE  Live(reportReady(d), n) /\ Owed(reportReady(d), n)
<1> DEFINE state == IF d.state = "connected" THEN "ready" ELSE d.state
           e     == [d EXCEPT !.state = state]
<1>1. /\ d \in Chan /\ Once(d) /\ Reports(d) /\ Reasoned(d) /\ n \in Nat /\ Len(d.handed) >= n
      /\ Listed(d, Left(d) \cup {}) /\ FramesInv(d, Left(d)) /\ d.state # "closed"
  BY DEF Live, Working
<1>2. /\ state \in {"ready", "closing"} /\ (state = "closing" <=> d.state = "closing")
  BY <1>1 DEF Chan
<1>3. reportReady(d) = flush(e) BY <1>1 DEF reportReady, Chan
<1> HIDE DEF state
<1>4. /\ e \in Chan /\ e.state = state /\ e.oldest = d.oldest /\ e.newest = d.newest
      /\ e.next = d.next /\ e.synchronous = d.synchronous /\ e.queue = d.queue
      /\ e.handed = d.handed /\ e.asked = d.asked /\ e.results = d.results
      /\ e.failed = d.failed
  BY <1>1, <1>2 DEF Chan
<1> HIDE DEF e
<1>5. Asked(e) = Asked(d) /\ Left(e) = Left(d) /\ Awaited(e) = Awaited(d)
  BY <1>4 DEF Asked, Left, Awaited
<1>6. Once(e) /\ Reports(e) /\ Reasoned(e)
  BY <1>1, <1>4, <1>5 DEF Once, Reports, Reasoned, Reason
<1>7. \A x, y : AskedBefore(e, x, y) <=> AskedBefore(d, x, y) BY <1>4 DEF AskedBefore
<1>8. Listed(e, Left(e)) BY <1>1, <1>4, <1>5, <1>7 DEF Listed, IsNext
<1>9. \A x : Underway(e, x) <=> Underway(d, x) BY <1>4, <1>5 DEF Underway, Queued
<1>10. FramesInv(e, Left(e))
  <2>1. InTurn(e, Left(e)) BY <1>1, <1>4, <1>5, <1>7 DEF FramesInv, InTurn
  <2>2. Idle(e, Left(e)) BY <1>1, <1>4, <1>5 DEF FramesInv, Idle
  <2>3. QueueInOrder(e, Left(e)) BY <1>1, <1>4, <1>5, <1>7 DEF FramesInv, QueueInOrder
  <2>4. NoneStranded(e, Left(e)) BY <1>1, <1>2, <1>4, <1>5, <1>7, <1>9 DEF FramesInv, NoneStranded, Ends
  <2> QED BY <2>1, <2>2, <2>3, <2>4 DEF FramesInv
<1>11. NoneLeft(e, n) BY <1>4 DEF NoneLeft
<1> DEFINE g == flush(e)
<1>12. /\ g \in Chan /\ SameList(e, g) /\ Left(g) = Left(e) /\ Once(g) /\ Reports(g) /\ Reasoned(g)
       /\ Listed(g, Left(e))
  BY <1>4, <1>6, <1>8, FlushSame
<1>13. OnlyLast(g, n) /\ Len(g.handed) >= n /\ Owed(g, n)
  BY <1>1, <1>4, <1>11, OnlyLastFlush, OwedFlush
<1>14. FramesInv(g, Left(g))
  <2>1. Awaited(e) \notin Left(e)
    BY <1>5, <1>6, AskedOps, LeftAsked, CallsAssumption
  <2>2. Left(e) \ {Awaited(e)} = Left(e) BY <2>1
  <2>3. FramesInv(g, Left(e) \ {Awaited(e)})
    BY <1>4, <1>6, <1>10, <2>1, LeftAsked, FlushedFrames
  <2> QED BY <1>12, <2>2, <2>3
<1> HIDE DEF g
<1>15. g.state # "closed" BY <1>2, <1>4, <1>12 DEF SameList
<1>16. Left(g) \cup {} = Left(g) /\ {} \subseteq Asked(g) OBVIOUS
<1>17. Working(g, {}, n) BY <1>1, <1>12, <1>13, <1>14, <1>16 DEF Working
<1> QED BY <1>3, <1>13, <1>15, <1>17 DEF Live, g

(* The oldest operation is reported, the next one's frame leaves. *)
LEMMA SuccessWorking ==
  ASSUME NEW d \in Chan, NEW n \in Nat, NEW answer \in Replies,
         Once(d), Reports(d), Reasoned(d), d.oldest \in Left(d), Listed(d, Left(d)),
         NoneLeft(d, n), Len(d.handed) >= n,
         d.state # "closed" => /\ FramesInv(d, Left(d)) /\ d.synchronous
                               /\ Awaited(d) = d.oldest /\ Kind[d.oldest] \notin Closings,
         d.state = "closed" => Kind[d.oldest] \in Closings
  PROVE  LET e == reportSuccess(d, answer)
         IN  /\ Working(e, {}, n) /\ (e.state = "closed" <=> d.state = "closed")
             /\ Owed(e, n)
<1> DEFINE cb == d.oldest
           g == flush(d)
           done == Callback(g, cb, answer)
           next == done.next[cb]
<1>1. cb \in Ops /\ cb # None BY AskedOps, LeftAsked, ProgramAssumption
<1>2. reportSuccess(d, answer) = Unlinked(done, cb, next) BY <1>1 DEF reportSuccess
<1>3. /\ g \in Chan /\ SameList(d, g) /\ Left(g) = Left(d) /\ Once(g) /\ Reports(g) /\ Reasoned(g)
      /\ Listed(g, Left(g))
  BY FlushSame
<1>4. OnlyLast(g, n) /\ Len(g.handed) >= n /\ Owed(g, n) BY OnlyLastFlush, OwedFlush
<1>5. d.state # "closed" => FramesInv(g, Left(g) \ {cb})
  <2> SUFFICES ASSUME d.state # "closed" PROVE FramesInv(g, Left(g) \ {cb}) OBVIOUS
  <2>1. FramesInv(g, Left(d) \ {Awaited(d)}) BY LeftAsked, FlushedFrames
  <2> QED BY <1>3, <2>1
<1>6. g.state = d.state /\ g.oldest = cb BY <1>3 DEF SameList
<1> HIDE DEF g
<1>7. /\ Working(done, {cb}, n) /\ (done.state = "closed" <=> g.state = "closed")
      /\ done.results[cb] # <<>> /\ Owed(done, n)
  <2>1. cb \in Left(g) /\ (g.state # "closed" => FramesInv(g, Left(g) \ {cb}))
        /\ (g.state = "closed" => Kind[cb] \in Closings)
    BY <1>3, <1>5, <1>6
  <2> HIDE DEF cb
  <2>2. g \in Chan /\ Once(g) /\ Reports(g) /\ Reasoned(g) /\ Listed(g, Left(g)) BY <1>3
  <2>3. OnlyLast(g, n) /\ Owed(g, n) /\ Len(g.handed) >= n /\ g.oldest = cb BY <1>4, <1>6
  <2> HIDE DEF done
  <2> QED BY <2>1, <2>2, <2>3, CallbackWorking DEF done
<1> HIDE DEF cb, done
<1> DEFINE e == Unlinked(done, cb, next)
           newest == IF next = None THEN None ELSE done.newest
           nexts == [done.next EXCEPT ![cb] = None]
<1>9. done \in Chan /\ cb \in Ops /\ next \in Ops \cup {None} BY <1>1, <1>7 DEF Working, Chan, cb
<1>10. newest \in Ops \cup {None} /\ nexts \in [Ops -> Ops \cup {None}] BY <1>9 DEF Chan
<1> HIDE DEF next
<1>11. e = [done EXCEPT !.next = nexts, !.oldest = next, !.newest = newest]
  BY <1>9 DEF Unlinked, Chan
<1> HIDE DEF e, newest, nexts
<1>12. /\ e \in Chan /\ e.state = done.state /\ e.oldest = next /\ e.newest = newest
       /\ e.next = nexts /\ e.synchronous = done.synchronous /\ e.queue = done.queue
       /\ e.handed = done.handed /\ e.asked = done.asked /\ e.results = done.results
       /\ e.failed = done.failed /\ e.consumer = done.consumer
  BY <1>9, <1>10, <1>11 DEF Chan
<1>13. Asked(e) = Asked(done) /\ Left(e) = Left(done) BY <1>12 DEF Asked, Left
<1>14. Once(e) /\ Reports(e) /\ Reasoned(e)
  BY <1>7, <1>12, <1>13 DEF Working, Once, Reports, Reasoned, Reason
<1>15. Listed(e, Left(e))
  <2> DEFINE S == Left(done) \cup {cb}
  <2>1. /\ Once(done) /\ S \subseteq Asked(done) /\ Listed(done, S) /\ done.oldest = cb
        /\ DOMAIN done.next = Ops
    BY <1>7, LeftAsked DEF Working, Chan
  <2>2. S # {} /\ S \in SUBSET Asked(done) BY <2>1
  <2> HIDE DEF S
  <2>3. Listed(e, S \ {done.oldest})
    BY <1>12, <2>1, <2>2, ListedUnlinked DEF next, newest, nexts
  <2>4. S \ {done.oldest} = Left(e) BY <1>7, <1>13, <2>1 DEF S, Left
  <2> QED BY <2>3, <2>4
<1>16. e.state # "closed" => FramesInv(e, Left(e))
  <2>1. SameFrames(done, e) BY <1>12 DEF SameFrames
  <2> QED BY <1>7, <1>12, <1>13, <2>1, SameFramesInv DEF Working
<1>17. OnlyLast(e, n) /\ Len(e.handed) >= n BY <1>7, <1>12 DEF Working, OnlyLast
<1>8. Owed(e, n) BY <1>7, <1>12 DEF Owed, NoneLeft
<1>18. Left(e) \cup {} = Left(e) /\ {} \subseteq Asked(e) OBVIOUS
<1>19. Working(e, {}, n) BY <1>12, <1>14, <1>15, <1>16, <1>17, <1>18 DEF Working
<1> QED BY <1>2, <1>6, <1>7, <1>8, <1>12, <1>19 DEF e, cb

(* The answer to anything but close() leaves the channel open. *)
LEMMA LiveSuccess ==
  ASSUME NEW d, NEW n, Live(d, n), d.synchronous, Awaited(d) # Open, NoneLeft(d, n),
         Kind[d.oldest] \notin Closings, NEW answer \in Replies
  PROVE  Live(reportSuccess(d, answer), n) /\ Owed(reportSuccess(d, answer), n)
<1>1. Awaited(d) = d.oldest /\ d.oldest \in Left(d) BY AwaitedIsOldest
<1>2. Left(d) \cup {} = Left(d) OBVIOUS
<1>3. /\ d \in Chan /\ Once(d) /\ Reports(d) /\ Reasoned(d) /\ n \in Nat /\ Len(d.handed) >= n
      /\ Listed(d, Left(d)) /\ FramesInv(d, Left(d)) /\ d.state # "closed"
  BY <1>2 DEF Live, Working
<1> QED BY <1>1, <1>3, SuccessWorking DEF Live

(* All that is left fails at once, each once. *)
LEMMA ErrorShuts ==
  ASSUME NEW d, NEW n, Working(d, {}, n)
  PROVE  Shut(reportError(d), n) /\ Left(reportError(d)) = {}
<1> DEFINE left == IF d.oldest = None THEN {} ELSE Pending(d)
           failed == d.failed \cup left
           results == [op \in Ops |-> IF op \in left THEN Append(d.results[op], "error")
                                      ELSE d.results[op]]
           e == reportError(d)
<1>1. /\ d \in Chan /\ Once(d) /\ Reports(d) /\ Reasoned(d) /\ Listed(d, Left(d))
      /\ n \in Nat /\ Len(d.handed) >= n /\ Left(d) \subseteq Ops
  <2>1. Left(d) \cup {} = Left(d) OBVIOUS
  <2> QED BY <2>1, LeftAsked, AskedOps DEF Working
<1>2. left = Left(d)
  <2>1. CASE Left(d) = {} BY <1>1, <2>1 DEF Listed
  <2>2. CASE Left(d) # {}
    <3>1. d.oldest \in Left(d) BY <1>1, <2>2 DEF Listed
    <3>2. d.oldest # None BY <1>1, <3>1, ProgramAssumption
    <3>3. Left(d) \in SUBSET Asked(d) BY LeftAsked
    <3>4. Pending(d) = Left(d) BY <1>1, <2>2, <3>3, PendingIsListed
    <3> QED BY <3>2, <3>4
  <2> QED BY <2>1, <2>2
<1> HIDE DEF left
<1>3. /\ \A op \in Left(d) : results[op] = Append(<<>>, "error")
      /\ \A op \in Ops \ Left(d) : results[op] = d.results[op]
  BY <1>1, <1>2 DEF Left
<1>4. results \in [Ops -> Seq(Told)]
  <2>1. "error" \in Told BY Zenon DEF Told
  <2>2. \A op \in Ops : d.results[op] \in Seq(Told) BY <1>1 DEF Chan
  <2>3. \A op \in Ops : Append(d.results[op], "error") \in Seq(Told) BY <2>1, <2>2
  <2> QED BY <2>2, <2>3
<1>5. /\ \A op \in Left(d) : results[op] # <<>> /\ Len(results[op]) = 1
  <2>1. Append(<<>>, "error") # <<>> /\ Len(Append(<<>>, "error")) = 1
    <3>1. <<>> \in Seq({"error"}) /\ "error" \in {"error"} OBVIOUS
    <3> QED BY <3>1
  <2> QED BY <1>3, <2>1
<1>6. failed \subseteq Ops BY <1>1, <1>2 DEF Chan
<1>7. e = [d EXCEPT !.state = "closed", !.queue = <<>>, !.oldest = None, !.newest = None,
                    !.failed = failed, !.results = results]
  BY <1>1 DEF reportError, left, Chan
<1> HIDE DEF e, results, failed
<1>8. /\ e \in Chan /\ e.state = "closed" /\ e.asked = d.asked /\ e.results = results
      /\ e.handed = d.handed
  <2>1. <<>> \in Seq(Frames) OBVIOUS
  <2>2. e \in Chan BY <1>1, <1>4, <1>6, <1>7, <2>1 DEF Chan
  <2> QED BY <1>1, <1>7, <2>2 DEF Chan
<1>9. Asked(e) = Asked(d) /\ Once(e) BY <1>1, <1>8 DEF Asked, Once
<1>10. Left(e) = {}
  <2>1. ASSUME NEW op \in Asked(d) PROVE results[op] # <<>>
    <3>1. CASE op \in Left(d) BY <1>5, <3>1
    <3>2. CASE op \notin Left(d)
      <4>1. op \in Ops \ Left(d) BY <1>1, <3>2, AskedOps
      <4> QED BY <1>3, <3>2, <4>1 DEF Left
    <3> QED BY <3>1, <3>2
  <2> QED BY <1>8, <1>9, <2>1 DEF Left
<1>11. Reports(e)
  <2>1. \A op \in Ops \ Left(d) : /\ results[op] = <<>> \/ Len(results[op]) = 1
                                  /\ op \notin Asked(d) => results[op] = <<>>
    BY <1>1, <1>3 DEF Reports
  <2>2. \A op \in Left(d) : Len(results[op]) = 1 /\ op \in Asked(d) BY <1>5, LeftAsked
  <2> QED BY <1>8, <1>9, <2>1, <2>2 DEF Reports
<1>12. Reasoned(e)
  <2>1. ASSUME NEW op \in Asked(d) PROVE results[op] # <<>> BY <1>8, <1>9, <1>10 DEF Left
  <2>2. \A op : Reason(d, op) => Reason(e, op) BY <1>8, <1>9, <2>1 DEF Reason
  <2> QED BY <1>1, <1>9, <2>2 DEF Reasoned
<1>13. Shut(e, n) BY <1>1, <1>8, <1>9, <1>10, <1>11, <1>12 DEF Shut
<1> QED BY <1>10, <1>13 DEF e

(* The answer to close() reports the close() and fails what came after. *)
LEMMA ClosedShuts ==
  ASSUME NEW d, NEW n, Live(d, n), d.synchronous, Awaited(d) # Open, NoneLeft(d, n),
         Kind[d.oldest] \in Closings
  PROVE  Shut(reportClosed(d), n) /\ Left(reportClosed(d)) = {}
<1> DEFINE e == [d EXCEPT !.state = "closed"]
           g == reportSuccess(e, "ok")
<1>1. d.oldest \in Left(d) BY AwaitedIsOldest
<1>2. Left(d) \cup {} = Left(d) OBVIOUS
<1>3. /\ d \in Chan /\ Once(d) /\ Reports(d) /\ Reasoned(d) /\ n \in Nat /\ Len(d.handed) >= n
      /\ Listed(d, Left(d))
  BY <1>2 DEF Live, Working
<1>4. /\ e \in Chan /\ e.state = "closed" /\ e.oldest = d.oldest /\ e.newest = d.newest
      /\ e.next = d.next /\ e.handed = d.handed /\ e.asked = d.asked /\ e.results = d.results
  BY <1>3 DEF Chan
<1> HIDE DEF e
<1>5. Asked(e) = Asked(d) /\ Left(e) = Left(d) BY <1>4 DEF Asked, Left
<1>6. Once(e) /\ Reports(e) /\ Reasoned(e)
  BY <1>3, <1>4, <1>5 DEF Once, Reports, Reasoned, Reason
<1>7. \A x, y : AskedBefore(e, x, y) <=> AskedBefore(d, x, y) BY <1>4 DEF AskedBefore
<1>8. Listed(e, Left(e)) BY <1>3, <1>4, <1>5, <1>7 DEF Listed, IsNext
<1>9. NoneLeft(e, n) BY <1>4 DEF NoneLeft
<1>10. "ok" \in Replies BY DEF Replies
<1>11. Working(g, {}, n)
  BY <1>1, <1>3, <1>4, <1>5, <1>6, <1>8, <1>9, <1>10, SuccessWorking
<1> HIDE DEF g
<1>12. reportClosed(d) = reportError(g) BY DEF reportClosed, e, g
<1> QED BY <1>11, <1>12, ErrorShuts

(* A closed channel refuses; only a get() does not report that at once. *)
LEMMA ShutAsk ==
  ASSUME NEW d, NEW n, Shut(d, n), NEW op \in Ops, op \notin Asked(d), Reason(d, op)
  PROVE  Shut(ask(d, op), n)
<1> DEFINE e == ask(d, op)
<1>1. d \in Chan /\ Once(d) /\ ~Accepts(d) BY DEF Shut, Accepts
<1>2. Pushed(d, op, e) /\ e.state = "closed" BY <1>1, AskKeeps DEF Shut
<1> HIDE DEF e
<1>3. send(d, op) = d BY <1>1, OpsAreSynchronous, SendKeeps DEF Shut
<1>4. /\ e \in Chan /\ e.asked = Append(d.asked, op) /\ e.handed = d.handed
      /\ e.failed = d.failed \cup {op}
      /\ e.results = IF Kind[op] \in Gets THEN d.results
                     ELSE [d.results EXCEPT ![op] = Append(d.results[op], "error")]
  BY <1>1, <1>2, <1>3 DEF Pushed
<1>5. Once(e) /\ Asked(e) = Asked(d) \cup {op} BY <1>1, <1>4, BeforeAppended
<1>6. d.results[op] = <<>> BY DEF Shut, Reports
<1>7. /\ \A x \in Ops \ {op} : e.results[x] = d.results[x]
      /\ Kind[op] \in Gets => e.results[op] = <<>>
      /\ Kind[op] \notin Gets => e.results[op] # <<>> /\ Len(e.results[op]) = 1
  <2>1. Append(<<>>, "error") # <<>> /\ Len(Append(<<>>, "error")) = 1
    <3>1. <<>> \in Seq({"error"}) /\ "error" \in {"error"} OBVIOUS
    <3> QED BY <3>1
  <2> QED BY <1>1, <1>4, <1>6, <2>1 DEF Chan
<1>8. Reports(e) BY <1>5, <1>7 DEF Shut, Reports
<1>9. Reasoned(e)
  <2>1. \A x \in Asked(d) : d.results[x] # <<>> => e.results[x] # <<>>
    BY <1>1, <1>7, AskedOps
  <2>2. \A x : Reason(d, x) => Reason(e, x) BY <1>5, <2>1 DEF Reason
  <2> QED BY <1>5, <2>2 DEF Shut, Reasoned
<1>10. \A x \in Left(e) : Kind[x] \in Gets /\ x \in e.failed
  <2> TAKE x \in Left(e)
  <2>1. x \in Asked(d) \cup {op} /\ e.results[x] = <<>> BY <1>5 DEF Left
  <2>2. CASE x = op BY <1>4, <1>7, <2>1, <2>2
  <2>3. CASE x # op
    <3>1. x \in Asked(d) /\ x \in Ops BY <1>1, <2>1, <2>3, AskedOps
    <3>2. x \in Left(d) BY <1>7, <2>1, <2>3, <3>1 DEF Left
    <3> QED BY <1>4, <3>2 DEF Shut
  <2> QED BY <2>2, <2>3
<1> QED BY <1>2, <1>4, <1>5, <1>8, <1>9, <1>10 DEF Shut, e

(* The channel main() begins with: the frame that opens it is on its way.  *)
LEMMA AttachedLive == Live(askAll(Attached, Start), 0) /\ Owed(askAll(Attached, Start), 0)
<1> DEFINE d == Attached
<1>1. /\ d.state = "connected" /\ d.oldest = None /\ d.newest = None
      /\ d.next = [op \in Ops |-> None] /\ d.synchronous = TRUE /\ d.queue = <<>>
      /\ d.handed = <<Open>> /\ d.consumer = None /\ d.asked = <<>> /\ d.failed = {}
      /\ d.results = [op \in Ops |-> <<>>]
  BY DEF Attached
<1>2. d \in Chan
  <2>1. <<Open>> \in Seq(Frames) BY DEF Frames
  <2>2. <<>> \in Seq(Frames) /\ <<>> \in Seq(Ops) /\ <<>> \in Seq(Told) OBVIOUS
  <2> QED BY <2>1, <2>2 DEF Attached, Chan
<1> HIDE DEF d
<1>3. Asked(d) = {} /\ Left(d) = {} /\ Once(d)
  BY <1>1 DEF Asked, ToSet, Left, Once, IsInjective
<1>4. Reports(d) /\ Reasoned(d) BY <1>1, <1>3 DEF Reports, Reasoned
<1>5. Listed(d, {}) BY <1>1 DEF Listed
<1>6. Len(d.handed) = 1 /\ DOMAIN d.handed = 1..1 /\ Awaited(d) = Open
  BY <1>1 DEF Awaited
<1>7. OnlyLast(d, 0) /\ Len(d.handed) >= 0 BY <1>1, <1>6 DEF OnlyLast
<1>8. FramesInv(d, {})
  BY <1>1, <1>6 DEF FramesInv, InTurn, Idle, QueueInOrder, NoneStranded
<1>9. Working(d, {}, 0) BY <1>2, <1>3, <1>4, <1>5, <1>7, <1>8 DEF Working
<1>10. Start \in Seq(Ops) /\ IsInjective(Start) BY ClientAssumption
<1>11. ToSet(Start) \cap Asked(d) = {} /\ \A op \in ToSet(Start) : Reason(d, op)
  BY <1>3 DEF Reason
<1>12. d.state # "closed" BY <1>1
<1>13. Owed(d, 0)
  <2>1. Synchronous(d.handed[1]) BY <1>1 DEF Synchronous, Async, Open
  <2>2. ~NoneLeft(d, 0) BY <1>6, <2>1 DEF NoneLeft
  <2> QED BY <2>2 DEF Owed
<1>14. /\ Working(askAll(d, Start), {}, 0) /\ askAll(d, Start).state # "closed"
       /\ Owed(askAll(d, Start), 0)
  BY <1>9, <1>10, <1>11, <1>12, <1>13, AskAllWorking
<1> QED BY <1>14 DEF Live, d

-----------------------------------------------------------------------------
(* Frames on their way: the broker puts one, or one and the message that   *)
(* follows it, behind the others, and the client takes the first.          *)
IsSequence(s) == \E S : s \in Seq(S)

Longer(s, t, f) ==
  /\ IsSequence(t) /\ Len(t) > Len(s)
  /\ \A k \in 1..Len(s) : t[k] = s[k]
  /\ t[Len(s) + 1] = f
  /\ \A k \in 1..Len(t) : k > Len(s) + 1 => t[k].type \in {"header", "body"}

Shorter(s, t) ==
  /\ IsSequence(t) /\ Len(s) = Len(t) + 1
  /\ \A k \in 1..Len(t) : t[k] = s[k + 1]

(* The basic facts of sequences of anything. *)
LEMMA SequenceHas ==
  ASSUME NEW s, IsSequence(s)
  PROVE  Len(s) \in Nat /\ DOMAIN s = 1..Len(s) /\ (Len(s) = 0 <=> s = <<>>)
<1>1. PICK S : s \in Seq(S) BY DEF IsSequence
<1> QED BY <1>1, EmptySeq

LEMMA Lengthened ==
  ASSUME NEW s, IsSequence(s), NEW f
  PROVE  Longer(s, Append(s, f), f)
<1>1. PICK S : s \in Seq(S) BY DEF IsSequence
<1>2. Append(s, f) \in Seq(S \cup {f}) BY <1>1
<1> QED BY <1>1, <1>2 DEF IsSequence, Longer

LEMMA LengthenedBy ==
  ASSUME NEW s, IsSequence(s), NEW f, NEW new, IsSequence(new),
         \A k \in 1..Len(new) : new[k].type \in {"header", "body"}
  PROVE  /\ Longer(s, s \o <<f>> \o new, f)
         /\ Len(s \o <<f>> \o new) = Len(s) + 1 + Len(new)
         /\ \A k \in 1..Len(new) : (s \o <<f>> \o new)[Len(s) + 1 + k] = new[k]
<1>1. PICK S : s \in Seq(S) BY DEF IsSequence
<1>2. PICK T : new \in Seq(T) BY DEF IsSequence
<1> DEFINE u == s \o <<f>>
           t == u \o new
<1>3. /\ u \in Seq(S \cup {f}) /\ Len(u) = Len(s) + 1 /\ u[Len(s) + 1] = f
      /\ \A k \in 1..Len(s) : u[k] = s[k]
  BY <1>1
<1> HIDE DEF u
<1>4. /\ t \in Seq((S \cup {f}) \cup T) /\ Len(t) = Len(u) + Len(new)
      /\ \A k \in 1..Len(u) : t[k] = u[k]
      /\ \A k \in 1..Len(new) : t[Len(u) + k] = new[k]
  <2> DEFINE V == (S \cup {f}) \cup T
  <2>1. u \in Seq(V) /\ new \in Seq(V) BY <1>2, <1>3
  <2> HIDE DEF V
  <2>2. t \in Seq(V) /\ Len(t) = Len(u) + Len(new) BY <2>1
  <2>3. \A k \in 1..Len(u) : t[k] = u[k] BY <2>1
  <2>4. \A k \in 1..Len(new) : t[Len(u) + k] = new[k] BY <2>1
  <2> QED BY <2>2, <2>3, <2>4 DEF V
<1> HIDE DEF t
<1>5. Len(s) \in Nat /\ Len(new) \in Nat BY <1>1, <1>2
<1>6. IsSequence(t) BY <1>4 DEF IsSequence
<1>7. \A k \in 1..Len(t) : k > Len(s) + 1 => t[k].type \in {"header", "body"}
  <2> TAKE k \in 1..Len(t)
  <2> HAVE k > Len(s) + 1
  <2>1. PICK j \in 1..Len(new) : k = Len(u) + j
    <3>1. k - Len(u) \in 1..Len(new) /\ k = Len(u) + (k - Len(u)) BY <1>3, <1>4, <1>5
    <3> QED BY <3>1
  <2> QED BY <1>4, <2>1
<1>8. Longer(s, t, f) BY <1>3, <1>4, <1>5, <1>6, <1>7 DEF Longer
<1> QED BY <1>3, <1>4, <1>8 DEF t, u

LEMMA Shortened ==
  ASSUME NEW s, IsSequence(s), s # <<>>
  PROVE  Shorter(s, Tail(s)) /\ Head(s) = s[1] /\ Len(s) > 0
<1>1. PICK S : s \in Seq(S) BY DEF IsSequence
<1>2. /\ Tail(s) \in Seq(S) /\ Len(s) = Len(Tail(s)) + 1 /\ Head(s) = s[1] /\ Len(s) > 0
      /\ \A k \in 1..Len(Tail(s)) : Tail(s)[k] = s[k + 1]
  BY <1>1
<1> QED BY <1>2 DEF Shorter, IsSequence

(* A body is cut into frames that are filled, but for the last. *)
Sizes == {4096} \cup {t[2] : t \in Tunes}

(* Every frame has room for a byte of the body, whatever the broker suggests. *)
LEMMA Payloads ==
  ASSUME maxFrame \in Sizes
  PROVE  maxPayload \in Nat /\ maxPayload > 0
<1>1. \A size \in Sizes : size \in Int
  <2>1. \A t \in Tunes : t[2] \in Nat BY WireAssumption
  <2> QED BY <2>1 DEF Sizes
<1>2. \A size \in Sizes : (size - 8) % WordRange > 0 BY WireAssumption DEF Sizes
<1>3. WordRange \in Nat /\ WordRange > 0 BY WireAssumption
<1>4. maxFrame - 8 \in Int BY <1>1
<1>5. (maxFrame - 8) % WordRange \in 0..(WordRange - 1) BY <1>3, <1>4
<1> QED BY <1>2, <1>3, <1>5 DEF maxPayload

(* How many pieces of P bytes a body of n bytes is cut into. *)
LEMMA Pieces ==
  ASSUME NEW n \in Nat, NEW P \in Nat, P > 0
  PROVE  LET q == (n + P - 1) \div P
         IN  q \in Nat /\ q * P >= n /\ \A j \in 1..q : (j - 1) * P < n
<1> DEFINE q == (n + P - 1) \div P
<1>1. q \in Nat /\ q * P <= n + P - 1 /\ n + P - 1 < (q + 1) * P
  <2>1. PICK x \in Nat : x = n + P - 1 OBVIOUS
  <2>2. x \div P \in Nat /\ (x \div P) * P <= x /\ x < ((x \div P) + 1) * P BY <2>1
  <2> QED BY <2>1, <2>2
<1> HIDE DEF q
<1>2. (q + 1) * P = q * P + P BY <1>1
<1>3. ASSUME NEW j \in 1..q PROVE (j - 1) * P < n
  <2>1. j * P <= q * P BY <1>1
  <2>2. (j - 1) * P = j * P - P BY <1>1
  <2>3. j * P \in Int /\ q * P \in Int /\ (j - 1) * P \in Int BY <1>1
  <2> QED BY <1>1, <2>1, <2>2, <2>3
<1>4. q * P >= n
  <2>1. q * P \in Int BY <1>1
  <2> QED BY <1>1, <1>2, <2>1
<1> QED BY <1>1, <1>3, <1>4 DEF q

LEMMA MinOfTwo ==
  ASSUME NEW i \in Int, NEW j \in Int
  PROVE  Min({i, j}) = IF i <= j THEN i ELSE j
BY DEF Min

(* The body frames hold the body, none is empty. *)
LEMMA BodyFramesAre ==
  ASSUME maxFrame \in Sizes, NEW body \in Seq(Nat)
  PROVE  /\ IsSequence(BodyFrames(body))
         /\ \A k \in 1..Len(BodyFrames(body)) : BodyFrames(body)[k].type = "body"
         /\ \E upto \in [0..Len(BodyFrames(body)) -> 0..Len(body)] :
              /\ upto[0] = 0 /\ upto[Len(BodyFrames(body))] = Len(body)
              /\ \A k \in 1..Len(BodyFrames(body)) :
                   /\ upto[k - 1] < upto[k]
                   /\ BodyFrames(body)[k].payload = SubSeq(body, upto[k - 1] + 1, upto[k])
<1> DEFINE n == Len(body)
           P == maxPayload
           q == (n + P - 1) \div P
           frame(k) == [type |-> "body", payload |-> SubSeq(body, (k - 1) * P + 1, Min({k * P, n}))]
           frames == [k \in 1..q |-> frame(k)]
<1>1. n \in Nat /\ P \in Nat /\ P > 0 BY Payloads
<1>2. frames = BodyFrames(body) BY DEF BodyFrames
<1> HIDE DEF P
<1>3. q \in Nat /\ q * P >= n /\ \A j \in 1..q : (j - 1) * P < n BY <1>1, Pieces
<1> HIDE DEF q
<1>4. frames \in Seq({frame(k) : k \in 1..q}) /\ Len(frames) = q
  <2> DEFINE S == {frame(k) : k \in 1..q}
  <2>1. \A k \in 1..q : frame(k) \in S OBVIOUS
  <2> HIDE DEF frame, S
  <2>2. frames \in [1..q -> S] BY <2>1
  <2>3. frames \in Seq(S) BY <1>3, <2>2
  <2>4. Len(frames) = q BY <1>3, <2>2
  <2> QED BY <2>3, <2>4 DEF S
<1>5. \A k \in 1..q : frames[k].type = "body"
                    /\ frames[k].payload = SubSeq(body, (k - 1) * P + 1, Min({k * P, n}))
  OBVIOUS
<1> HIDE DEF frames
<1> DEFINE upto == [k \in 0..q |-> IF k * P <= n THEN k * P ELSE n]
<1>6. upto \in [0..q -> 0..n]
  <2>1. \A k \in 0..q : k * P \in Nat BY <1>1, <1>3
  <2> QED BY <1>1, <2>1
<1>7. upto[0] = 0 /\ upto[q] = n
  <2>1. 0 * P = 0 /\ q * P \in Nat BY <1>1, <1>3
  <2> QED BY <1>1, <1>3, <2>1
<1>8. ASSUME NEW k \in 1..q
      PROVE  /\ upto[k - 1] < upto[k]
             /\ frames[k].payload = SubSeq(body, upto[k - 1] + 1, upto[k])
  <2>1. (k - 1) * P \in Int /\ k * P \in Int /\ k * P = (k - 1) * P + P /\ (k - 1) * P < n
    BY <1>1, <1>3
  <2>2. upto[k - 1] = (k - 1) * P /\ upto[k] = IF k * P <= n THEN k * P ELSE n
    BY <1>1, <1>3, <2>1
  <2>3. PICK x \in Int : x = k * P BY <2>1
  <2>4. Min({x, n}) = IF x <= n THEN x ELSE n BY <1>1, MinOfTwo
  <2>5. Min({k * P, n}) = upto[k] BY <2>2, <2>3, <2>4
  <2>6. upto[k - 1] < upto[k]
    <3>1. PICK y \in Int : y = (k - 1) * P BY <2>1
    <3>2. x = y + P /\ y < n BY <2>1, <2>3, <3>1
    <3>3. upto[k - 1] = y /\ upto[k] = IF x <= n THEN x ELSE n BY <2>2, <2>3, <3>1
    <3> QED BY <1>1, <3>2, <3>3
  <2> QED BY <1>5, <2>2, <2>5, <2>6
<1> HIDE DEF upto
<1>9. IsSequence(frames) BY <1>4 DEF IsSequence
<1> QED BY <1>2, <1>4, <1>5, <1>6, <1>7, <1>8, <1>9

(* A message is a header frame and the body frames. *)
LEMMA ContentIs ==
  ASSUME maxFrame \in Sizes, NEW k \in DOMAIN Envelopes
  PROVE  /\ IsSequence(Content(k)) /\ Len(Content(k)) = Len(BodyFrames(Envelopes[k].body)) + 1
         /\ Content(k)[1] = [type |-> "header", of |-> k]
         /\ \A j \in 1..Len(BodyFrames(Envelopes[k].body)) :
              Content(k)[j + 1] = BodyFrames(Envelopes[k].body)[j]
         /\ \A j \in 1..Len(Content(k)) : Content(k)[j].type \in {"header", "body"}
<1> DEFINE f == [type |-> "header", of |-> k]
           frames == BodyFrames(Envelopes[k].body)
<1>1. /\ IsSequence(frames) /\ \A j \in 1..Len(frames) : frames[j].type = "body"
  BY WireAssumption, BodyFramesAre
<1>2. f.type = "header" OBVIOUS
<1>3. Content(k) = <<f>> \o frames BY DEF Content
<1> HIDE DEF f, frames
<1>4. PICK T : frames \in Seq(T) BY <1>1 DEF IsSequence
<1>5. /\ <<f>> \o frames \in Seq({f} \cup T) /\ Len(<<f>> \o frames) = Len(frames) + 1
      /\ (<<f>> \o frames)[1] = f /\ Len(frames) \in Nat
      /\ \A j \in 1..Len(frames) : (<<f>> \o frames)[j + 1] = frames[j]
  BY <1>4
<1>6. \A j \in 1..(Len(frames) + 1) : j = 1 \/ \E i \in 1..Len(frames) : j = i + 1
  <2> TAKE j \in 1..(Len(frames) + 1)
  <2>1. j # 1 => j - 1 \in 1..Len(frames) /\ j = (j - 1) + 1 BY <1>5
  <2> QED BY <2>1
<1>7. \A j \in 1..Len(Content(k)) : Content(k)[j].type \in {"header", "body"}
  BY <1>1, <1>2, <1>3, <1>5, <1>6
<1> QED BY <1>3, <1>5, <1>7 DEF f, frames, IsSequence

-----------------------------------------------------------------------------
(* What the handshake and the timer need to know of the frames on their    *)
(* way: the channel is opened after the broker has tuned, and nothing comes*)
(* after the end.                                                          *)
Arriving ==
  /\ IsSequence(inbox)
  /\ \A k \in 1..Len(inbox) : /\ inbox[k].type = "connectionOpen" => stage >= 2
                              /\ inbox[k].type = "end" => silent /\ k = Len(inbox)

Greeting ==
  /\ conn # "closing"
  /\ conn = "closed" => inbox = <<>>
  /\ stage \in 0..3 /\ (stage >= 2 => conn # "protocol")
  /\ sent \in 0..Len(Envelopes) /\ maxFrame \in Sizes
  /\ Arriving

LEMMA EmptyIsSequence == IsSequence(<<>>) /\ Len(<<>>) = 0
<1>1. <<>> \in Seq({}) OBVIOUS
<1> QED BY <1>1 DEF IsSequence

(* The frames an action of the broker's puts behind the others. *)
LEMMA ServerLengthens ==
  ASSUME Greeting
  PROVE  /\ ServerAnswers => Longer(inbox, inbox', [type |-> "ok", of |-> Request])
         /\ ServerReturns => Longer(inbox, inbox', Plain("return"))
         /\ ServerGives => \/ Longer(inbox, inbox', [type |-> "empty", of |-> Request])
                           \/ Longer(inbox, inbox', [type |-> "message", of |-> Request])
         /\ ServerRefuses => Longer(inbox, inbox', Plain("refused"))
         /\ ServerDelivers => Longer(inbox, inbox', Plain("deliver"))
         /\ ServerBeats => Longer(inbox, inbox', Plain("heartbeat"))
<1>1. IsSequence(inbox) /\ maxFrame \in Sizes BY DEF Greeting, Arriving
<1>2. ASSUME NEW k \in DOMAIN Envelopes, NEW f PROVE Longer(inbox, inbox \o <<f>> \o Content(k), f)
  BY <1>1, ContentIs, LengthenedBy
<1>3. ASSUME NEW f PROVE Longer(inbox, Append(inbox, f), f) BY <1>1, Lengthened
<1>4. 1 \in DOMAIN Envelopes BY WireAssumption
<1>5. sent < Len(Envelopes) => sent + 1 \in DOMAIN Envelopes BY WireAssumption DEF Greeting
<1>6. ServerAnswers => Longer(inbox, inbox', [type |-> "ok", of |-> Request])
  BY <1>3 DEF ServerAnswers
<1>7. ServerReturns => Longer(inbox, inbox', Plain("return")) BY <1>2, <1>4 DEF ServerReturns
<1>8. ServerGives => \/ Longer(inbox, inbox', [type |-> "empty", of |-> Request])
                     \/ Longer(inbox, inbox', [type |-> "message", of |-> Request])
  BY <1>2, <1>3, <1>5 DEF ServerGives
<1>9. ServerRefuses => Longer(inbox, inbox', Plain("refused")) BY <1>3 DEF ServerRefuses
<1>10. ServerDelivers => Longer(inbox, inbox', Plain("deliver"))
  BY <1>2, <1>5 DEF ServerDelivers
<1>11. ServerBeats => Longer(inbox, inbox', Plain("heartbeat"))
  <2> SUFFICES ASSUME ServerBeats PROVE Longer(inbox, inbox', Plain("heartbeat")) OBVIOUS
  <2>1. inbox = <<>> /\ inbox' = <<Plain("heartbeat")>> BY DEF ServerBeats
  <2> DEFINE f == Plain("heartbeat")
  <2> HIDE DEF f
  <2>2. <<f>> = Append(<<>>, f) OBVIOUS
  <2> QED BY <1>3, <2>1, <2>2 DEF f
<1> QED BY <1>6, <1>7, <1>8, <1>9, <1>10, <1>11

LEMMA ArrivingLonger ==
  ASSUME Arriving, ~silent, silent' = silent, stage' = stage,
         NEW f, Longer(inbox, inbox', f), f.type \notin {"connectionOpen", "end"}
  PROVE  Arriving'
<1>1. Len(inbox) \in Nat /\ Len(inbox') \in Nat BY SequenceHas DEF Longer, Arriving
<1>2. ASSUME NEW k \in 1..Len(inbox')
      PROVE  /\ inbox'[k].type = "connectionOpen" => stage >= 2
             /\ inbox'[k].type = "end" => FALSE
  <2>1. CASE k \in 1..Len(inbox) BY <2>1 DEF Longer, Arriving
  <2>2. CASE k = Len(inbox) + 1 BY <2>2 DEF Longer
  <2>3. CASE k > Len(inbox) + 1
    <3>1. inbox'[k].type \in {"header", "body"} BY <2>3 DEF Longer
    <3> QED BY <3>1
  <2> QED BY <1>1, <2>1, <2>2, <2>3
<1> QED BY <1>2 DEF Arriving, Longer

LEMMA ArrivingShorter ==
  ASSUME Arriving, silent' = silent, stage' = stage, Shorter(inbox, inbox')
  PROVE  Arriving'
<1>1. Len(inbox) \in Nat /\ Len(inbox') \in Nat BY SequenceHas DEF Shorter, Arriving
<1>2. ASSUME NEW k \in 1..Len(inbox')
      PROVE  /\ inbox'[k].type = "connectionOpen" => stage >= 2
             /\ inbox'[k].type = "end" => silent /\ k = Len(inbox')
  <2>1. k + 1 \in 1..Len(inbox) /\ inbox'[k] = inbox[k + 1] BY <1>1 DEF Shorter
  <2> QED BY <1>1, <2>1 DEF Arriving, Shorter
<1> QED BY <1>2 DEF Arriving, Shorter

(* The broker's steps do not concern the timer. *)
LEMMA ServerGreeting == ASSUME Greeting, Server PROVE Greeting' /\ UNCHANGED <<hbVars, client>>
<1>1. /\ Arriving /\ stage \in 0..3 /\ sent \in 0..Len(Envelopes) /\ maxFrame \in Sizes
      /\ ~silent /\ conn # "closed" /\ Len(Envelopes) \in Nat
  BY WireAssumption
     DEF Greeting, Server, ServerGreets, Serves, ServerAnswers, ServerAccepts, ServerReturns,
         ServerGives, ServerRefuses, ServerDelivers, ServerBeats, ServerFails, Answering
<1>2. CASE ServerGreets
  <2>1. UNCHANGED <<hbVars, client>> /\ silent' = silent /\ sent' = sent BY <1>2 DEF ServerGreets
  <2>2. conn' = conn /\ maxFrame' = maxFrame BY <2>1 DEF hbVars, client
  <2>3. /\ stage < 3 /\ stage' = stage + 1 /\ inbox' = <<Plain(Handshake[stage'])>>
        /\ (stage = 1 => conn = "handshake")
    BY <1>2 DEF ServerGreets
  <2>4. stage' \in 1..3 BY <1>1, <2>3
  <2>5. Handshake[stage'] \in {"start", "tune", "connectionOpen"}
        /\ (Handshake[stage'] = "connectionOpen" => stage' >= 2)
    BY <2>4 DEF Handshake
  <2>6. IsSequence(inbox') /\ Len(inbox') = 1 /\ inbox'[1].type = Handshake[stage']
    <3> DEFINE f == Plain(Handshake[stage'])
    <3>1. f.type = Handshake[stage'] BY DEF Plain
    <3> HIDE DEF f
    <3>2. <<f>> \in Seq({f}) /\ Len(<<f>>) = 1 /\ <<f>>[1] = f OBVIOUS
    <3> QED BY <2>3, <3>1, <3>2 DEF f, IsSequence
  <2>7. Arriving' BY <2>5, <2>6 DEF Arriving
  <2>8. stage' >= 2 => conn # "protocol" BY <1>1, <2>3 DEF Greeting
  <2> QED BY <1>1, <2>1, <2>2, <2>4, <2>7, <2>8 DEF Greeting
<1>3. ASSUME NEW f, Longer(inbox, inbox', f), f.type \notin {"connectionOpen", "end"},
             UNCHANGED <<hbVars, client, stage, silent>>, sent' \in 0..Len(Envelopes)
      PROVE  Greeting'
  <2>1. conn' = conn /\ maxFrame' = maxFrame /\ stage' = stage BY <1>3 DEF hbVars, client
  <2>2. Arriving' BY <1>1, <1>3, ArrivingLonger
  <2> QED BY <1>1, <1>3, <2>1, <2>2 DEF Greeting
<1>4. sent < Len(Envelopes) => sent + 1 \in 0..Len(Envelopes) BY <1>1
<1>5. ASSUME NEW type PROVE Plain(type).type = type BY DEF Plain
<1>6. CASE ServerAnswers
  <2>1. UNCHANGED <<hbVars, client, stage, silent>> /\ sent' = sent BY <1>6 DEF ServerAnswers, Serves
  <2> QED BY <1>1, <1>3, <1>6, <2>1, ServerLengthens
<1>7. CASE ServerAccepts
  <2>1. UNCHANGED <<hbVars, client, stage, silent>> /\ sent' = sent /\ inbox' = inbox
    BY <1>7 DEF ServerAccepts, Serves
  <2> QED BY <2>1 DEF Greeting, Arriving, hbVars, client
<1>8. CASE ServerReturns
  <2>1. UNCHANGED <<hbVars, client, stage, silent>> /\ sent' = sent BY <1>8 DEF ServerReturns, Serves
  <2> QED BY <1>1, <1>3, <1>5, <1>8, <2>1, ServerLengthens
<1>9. CASE ServerGives
  <2>1. UNCHANGED <<hbVars, client, stage, silent>> BY <1>9 DEF ServerGives, Serves
  <2>2. sent' \in 0..Len(Envelopes) BY <1>1, <1>4, <1>9 DEF ServerGives
  <2> QED BY <1>3, <1>9, <2>1, <2>2, ServerLengthens
<1>10. CASE ServerRefuses
  <2>1. UNCHANGED <<hbVars, client, stage, silent>> /\ sent' = sent BY <1>10 DEF ServerRefuses, Serves
  <2> QED BY <1>1, <1>3, <1>5, <1>10, <2>1, ServerLengthens
<1>11. CASE ServerDelivers
  <2>1. UNCHANGED <<hbVars, client, stage, silent>> /\ sent' \in 0..Len(Envelopes)
    BY <1>1, <1>4, <1>11 DEF ServerDelivers
  <2> QED BY <1>3, <1>5, <1>11, <2>1, ServerLengthens
<1>12. CASE ServerBeats
  <2>1. UNCHANGED <<hbVars, client, stage, silent>> /\ sent' = sent BY <1>12 DEF ServerBeats, broker
  <2> QED BY <1>1, <1>3, <1>5, <1>12, <2>1, ServerLengthens
<1>13. CASE ServerFails
  <2>1. UNCHANGED <<hbVars, client, stage>> /\ sent' = sent /\ silent' = TRUE BY <1>13 DEF ServerFails
  <2>2. conn' = conn /\ maxFrame' = maxFrame /\ stage' = stage BY <2>1 DEF hbVars, client
  <2>3. PICK arrives \in {inbox, <<>>} : inbox' \in {arrives, Append(arrives, Plain("end"))}
    BY <1>13 DEF ServerFails
  <2>4. IsSequence(arrives) /\ \A k \in 1..Len(arrives) : /\ arrives[k].type = "connectionOpen" => stage >= 2
                                                          /\ arrives[k].type # "end"
    BY <1>1, <2>3, EmptyIsSequence DEF Arriving
  <2>5. CASE inbox' = arrives BY <2>1, <2>2, <2>4, <2>5 DEF Arriving, Greeting
  <2>6. CASE inbox' = Append(arrives, Plain("end"))
    <3>1. Longer(arrives, inbox', Plain("end")) BY <2>4, <2>6, Lengthened
    <3>2. Len(inbox') = Len(arrives) + 1 /\ Len(arrives) \in Nat
      <4>1. PICK S : arrives \in Seq(S) BY <2>4 DEF IsSequence
      <4> QED BY <2>6, <4>1
    <3>3. \A k \in 1..Len(inbox') : k \in 1..Len(arrives) \/ k = Len(inbox') BY <3>2
    <3>4. \A k \in 1..Len(arrives) : inbox'[k] = arrives[k] BY <3>1 DEF Longer
    <3>5. inbox'[Len(inbox')].type = "end" BY <1>5, <3>1, <3>2 DEF Longer
    <3>6. Arriving' BY <2>1, <2>2, <2>4, <3>1, <3>3, <3>4, <3>5 DEF Arriving, Longer
    <3> QED BY <1>1, <2>1, <2>2, <3>6 DEF Greeting
  <2> QED BY <1>1, <2>1, <2>2, <2>3, <2>5, <2>6 DEF Greeting
<1>14. UNCHANGED <<hbVars, client>>
  BY DEF Server, ServerGreets, Serves, ServerAnswers, ServerAccepts, ServerReturns,
         ServerGives, ServerRefuses, ServerDelivers, ServerBeats, ServerFails
<1> QED BY <1>2, <1>6, <1>7, <1>8, <1>9, <1>10, <1>11, <1>12, <1>13, <1>14 DEF Server

(* What the client does with a frame, as far as the timer sees it. *)
LEMMA ProcessFollows ==
  ASSUME IInv, Greeting, Process
  PROVE  /\ Next
         /\ inbox # <<>> /\ inbox' = Tail(inbox) /\ UNCHANGED broker
         /\ conn # "closed" /\ conn' # "closing" /\ (stage >= 2 => conn' # "protocol")
         /\ conn' = "closed" => Head(inbox).type = "end" /\ ProcessEnd
         /\ maxFrame' \in Sizes
<1>1. /\ conn \in States /\ conn # "closing" /\ IsSequence(inbox) /\ maxFrame \in Sizes
      /\ (stage >= 2 => conn # "protocol")
  BY DEF IInv, NumbersOK, Greeting, Arriving
<1>2. IoReady => conn # "closed"
  BY DEF IInv, Attachment, IoReady, attached
<1>3. ASSUME NEW to \in States, Follows(to), ReadData(to)
      PROVE  /\ Next /\ conn # "closed" /\ conn' = to /\ conn' # "closed" /\ conn' # "closing"
             /\ (stage >= 2 => conn' # "protocol")
  BY <1>1, <1>2, <1>3 DEF Next, ReadData, Follows
<1>4. ASSUME ReadData(conn)
      PROVE  /\ Next /\ conn # "closed" /\ conn' # "closed" /\ conn' # "closing"
             /\ (stage >= 2 => conn' # "protocol")
  BY <1>1, <1>3, <1>4 DEF Follows
<1>5. CASE ProcessHandshake
  <2>1. inbox # <<>> /\ inbox' = Tail(inbox) /\ UNCHANGED broker /\ maxFrame' = maxFrame
    BY <1>5 DEF ProcessHandshake, Arrives
  <2>2. CASE ReadData(IF conn = "protocol" THEN "handshake" ELSE conn)
    <3> DEFINE to == IF conn = "protocol" THEN "handshake" ELSE conn
    <3>1. to \in States /\ Follows(to) BY <1>1 DEF Follows, States
    <3> QED BY <1>1, <1>3, <2>1, <2>2, <3>1
  <2>3. CASE Arrives("connectionOpen") /\ ReadData("connected")
    <3>1. inbox[1].type = "connectionOpen" /\ 1 \in 1..Len(inbox)
      BY <1>1, <2>3, Shortened, SequenceHas DEF Arrives
    <3>2. stage >= 2 BY <3>1 DEF Greeting, Arriving
    <3>3. conn \in {"handshake", "connected"}
      BY <1>1, <1>2, <2>3, <3>2 DEF ReadData, States
    <3>4. "connected" \in States /\ Follows("connected") BY <3>3 DEF Follows, States
    <3> QED BY <1>1, <1>3, <2>1, <2>3, <3>4
  <2> QED BY <1>5, <2>2, <2>3 DEF ProcessHandshake
<1>6. CASE ProcessTune
  <2>1. inbox # <<>> /\ inbox' = Tail(inbox) /\ UNCHANGED broker /\ ReadTune
    BY <1>6 DEF ProcessTune, Arrives
  <2>2. conn = "handshake" /\ conn' = conn BY <2>1 DEF ReadTune
  <2>3. maxFrame' \in Sizes BY <1>6 DEF ProcessTune, Sizes
  <2> QED BY <1>1, <2>1, <2>2, <2>3 DEF Next
<1>7. CASE ProcessEnd
  <2>1. inbox # <<>> /\ inbox' = Tail(inbox) /\ UNCHANGED broker /\ ReadEnd /\ Head(inbox).type = "end"
        /\ maxFrame' = maxFrame
    BY <1>7 DEF ProcessEnd, Arrives
  <2>2. conn # "closed" /\ conn' = "closed" BY <1>2, <2>1 DEF ReadEnd
  <2> QED BY <1>1, <1>7, <2>1, <2>2 DEF Next
<1>8. CASE ProcessHeartbeat
  BY <1>1, <1>4, <1>8 DEF ProcessHeartbeat, Arrives
<1>9. CASE ProcessAnswer
  BY <1>1, <1>4, <1>9 DEF ProcessAnswer, Arrives
<1>10. CASE ProcessRefusal
  BY <1>1, <1>4, <1>10 DEF ProcessRefusal, Arrives
<1>11. CASE ProcessDeliver
  BY <1>1, <1>4, <1>11 DEF ProcessDeliver, Arrives
<1>12. CASE ProcessMessage
  BY <1>1, <1>4, <1>12 DEF ProcessMessage, Arrives
<1>13. CASE ProcessReturn
  BY <1>1, <1>4, <1>13 DEF ProcessReturn, Arrives
<1>14. CASE ProcessHeader
  BY <1>1, <1>4, <1>14 DEF ProcessHeader, Arrives
<1>15. CASE ProcessBody
  BY <1>1, <1>4, <1>15 DEF ProcessBody, Arrives
<1> QED BY <1>5, <1>6, <1>7, <1>8, <1>9, <1>10, <1>11, <1>12, <1>13, <1>14, <1>15 DEF Process

(* No frame the client processes breaks the handshake. *)
LEMMA ProcessGreeting ==
  ASSUME IInv, Greeting, Process
  PROVE  Greeting'
<1>1. /\ inbox # <<>> /\ inbox' = Tail(inbox) /\ UNCHANGED broker
      /\ conn' # "closing" /\ (stage >= 2 => conn' # "protocol")
      /\ conn' = "closed" => Head(inbox).type = "end"
      /\ maxFrame' \in Sizes
  BY ProcessFollows
<1>2. stage' = stage /\ silent' = silent /\ sent' = sent BY <1>1 DEF broker
<1>3. Shorter(inbox, inbox') /\ Head(inbox) = inbox[1] /\ Len(inbox) > 0
  BY <1>1, Shortened DEF Greeting, Arriving
<1>4. Arriving' BY <1>2, <1>3, ArrivingShorter DEF Greeting
<1>5. conn' = "closed" => inbox' = <<>>
  <2> SUFFICES ASSUME conn' = "closed" PROVE inbox' = <<>> OBVIOUS
  <2>1. Len(inbox) \in Nat /\ Len(inbox') \in Nat BY <1>3, SequenceHas DEF Greeting, Arriving, Shorter
  <2>2. Len(inbox) = 1
    <3>1. inbox[1].type = "end" /\ 1 \in 1..Len(inbox) BY <1>1, <1>3, <2>1
    <3> QED BY <3>1 DEF Greeting, Arriving
  <2>3. Len(inbox') = 0
    <3>1. Len(inbox) = Len(inbox') + 1 BY <1>3 DEF Shorter
    <3> DEFINE n == Len(inbox)
               k == Len(inbox')
    <3>2. n \in Nat /\ k \in Nat /\ n = 1 /\ n = k + 1 BY <2>1, <2>2, <3>1
    <3> HIDE DEF n, k
    <3>3. k = 0 BY <3>2
    <3> QED BY <3>3 DEF k
  <2> QED BY <1>3, <2>3, SequenceHas DEF Shorter
<1> QED BY <1>1, <1>2, <1>4, <1>5 DEF Greeting

(* Every step of the client's is one of the timer's, or does not touch it. *)
LEMMA GreetingNext ==
  ASSUME IInv, Greeting, [ClientNext]_clientVars
  PROVE  Greeting' /\ [Next]_hbVars
<1>1. CASE Server BY <1>1, ServerGreeting
<1>2. CASE Process BY <1>2, ProcessGreeting, ProcessFollows
<1>3. CASE Waits
  <2>1. Tick(inbox # <<>>) /\ UNCHANGED <<client, inbox, broker>> BY <1>3 DEF Waits
  <2>2. (inbox # <<>>) \in BOOLEAN /\ ((inbox # <<>>) => conn # "closed") BY DEF Greeting
  <2>3. Next BY <2>1, <2>2, Zenon DEF Next
  <2>4. conn' = conn BY <2>1 DEF Tick
  <2> QED BY <2>1, <2>3, <2>4 DEF Greeting, Arriving, client, broker
<1>4. CASE Wakes
  <2>1. Iterate(inbox # <<>>) /\ UNCHANGED <<client, inbox, broker>> BY <1>4 DEF Wakes
  <2>2. (inbox # <<>>) \in BOOLEAN /\ ((inbox # <<>>) => conn # "closed") BY DEF Greeting
  <2>3. Next BY <2>1, <2>2, Zenon DEF Next
  <2>4. conn' = conn BY <2>1 DEF Iterate
  <2> QED BY <2>1, <2>3, <2>4 DEF Greeting, Arriving, client, broker
<1>5. CASE Polls
  <2>1. PollTimer /\ UNCHANGED <<maxFrame, inbox, broker>> BY <1>5 DEF Polls
  <2>2. conn' = conn /\ Next BY <2>1 DEF PollTimer, Next
  <2> QED BY <2>1, <2>2 DEF Greeting, Arriving, broker
<1>6. CASE Resumes
  <2>1. Unblock /\ UNCHANGED <<maxFrame, inbox, broker>> BY <1>6 DEF Resumes
  <2>2. conn' = conn /\ Next BY <2>1 DEF Unblock, Next
  <2> QED BY <2>1, <2>2 DEF Greeting, Arriving, broker
<1>7. CASE Expires
  <2>1. OnExpired /\ UNCHANGED <<maxFrame, broker>> BY <1>7 DEF Expires
  <2>2. Next BY <2>1 DEF Next
  <2>3. conn' \in {conn, "closed"}
    BY <2>1 DEF OnExpired, ExpiredUnnegotiated, ExpiredInactive, ExpiredAlive, CloseNow
  <2>4. CASE conn' = "closed" /\ conn # "closed"
    <3>1. inbox' = <<>> BY <1>7, <2>4 DEF Expires
    <3>2. IsSequence(inbox') /\ Len(inbox') = 0 BY <3>1, EmptyIsSequence
    <3>3. Arriving' BY <3>2 DEF Arriving
    <3> QED BY <2>1, <2>2, <2>4, <3>1, <3>3 DEF Greeting, broker
  <2>5. CASE ~(conn' = "closed" /\ conn # "closed")
    <3>1. conn' = conn BY <2>3, <2>5
    <3>2. inbox' = inbox BY <1>7, <2>5 DEF Expires
    <3> QED BY <2>1, <2>2, <3>1, <3>2 DEF Greeting, Arriving, broker
  <2> QED BY <2>4, <2>5
<1>8. CASE UNCHANGED clientVars
  <2>1. UNCHANGED <<hbVars, maxFrame, inbox, stage, silent, sent>> BY <1>8 DEF clientVars
  <2> QED BY <2>1 DEF Greeting, Arriving, hbVars
<1> QED BY <1>1, <1>2, <1>3, <1>4, <1>5, <1>6, <1>7, <1>8 DEF ClientNext, Loop

LEMMA GreetingInit == ClientInit => Greeting
<1> SUFFICES ASSUME ClientInit PROVE Greeting OBVIOUS
<1>1. /\ conn = "protocol" /\ stage = 0 /\ sent = 0 /\ maxFrame = 4096 /\ inbox = <<>>
  BY DEF ClientInit, Init
<1>2. Len(Envelopes) \in Nat BY WireAssumption
<1>3. Arriving BY <1>1, EmptyIsSequence DEF Arriving
<1> QED BY <1>1, <1>2, <1>3 DEF Greeting, Sizes

(* The client's timer is the one Heartbeat describes, whatever the channel,*)
(* the broker and the program do.                                          *)
THEOREM ClientFollowsHeartbeat == ClientSpec => FollowsHeartbeat
<1>1. ClientInit => Init /\ IInv /\ Greeting BY InitInv, GreetingInit DEF ClientInit
<1>2. IInv /\ Greeting /\ [ClientNext]_clientVars => (IInv /\ Greeting)' /\ [Next]_hbVars
  BY GreetingNext, NextInv
<1> QED BY <1>1, <1>2, PTL DEF ClientSpec, FollowsHeartbeat, Spec

(* The handshake, the frames on their way and the timer's own invariant.   *)
THEOREM GreetingInvariance == ClientSpec => [](IInv /\ Greeting)
<1>1. ClientInit => IInv /\ Greeting BY InitInv, GreetingInit DEF ClientInit
<1>2. IInv /\ Greeting /\ [ClientNext]_clientVars => (IInv /\ Greeting)'
  BY GreetingNext, NextInv
<1> QED BY <1>1, <1>2, PTL DEF ClientSpec

-----------------------------------------------------------------------------
(* The channel, and the answers on their way to it: at most one, for the   *)
(* frame that awaits it, and as long as there is none that frame is still  *)
(* to be dealt with - unless the broker has fallen silent.                 *)
ChannelInv == Live(c, served) \/ Shut(c, served)

Fits(frame) ==
  /\ c.synchronous /\ NoneLeft(c, served)
  /\ frame.type = "refused" => open = "no"
  /\ frame.type # "refused" => frame.of = Awaited(c)
  /\ frame.type # "refused" /\ frame.of \in Ops =>
       /\ Kind[frame.of] \in Closings => open = "no"
       /\ Kind[frame.of] \in Gets <=> frame.type # "ok"
  /\ frame.type \in {"empty", "message"} => frame.of \in Ops

Matched ==
  /\ open \in {"yes", "no", "consuming"}
  /\ conn = "closed" => c.state = "closed"
  /\ c.state = "closed" => Answers = {} /\ (open = "no" \/ conn = "closed")
  /\ \A j, k \in Answers : j = k
  /\ \A k \in Answers : Fits(inbox[k])
  /\ ~silent /\ c.state # "closed" /\ Answers = {} => Owed(c, served)

(* The answers among the frames when frames are put behind them, *)
LEMMA AnswersLonger ==
  ASSUME IsSequence(inbox), NEW f, Longer(inbox, inbox', f)
  PROVE  /\ \A k \in Answers : inbox'[k] = inbox[k]
         /\ Answers' = Answers \cup IF IsAnswer(f) THEN {Len(inbox) + 1} ELSE {}
         /\ inbox'[Len(inbox) + 1] = f
<1>1. /\ Len(inbox) \in Nat /\ DOMAIN inbox = 1..Len(inbox)
      /\ Len(inbox') \in Nat /\ DOMAIN inbox' = 1..Len(inbox')
  BY SequenceHas DEF Longer
<1>2. /\ Len(inbox') > Len(inbox) /\ inbox'[Len(inbox) + 1] = f
      /\ \A k \in 1..Len(inbox) : inbox'[k] = inbox[k]
      /\ \A k \in 1..Len(inbox') : k > Len(inbox) + 1 => ~IsAnswer(inbox'[k])
  <2>1. \A k \in 1..Len(inbox') : k > Len(inbox) + 1 => inbox'[k].type \in {"header", "body"}
    BY DEF Longer
  <2>2. \A k \in 1..Len(inbox') : inbox'[k].type \in {"header", "body"} => ~IsAnswer(inbox'[k])
    BY DEF IsAnswer
  <2> QED BY <2>1, <2>2 DEF Longer
<1>3. \A k \in 1..Len(inbox') : k \in 1..Len(inbox) \/ k = Len(inbox) + 1 \/ k > Len(inbox) + 1
  BY <1>1
<1>4. 1..Len(inbox) \subseteq 1..Len(inbox') /\ Len(inbox) + 1 \in 1..Len(inbox') BY <1>1, <1>2
<1>5. Answers' = {k \in DOMAIN inbox' : IsAnswer(inbox'[k])} BY DEF Answers, IsAnswer
<1> QED BY <1>1, <1>2, <1>3, <1>4, <1>5 DEF Answers

(* and when the first is taken. *)
LEMMA AnswersShorter ==
  ASSUME IsSequence(inbox), Shorter(inbox, inbox')
  PROVE  /\ \A k \in Answers' : k + 1 \in Answers /\ k + 1 # 1 /\ inbox'[k] = inbox[k + 1]
         /\ Answers' = {} => Answers \subseteq {1}
         /\ 1 \in Answers <=> IsAnswer(inbox[1])
<1>1. /\ Len(inbox) \in Nat /\ DOMAIN inbox = 1..Len(inbox)
      /\ Len(inbox') \in Nat /\ DOMAIN inbox' = 1..Len(inbox')
      /\ Len(inbox) = Len(inbox') + 1
      /\ \A k \in 1..Len(inbox') : inbox'[k] = inbox[k + 1]
  BY SequenceHas DEF Shorter
<1>2. \A k \in 1..Len(inbox') : k + 1 \in 1..Len(inbox) /\ k + 1 # 1 BY <1>1
<1>3. \A k \in 1..Len(inbox) : k = 1 \/ (k - 1 \in 1..Len(inbox') /\ (k - 1) + 1 = k) BY <1>1
<1>4. 1 \in 1..Len(inbox) BY <1>1
<1>5. Answers' = {k \in DOMAIN inbox' : IsAnswer(inbox'[k])} BY DEF Answers, IsAnswer
<1>6. Answers' = {} => Answers \subseteq {1}
  <2> SUFFICES ASSUME Answers' = {}, NEW k \in Answers, k # 1 PROVE FALSE OBVIOUS
  <2>1. k - 1 \in 1..Len(inbox') /\ (k - 1) + 1 = k BY <1>1, <1>3 DEF Answers
  <2>2. inbox'[k - 1] = inbox[k] BY <1>1, <2>1
  <2> QED BY <1>1, <1>5, <2>1, <2>2 DEF Answers
<1> QED BY <1>1, <1>2, <1>4, <1>5, <1>6 DEF Answers

(* The broker takes the next frame. *)
LEMMA ServedOne ==
  ASSUME NEW d, NEW n, Live(d, n), n < Len(d.handed)
  PROVE  LET f == d.handed[n + 1]
         IN  /\ Live(d, n + 1) /\ f \in Frames
             /\ NoneLeft(d, n) => NoneLeft(d, n + 1)
             /\ Synchronous(f) => /\ f = Awaited(d) /\ d.synchronous
                                  /\ NoneLeft(d, n + 1) /\ ~NoneLeft(d, n)
             /\ ~Synchronous(f) => (Owed(d, n) => Owed(d, n + 1))
<1> DEFINE m == Len(d.handed)
           f == d.handed[n + 1]
<1>1. /\ d \in Chan /\ n \in Nat /\ OnlyLast(d, n) /\ m \in Nat /\ DOMAIN d.handed = 1..m
      /\ n + 1 \in 1..m /\ f \in Frames
  BY DEF Live, Working, Chan
<1>2. \A k \in 1..m : k > n => k = n + 1 \/ k > n + 1 BY <1>1
<1>3. \A k \in 1..m : k > n + 1 => k > n BY <1>1
<1>4. OnlyLast(d, n + 1) BY <1>1, <1>3 DEF OnlyLast
<1>5. NoneLeft(d, n) => NoneLeft(d, n + 1) BY <1>1, <1>3 DEF NoneLeft
<1>6. Live(d, n + 1) BY <1>1, <1>4 DEF Live, Working
<1>7. ASSUME Synchronous(f)
      PROVE  f = Awaited(d) /\ d.synchronous /\ NoneLeft(d, n + 1) /\ ~NoneLeft(d, n)
  <2>1. n + 1 = m /\ d.synchronous BY <1>1, <1>7 DEF OnlyLast
  <2>2. \A k \in 1..m : ~(k > n + 1) BY <1>1, <2>1
  <2>3. NoneLeft(d, n + 1) BY <1>1, <2>2 DEF NoneLeft
  <2>4. ~NoneLeft(d, n) BY <1>1, <1>7 DEF NoneLeft
  <2> QED BY <2>1, <2>3, <2>4 DEF Awaited
<1>8. ASSUME ~Synchronous(f), Owed(d, n) PROVE Owed(d, n + 1)
  <2>1. ASSUME NoneLeft(d, n + 1) PROVE NoneLeft(d, n)
    BY <1>1, <1>2, <1>8, <2>1 DEF NoneLeft
  <2> QED BY <1>8, <2>1 DEF Owed
<1> QED BY <1>1, <1>5, <1>6, <1>7, <1>8

(* Where no answer comes or goes, and the channel stays as it is.          *)
LEMMA MatchedSame ==
  ASSUME Matched, c' = c,
         conn' = "closed" <=> conn = "closed", open' \in {"yes", "no", "consuming"},
         open = "no" => open' = "no", silent => silent',
         NoneLeft(c, served) => NoneLeft(c, served'),
         ~silent' /\ Owed(c, served) => Owed(c, served'),
         \A k \in Answers' : \E j \in Answers : inbox'[k] = inbox[j],
         \A j, k \in Answers' : j = k,
         ~silent' /\ Answers' = {} => Answers = {}
  PROVE  Matched'
<1>1. \A k \in Answers : Fits(inbox[k]) BY DEF Matched
<1>2. ASSUME NEW k \in Answers' PROVE Fits(inbox[k])'
  <2>1. PICK j \in Answers : inbox'[k] = inbox[j] OBVIOUS
  <2>2. Fits(inbox[j]) BY <1>1
  <2> QED BY <2>1, <2>2 DEF Fits, NoneLeft, Awaited, Matched
<1>3. c.state = "closed" => Answers' = {} /\ (open' = "no" \/ conn' = "closed") BY DEF Matched
<1>4. conn' = "closed" => c.state = "closed" BY DEF Matched
<1>5. ~silent' /\ c.state # "closed" /\ Answers' = {} => Owed(c, served') BY DEF Matched
<1> QED BY <1>2, <1>3, <1>4, <1>5 DEF Matched, Owed, NoneLeft

(* Where the program uses the channel, and the frames stay as they are.    *)
LEMMA MatchedUsed ==
  ASSUME Matched, UNCHANGED <<inbox, served, open, silent>>, conn' = conn,
         c.state = "closed" <=> c'.state = "closed",
         c.state # "closed" => /\ c.synchronous => c'.synchronous /\ c'.handed = c.handed
                               /\ Owed(c, served) => Owed(c', served)
  PROVE  Matched'
<1>1. Answers' = Answers BY DEF Answers, IsAnswer
<1>2. \A k \in Answers : Fits(inbox[k])'
  BY DEF Matched, Fits, NoneLeft, Awaited
<1>3. ~silent /\ c'.state # "closed" /\ Answers = {} => Owed(c', served) BY DEF Matched
<1> QED BY <1>1, <1>2, <1>3 DEF Matched, Owed, NoneLeft

(* A request that is answered is the one that is awaited.                  *)
LEMMA ServesOne ==
  ASSUME ChannelInv, Matched, Serves
  PROVE  /\ c' = c /\ Live(c, served') /\ c.state # "closed" /\ Request \in Frames
         /\ UNCHANGED <<hbVars, client, stage, silent>> /\ conn' = conn /\ ~silent /\ open # "no"
         /\ NoneLeft(c, served) => NoneLeft(c, served')
         /\ Synchronous(Request) => /\ Request = Awaited(c) /\ c.synchronous
                                    /\ NoneLeft(c, served') /\ Answers = {}
         /\ ~Synchronous(Request) => (Owed(c, served) => Owed(c, served'))
<1>1. /\ UNCHANGED <<hbVars, client, stage, silent>> /\ ~silent /\ conn = "connected" /\ open # "no"
      /\ served' = served + 1 /\ served < Len(c.handed)
  BY DEF Serves, Answering
<1>2. c' = c /\ conn' = conn BY <1>1 DEF client, hbVars
<1>3. c.state # "closed" BY <1>1 DEF Matched
<1>4. Live(c, served) BY <1>3 DEF ChannelInv, Shut
<1>5. Request = c.handed[served + 1] BY <1>1 DEF Request
<1>6. /\ Live(c, served') /\ Request \in Frames
      /\ NoneLeft(c, served) => NoneLeft(c, served')
      /\ Synchronous(Request) => /\ Request = Awaited(c) /\ c.synchronous
                                 /\ NoneLeft(c, served') /\ ~NoneLeft(c, served)
      /\ ~Synchronous(Request) => (Owed(c, served) => Owed(c, served'))
  BY <1>1, <1>4, <1>5, ServedOne
<1>7. Synchronous(Request) => Answers = {} BY <1>6 DEF Matched, Fits
<1> QED BY <1>1, <1>2, <1>3, <1>6, <1>7

(* An answer that is put behind the other frames. *)
LEMMA MatchedAnswered ==
  ASSUME Matched, Arriving, c' = c, conn' = conn, c.state # "closed", Answers = {},
         NEW f, IsAnswer(f), Longer(inbox, inbox', f), Fits(f)',
         open' \in {"yes", "no", "consuming"}
  PROVE  Matched'
<1>1. IsSequence(inbox) BY DEF Arriving
<1>2. Answers' = {Len(inbox) + 1} /\ inbox'[Len(inbox) + 1] = f BY <1>1, AnswersLonger
<1>3. \A k \in Answers' : Fits(inbox[k])' BY <1>2 DEF Fits, NoneLeft, Awaited
<1>4. conn' # "closed" BY DEF Matched
<1> QED BY <1>2, <1>3, <1>4 DEF Matched

(* A frame that is no answer, and perhaps a message that follows it.       *)
LEMMA MatchedLonger ==
  ASSUME Matched, Arriving, c' = c, conn' = conn, open' = open, silent' = silent,
         NEW f, ~IsAnswer(f), Longer(inbox, inbox', f),
         NoneLeft(c, served) => NoneLeft(c, served'), Owed(c, served) => Owed(c, served')
  PROVE  Matched'
<1>1. IsSequence(inbox) BY DEF Arriving
<1>2. Answers' = Answers /\ \A k \in Answers : inbox'[k] = inbox[k] BY <1>1, AnswersLonger
<1>3. /\ \A k \in Answers' : \E j \in Answers : inbox'[k] = inbox[j]
      /\ \A j, k \in Answers' : j = k
      /\ ~silent' /\ Answers' = {} => Answers = {}
  BY <1>2 DEF Matched
<1>4. open' \in {"yes", "no", "consuming"} BY DEF Matched
<1> QED BY <1>3, <1>4, MatchedSame

(* No step of the broker's brings a second answer. *)
LEMMA ServerMatched ==
  ASSUME Greeting, ChannelInv, Matched, Server
  PROVE  ChannelInv' /\ Matched'
<1>1. Arriving /\ IsSequence(inbox) BY DEF Greeting, Arriving
<1>2. ASSUME NEW type PROVE Plain(type).type = type BY DEF Plain
<1>3. ASSUME c' = c, served' = served PROVE ChannelInv' BY <1>3 DEF ChannelInv
<1>4. open \in {"yes", "no", "consuming"} BY DEF Matched
<1>5. CASE ServerGreets
  <2>1. /\ UNCHANGED <<hbVars, client, served, open, silent, sent>> /\ inbox = <<>>
        /\ inbox' = <<Plain(Handshake[stage'])>> /\ stage < 3 /\ stage' = stage + 1
    BY <1>5 DEF ServerGreets
  <2>2. c' = c /\ conn' = conn BY <2>1 DEF client, hbVars
  <2> DEFINE f == Plain(Handshake[stage'])
  <2>3. ~IsAnswer(f)
    <3>1. stage' \in 1..3 BY <2>1 DEF Greeting
    <3>2. Handshake[stage'] \in {"start", "tune", "connectionOpen"} BY <3>1 DEF Handshake
    <3> QED BY <1>2, <3>2 DEF IsAnswer
  <2> HIDE DEF f
  <2>4. Longer(inbox, inbox', f)
    <3>1. inbox' = Append(inbox, f)
      <4>1. <<f>> = Append(<<>>, f) OBVIOUS
      <4> QED BY <2>1, <4>1 DEF f
    <3> QED BY <1>1, <3>1, Lengthened
  <2>5. Matched' BY <1>1, <2>1, <2>2, <2>3, <2>4, MatchedLonger
  <2> QED BY <1>3, <2>1, <2>2, <2>5
<1>6. ASSUME Serves
      PROVE  /\ ChannelInv' /\ c' = c /\ conn' = conn /\ c.state # "closed" /\ silent' = silent
             /\ open # "no"
    BY <1>6, ServesOne DEF ChannelInv
<1>7. CASE ServerAnswers
  <2>0. PICK r : r = Request OBVIOUS
  <2> DEFINE f == [type |-> "ok", of |-> r]
  <2>1. Serves /\ Synchronous(r) /\ Longer(inbox, inbox', f)
    BY <1>7, <2>0, ServerLengthens DEF ServerAnswers
  <2>2. f.type = "ok" /\ f.of = r OBVIOUS
  <2> HIDE DEF f
  <2>3. c.synchronous /\ NoneLeft(c, served') /\ r = Awaited(c) /\ Answers = {}
    BY <2>0, <2>1, ServesOne
  <2>4. open' = IF Requests(Consumers) THEN "consuming"
                ELSE IF Requests(Cancels) THEN "yes"
                ELSE IF Requests(Closings) THEN "no" ELSE open
    BY <1>7 DEF ServerAnswers
  <2>5. r \in Ops /\ Kind[r] \in Closings => open' = "no"
    BY <2>0, <2>4 DEF Requests, Closings, Consumers, Cancels
  <2>6. r \in Ops => Kind[r] \notin Gets BY <1>7, <2>0 DEF ServerAnswers, Requests
  <2>7. Fits(f)' BY <1>6, <2>1, <2>2, <2>3, <2>5, <2>6 DEF Fits, NoneLeft, Awaited
  <2>8. open' \in {"yes", "no", "consuming"} BY <1>4, <2>4
  <2>9. IsAnswer(f) BY <2>2 DEF IsAnswer
  <2>10. Matched' BY <1>1, <1>6, <2>1, <2>3, <2>7, <2>8, <2>9, MatchedAnswered
  <2> QED BY <1>6, <2>1, <2>10
<1>8. CASE ServerAccepts
  <2>1. Serves /\ ~Synchronous(Request) /\ inbox' = inbox /\ open' = open BY <1>8 DEF ServerAccepts
  <2>2. (NoneLeft(c, served) => NoneLeft(c, served')) /\ (Owed(c, served) => Owed(c, served'))
    BY <2>1, ServesOne
  <2>3. Answers' = Answers BY <2>1 DEF Answers, IsAnswer
  <2>4. \A j, k \in Answers' : j = k BY <2>3 DEF Matched
  <2>5. Matched' BY <1>4, <1>6, <2>1, <2>2, <2>3, <2>4, MatchedSame
  <2> QED BY <1>6, <2>1, <2>5
<1>9. CASE ServerReturns
  <2>1. Serves /\ Request = "publish" /\ open' = open BY <1>9 DEF ServerReturns
  <2>2. ~Synchronous(Request) BY <2>1 DEF Synchronous, Async
  <2>3. (NoneLeft(c, served) => NoneLeft(c, served')) /\ (Owed(c, served) => Owed(c, served'))
    BY <2>1, <2>2, ServesOne
  <2>4. Longer(inbox, inbox', Plain("return")) /\ ~IsAnswer(Plain("return"))
    BY <1>2, <1>9, ServerLengthens DEF IsAnswer
  <2>5. Matched' BY <1>1, <1>6, <2>1, <2>3, <2>4, MatchedLonger
  <2> QED BY <1>6, <2>1, <2>5
<1>10. CASE ServerGives
  <2>0. PICK r : r = Request OBVIOUS
  <2>1. Serves /\ open' = open BY <1>10 DEF ServerGives
  <2>2. r \in Ops /\ Kind[r] \in Gets BY <1>10, <2>0 DEF ServerGives, Requests
  <2>3. /\ c.synchronous /\ NoneLeft(c, served') /\ r = Awaited(c) /\ Answers = {}
    BY <2>0, <2>1, <2>2, OpsAreSynchronous, ServesOne
  <2>4. PICK type \in {"empty", "message"} : Longer(inbox, inbox', [type |-> type, of |-> r])
    BY <1>10, <2>0, ServerLengthens
  <2> DEFINE f == [type |-> type, of |-> r]
  <2>5. f.type = type /\ f.of = r OBVIOUS
  <2>6. Longer(inbox, inbox', f) BY <2>4
  <2>7. Kind[r] \notin Closings BY <2>2 DEF Gets, Closings
  <2> HIDE DEF f
  <2>8. Fits(f)' BY <1>6, <2>1, <2>2, <2>3, <2>4, <2>5, <2>7 DEF Fits, NoneLeft, Awaited
  <2>9. IsAnswer(f) BY <2>4, <2>5 DEF IsAnswer
  <2>10. Matched' BY <1>1, <1>4, <1>6, <2>1, <2>3, <2>6, <2>8, <2>9, MatchedAnswered
  <2> QED BY <1>6, <2>1, <2>10
<1>11. CASE ServerRefuses
  <2>1. Serves /\ open' = "no" /\ Request \in Ops BY <1>11 DEF ServerRefuses, Requests
  <2>2. c.synchronous /\ NoneLeft(c, served') /\ Answers = {}
    BY <2>1, OpsAreSynchronous, ServesOne
  <2>3. Longer(inbox, inbox', Plain("refused")) BY <1>11, ServerLengthens
  <2> DEFINE f == Plain("refused")
  <2>4. Longer(inbox, inbox', f) /\ f.type = "refused" BY <1>2, <2>3
  <2> HIDE DEF f
  <2>5. Fits(f)' BY <1>6, <2>1, <2>2, <2>4 DEF Fits, NoneLeft
  <2>6. IsAnswer(f) BY <2>4 DEF IsAnswer
  <2>7. Matched' BY <1>1, <1>6, <2>1, <2>2, <2>4, <2>5, <2>6, MatchedAnswered
  <2> QED BY <1>6, <2>1, <2>7
<1>12. CASE ServerDelivers
  <2>1. UNCHANGED <<hbVars, client, stage, served, open, silent>> BY <1>12 DEF ServerDelivers
  <2>2. c' = c /\ conn' = conn BY <2>1 DEF client, hbVars
  <2>3. Longer(inbox, inbox', Plain("deliver")) /\ ~IsAnswer(Plain("deliver"))
    BY <1>2, <1>12, ServerLengthens DEF IsAnswer
  <2>4. Matched' BY <1>1, <2>1, <2>2, <2>3, MatchedLonger
  <2> QED BY <1>3, <2>1, <2>2, <2>4
<1>13. CASE ServerBeats
  <2>1. UNCHANGED <<hbVars, client, stage, served, open, silent>> BY <1>13 DEF ServerBeats, broker
  <2>2. c' = c /\ conn' = conn BY <2>1 DEF client, hbVars
  <2>3. Longer(inbox, inbox', Plain("heartbeat")) /\ ~IsAnswer(Plain("heartbeat"))
    BY <1>2, <1>13, ServerLengthens DEF IsAnswer
  <2>4. Matched' BY <1>1, <2>1, <2>2, <2>3, MatchedLonger
  <2> QED BY <1>3, <2>1, <2>2, <2>4
<1>14. CASE ServerFails
  <2>1. UNCHANGED <<hbVars, client, stage, served>> /\ silent' = TRUE /\ open' = "no"
    BY <1>14 DEF ServerFails
  <2>2. c' = c /\ conn' = conn BY <2>1 DEF client, hbVars
  <2>3. PICK arrives \in {inbox, <<>>} : inbox' \in {arrives, Append(arrives, Plain("end"))}
    BY <1>14 DEF ServerFails
  <2>4. \A k \in Answers' : k \in Answers /\ inbox'[k] = inbox[k]
    <3>0. Answers' = {k \in DOMAIN inbox' : IsAnswer(inbox'[k])} BY DEF Answers, IsAnswer
    <3>1. CASE inbox' = inbox BY <3>0, <3>1 DEF Answers
    <3>2. CASE inbox' = <<>> BY <3>0, <3>2
    <3>3. CASE inbox' = Append(inbox, Plain("end"))
      <4>1. Longer(inbox, inbox', Plain("end")) BY <1>1, <3>3, Lengthened
      <4>2. ~IsAnswer(Plain("end")) BY <1>2 DEF IsAnswer
      <4> QED BY <1>1, <4>1, <4>2, AnswersLonger
    <3>4. CASE inbox' = Append(<<>>, Plain("end"))
      <4> DEFINE f == Plain("end")
      <4>1. f.type = "end" BY <1>2
      <4> HIDE DEF f
      <4>2. inbox' = Append(<<>>, f) BY <3>4 DEF f
      <4>3. \A k \in DOMAIN inbox' : inbox'[k] = f BY <4>2
      <4> QED BY <3>0, <4>1, <4>3 DEF IsAnswer
    <3> QED BY <2>3, <3>1, <3>2, <3>3, <3>4
  <2>5. \A j, k \in Answers' : j = k BY <2>4 DEF Matched
  <2>6. Matched' BY <2>1, <2>2, <2>4, <2>5, MatchedSame
  <2> QED BY <1>3, <2>1, <2>2, <2>6
<1> QED BY <1>5, <1>7, <1>8, <1>9, <1>10, <1>11, <1>12, <1>13, <1>14 DEF Server

(* No answer is on its way any more. *)
LEMMA MatchedDone ==
  ASSUME Matched, Answers' = {}, UNCHANGED <<served, open, silent>>,
         conn' = "closed" => c'.state = "closed",
         c'.state = "closed" => open = "no" \/ conn' = "closed",
         c'.state # "closed" => Owed(c', served)
  PROVE  Matched'
BY DEF Matched, Owed, NoneLeft

(* The connection is gone, or the broker refuses. *)
LEMMA FailedShuts == ASSUME ChannelInv PROVE Shut(Failed, served)
BY ErrorShuts DEF ChannelInv, Live, Shut, Failed

(* The answer that is processed is the only one, for the oldest operation. *)
LEMMA ProcessMatched ==
  ASSUME IInv, Greeting, Greeting', ChannelInv, Matched, Process
  PROVE  ChannelInv' /\ Matched'
<1>1. /\ inbox # <<>> /\ inbox' = Tail(inbox) /\ UNCHANGED <<served, open, silent>>
      /\ conn # "closed" /\ (conn' = "closed" => Head(inbox).type = "end")
  BY ProcessFollows DEF broker
<1>2. IsSequence(inbox) /\ Shorter(inbox, inbox') /\ Head(inbox) = inbox[1]
  BY <1>1, Shortened DEF Greeting, Arriving
<1>3. /\ \A k \in Answers' : k + 1 \in Answers /\ k + 1 # 1 /\ inbox'[k] = inbox[k + 1]
      /\ Answers' = {} => Answers \subseteq {1}
      /\ 1 \in Answers <=> IsAnswer(inbox[1])
  BY <1>2, AnswersShorter
<1>4. ASSUME c' = c, ~IsAnswer(Head(inbox)), Head(inbox).type # "end"
      PROVE  ChannelInv' /\ Matched'
  <2>1. conn' # "closed" BY <1>1, <1>4
  <2>2. \A j, k \in Answers' : j = k
    <3> TAKE j \in Answers', k \in Answers'
    <3>1. j + 1 = k + 1 BY <1>3 DEF Matched
    <3>2. j \in Nat /\ k \in Nat
      <4>1. Answers' \subseteq DOMAIN inbox' BY DEF Answers, IsAnswer
      <4>2. DOMAIN inbox' = 1..Len(inbox') /\ Len(inbox') \in Nat
        BY <1>2, SequenceHas DEF Shorter
      <4> QED BY <4>1, <4>2
    <3> QED BY <3>1, <3>2
  <2>3. Answers' = {} => Answers = {} BY <1>2, <1>3, <1>4
  <2>4. open' \in {"yes", "no", "consuming"} BY <1>1 DEF Matched
  <2>5. Matched' BY <1>1, <1>3, <1>4, <2>1, <2>2, <2>3, <2>4, MatchedSame
  <2> QED BY <1>1, <1>4, <2>5 DEF ChannelInv
<1>5. ASSUME IsAnswer(Head(inbox))
      PROVE  /\ Fits(Head(inbox)) /\ Answers' = {} /\ conn' # "closed" /\ Live(c, served)
             /\ Head(inbox).type # "refused" /\ Head(inbox).of # Open =>
                  Head(inbox).of = c.oldest /\ c.oldest \in Ops
  <2>1. 1 \in Answers BY <1>2, <1>3, <1>5
  <2>2. Fits(Head(inbox)) /\ Answers' = {} BY <1>2, <1>3, <2>1 DEF Matched
  <2>3. c.state # "closed" /\ Live(c, served) BY <2>1 DEF Matched, ChannelInv, Shut
  <2>4. conn' # "closed" BY <1>1, <1>5 DEF IsAnswer
  <2>5. ASSUME Head(inbox).type # "refused", Head(inbox).of # Open
        PROVE  Head(inbox).of = c.oldest /\ c.oldest \in Ops
    <3>1. Head(inbox).of = c.oldest /\ c.oldest \in Left(c)
      BY <2>2, <2>3, <2>5, AwaitedIsOldest DEF Fits
    <3>2. Left(c) \subseteq Ops BY <2>3, LeftAsked, AskedOps DEF Live, Working
    <3> QED BY <3>1, <3>2
  <2> QED BY <2>2, <2>3, <2>4, <2>5
<1>6. ASSUME Live(c', served), Owed(c', served), Answers' = {}, conn' # "closed"
      PROVE  ChannelInv' /\ Matched'
  <2>1. c'.state # "closed" BY <1>6 DEF Live
  <2>2. Matched' BY <1>1, <1>6, <2>1, MatchedDone
  <2> QED BY <1>1, <1>6, <2>2 DEF ChannelInv
<1>7. ASSUME Shut(c', served), Answers' = {}, open = "no" \/ conn' = "closed"
      PROVE  ChannelInv' /\ Matched'
  <2>1. c'.state = "closed" BY <1>7 DEF Shut
  <2>2. Matched' BY <1>1, <1>7, <2>1, MatchedDone
  <2> QED BY <1>1, <1>7, <2>2 DEF ChannelInv
<1>8. CASE ProcessHandshake
  BY <1>4, <1>8 DEF ProcessHandshake, Arrives, IsAnswer
<1>9. CASE ProcessTune BY <1>4, <1>9 DEF ProcessTune, Arrives, IsAnswer
<1>10. CASE ProcessHeartbeat BY <1>4, <1>10 DEF ProcessHeartbeat, Arrives, IsAnswer
<1>11. CASE ProcessDeliver BY <1>4, <1>11 DEF ProcessDeliver, Arrives, IsAnswer
<1>12. CASE ProcessReturn BY <1>4, <1>12 DEF ProcessReturn, Arrives, IsAnswer
<1>13. CASE ProcessHeader BY <1>4, <1>13 DEF ProcessHeader, Arrives, IsAnswer
<1>14. CASE ProcessBody BY <1>4, <1>14 DEF ProcessBody, Arrives, IsAnswer
<1>15. CASE ProcessAnswer
  <2> DEFINE f == Head(inbox)
  <2>1. /\ f.type \in {"ok", "empty"}
        /\ c' = IF f.of = Open THEN reportReady(c)
                ELSE IF Kind[f.of] \in Closings THEN reportClosed(c)
                ELSE reportSuccess(c, f.type)
    BY <1>15 DEF ProcessAnswer, Arrives
  <2>2. IsAnswer(f) BY <2>1 DEF IsAnswer
  <2>3. /\ c.synchronous /\ NoneLeft(c, served) /\ f.of = Awaited(c) /\ Answers' = {}
        /\ conn' # "closed" /\ Live(c, served)
        /\ (f.of \in Ops /\ Kind[f.of] \in Closings => open = "no")
        /\ (f.of # Open => f.of = c.oldest /\ c.oldest \in Ops)
    BY <1>5, <2>1, <2>2 DEF Fits
  <2> HIDE DEF f
  <2>4. CASE f.of = Open
    <3>1. Live(c', served) /\ Owed(c', served) BY <2>1, <2>3, <2>4, LiveReady
    <3> QED BY <1>6, <2>3, <3>1
  <2>5. CASE f.of # Open /\ Kind[f.of] \in Closings
    <3>1. Shut(c', served) BY <2>1, <2>3, <2>5, ClosedShuts
    <3> QED BY <1>7, <2>3, <2>5, <3>1
  <2>6. CASE f.of # Open /\ Kind[f.of] \notin Closings
    <3>1. f.type \in Replies BY <2>1 DEF Replies
    <3>2. Live(c', served) /\ Owed(c', served) BY <2>1, <2>3, <2>6, <3>1, LiveSuccess
    <3> QED BY <1>6, <2>3, <3>2
  <2> QED BY <2>4, <2>5, <2>6
<1>16. CASE ProcessMessage
  <2>1. Head(inbox).type = "message" /\ c' = reportSuccess(c, "message")
    BY <1>16 DEF ProcessMessage, Arrives
  <2>2. Fits(Head(inbox)) /\ Answers' = {} /\ conn' # "closed" /\ Live(c, served)
        /\ (Head(inbox).of # Open => Head(inbox).of = c.oldest)
    BY <1>5, <2>1 DEF IsAnswer
  <2>3. /\ c.synchronous /\ NoneLeft(c, served) /\ Head(inbox).of = Awaited(c)
        /\ Head(inbox).of \in Ops /\ Kind[Head(inbox).of] \in Gets
    BY <2>1, <2>2 DEF Fits
  <2>4. Head(inbox).of # Open BY <2>3, CallsAssumption
  <2>5. Kind[c.oldest] \notin Closings BY <2>2, <2>3, <2>4 DEF Gets, Closings
  <2>6. "message" \in Replies BY DEF Replies
  <2>7. Live(c', served) /\ Owed(c', served)
    BY <2>1, <2>2, <2>3, <2>4, <2>5, <2>6, LiveSuccess
  <2> QED BY <1>6, <2>2, <2>7
<1>17. CASE ProcessRefusal
  <2>1. Head(inbox).type = "refused" /\ c' = reportError(c) BY <1>17 DEF ProcessRefusal, Arrives
  <2>2. Fits(Head(inbox)) /\ Answers' = {} /\ Live(c, served) BY <1>5, <2>1 DEF IsAnswer
  <2>3. open = "no" /\ Shut(c', served) BY <2>1, <2>2, ErrorShuts DEF Fits, Live
  <2> QED BY <1>7, <2>2, <2>3
<1>18. CASE ProcessEnd
  <2>1. c' = Failed /\ conn' = "closed" BY <1>18 DEF ProcessEnd, ReadEnd
  <2>2. inbox' = <<>> BY <2>1 DEF Greeting
  <2>3. Answers' = {} BY <2>2 DEF Answers, IsAnswer
  <2>4. Shut(c', served) BY <2>1, FailedShuts
  <2> QED BY <1>7, <2>1, <2>3, <2>4
<1> QED BY <1>8, <1>9, <1>10, <1>11, <1>12, <1>13, <1>14, <1>15, <1>16, <1>17, <1>18 DEF Process

(* The program's own calls: of publish() and the acknowledgements, and of  *)
(* the operations that it asks for later.                                  *)
LEMMA SendMatched ==
  ASSUME ChannelInv, Matched, UNCHANGED <<inbox, served, open, silent>>, conn' = conn,
         NEW f \in Async, c' = send(c, f)
  PROVE  ChannelInv' /\ Matched'
<1>1. f \in Frames BY DEF Frames
<1>2. CASE Live(c, served)
  <2>1. Live(c', served) BY <1>2, LiveSend
  <2>2. c.state # "closed" /\ c'.state # "closed" BY <1>2, <2>1 DEF Live
  <2>3. c \in Chan /\ served \in Nat /\ Len(c.handed) >= served BY <1>2 DEF Live, Working
  <2>4. /\ c.synchronous => c'.synchronous /\ c'.handed = c.handed
        /\ Owed(c, served) => Owed(c', served)
    BY <1>1, <2>3, OwedSend
  <2>5. Matched' BY <2>2, <2>4, MatchedUsed
  <2> QED BY <2>1, <2>5 DEF ChannelInv
<1>3. CASE Shut(c, served)
  <2>1. c \in Chan /\ c.state = "closed" BY <1>3 DEF Shut
  <2>2. c' = c BY <1>1, <2>1, SendKeeps
  <2>3. Matched' BY <2>1, <2>2, MatchedUsed
  <2> QED BY <1>3, <2>2, <2>3 DEF ChannelInv
<1> QED BY <1>2, <1>3 DEF ChannelInv

LEMMA AskMatched ==
  ASSUME ChannelInv, Matched, UNCHANGED <<inbox, served, open, silent>>, conn' = conn,
         NEW op \in Extras \ Asked(c), c' = ask(c, op)
  PROVE  ChannelInv' /\ Matched'
<1>1. op \in Ops /\ op \notin Asked(c) BY ClientAssumption
<1>2. Reason(c, op) BY DEF Reason
<1>3. CASE Live(c, served)
  <2>1. Working(c, {}, served) /\ c.state # "closed" BY <1>3 DEF Live
  <2>2. /\ Working(c', {}, served) /\ (c'.state = "closed" <=> c.state = "closed")
        /\ Owed(c, served) => Owed(c', served)
    BY <1>1, <1>2, <2>1, AskWorking
  <2>3. c \in Chan /\ served \in Nat /\ Len(c.handed) >= served BY <2>1 DEF Working
  <2>4. c.synchronous => c'.synchronous /\ c'.handed = c.handed
    <3>1. op \in Frames BY <1>1, OpsAreSynchronous
    <3>2. c'.synchronous = send(c, op).synchronous /\ c'.handed = send(c, op).handed
      BY <1>1, <2>3, AskKeeps DEF Pushed
    <3>3. c.synchronous => send(c, op).synchronous /\ send(c, op).handed = c.handed
      BY <2>3, <3>1, OwedSend
    <3> QED BY <3>2, <3>3
  <2>5. Matched' BY <2>1, <2>2, <2>4, MatchedUsed
  <2> QED BY <2>1, <2>2, <2>5 DEF ChannelInv, Live
<1>4. CASE Shut(c, served)
  <2>1. Shut(c', served) BY <1>1, <1>2, <1>4, ShutAsk
  <2>2. c.state = "closed" /\ c'.state = "closed" BY <1>4, <2>1 DEF Shut
  <2>3. Matched' BY <2>2, MatchedUsed
  <2> QED BY <2>1, <2>3 DEF ChannelInv
<1> QED BY <1>3, <1>4 DEF ChannelInv

(* ChannelInv and Matched are inductive, relative to Greeting. *)
LEMMA MatchedNext ==
  ASSUME IInv, Greeting, Greeting', ChannelInv, Matched, [ClientNext]_clientVars
  PROVE  ChannelInv' /\ Matched'
<1>1. ASSUME c' = c, conn' = conn, UNCHANGED <<inbox, served, open, silent>>
      PROVE  ChannelInv' /\ Matched'
  <2>1. Matched' BY <1>1, MatchedUsed
  <2> QED BY <1>1, <2>1 DEF ChannelInv
<1>2. CASE Server BY <1>2, ServerMatched
<1>3. CASE Process BY <1>3, ProcessMatched
<1>4. CASE Waits BY <1>1, <1>4 DEF Waits, Tick, client, broker
<1>5. CASE Wakes BY <1>1, <1>5 DEF Wakes, Iterate, client, broker
<1>6. CASE Polls
  <2>1. conn' = conn /\ UNCHANGED <<inbox, served, open, silent>>
    BY <1>6 DEF Polls, PollTimer, broker
  <2>2. CASE c' = c BY <1>1, <2>1, <2>2
  <2>3. CASE c' = publish(c, "publish")
    <3>1. "publish" \in Async BY DEF Async
    <3> QED BY <2>1, <2>3, <3>1, SendMatched DEF publish
  <2>4. CASE \E op \in Extras \ ToSet(c.asked) : c' = ask(c, op)
    BY <2>1, <2>4, AskMatched DEF Asked
  <2> QED BY <1>6, <2>2, <2>3, <2>4 DEF Polls
<1>7. CASE Resumes
  <2>1. conn' = conn /\ UNCHANGED <<inbox, served, open, silent>>
    BY <1>7 DEF Resumes, Unblock, broker
  <2>2. c' = c \/ \E f \in {"ack", "reject"} : c' = send(c, f) BY <1>7 DEF Resumes
  <2>3. {"ack", "reject"} \subseteq Async BY DEF Async
  <2> QED BY <1>1, <2>1, <2>2, <2>3, SendMatched
<1>8. CASE Expires
  <2>1. UNCHANGED <<served, open, silent>> BY <1>8 DEF Expires, broker
  <2>2. conn' \in {conn, "closed"}
    BY <1>8 DEF Expires, OnExpired, ExpiredUnnegotiated, ExpiredInactive, ExpiredAlive, CloseNow
  <2>3. CASE conn' = "closed" /\ conn # "closed"
    <3>1. c' = Failed /\ inbox' = <<>> BY <1>8, <2>3 DEF Expires
    <3>2. Shut(c', served) BY <3>1, FailedShuts
    <3>3. Answers' = {} BY <3>1 DEF Answers, IsAnswer
    <3>4. c'.state = "closed" BY <3>2 DEF Shut
    <3>5. Matched' BY <2>1, <2>3, <3>3, <3>4, MatchedDone
    <3> QED BY <2>1, <3>2, <3>5 DEF ChannelInv
  <2>4. CASE ~(conn' = "closed" /\ conn # "closed")
    BY <1>1, <1>8, <2>1, <2>2, <2>4 DEF Expires
  <2> QED BY <2>3, <2>4
<1>9. CASE UNCHANGED clientVars BY <1>1, <1>9 DEF clientVars, hbVars
<1> QED BY <1>2, <1>3, <1>4, <1>5, <1>6, <1>7, <1>8, <1>9 DEF ClientNext, Loop

LEMMA MatchedInit == ClientInit => ChannelInv /\ Matched
<1> SUFFICES ASSUME ClientInit PROVE ChannelInv /\ Matched OBVIOUS
<1>1. /\ conn = "protocol" /\ c = askAll(Attached, Start) /\ inbox = <<>> /\ served = 0
      /\ open = "yes"
  BY DEF ClientInit, Init
<1>2. Live(c, served) BY <1>1, AttachedLive
<1>3. Answers = {} BY <1>1 DEF Answers
<1>4. Owed(c, 0) BY <1>1, AttachedLive
<1>5. c.state # "closed" BY <1>2 DEF Live
<1> QED BY <1>1, <1>2, <1>3, <1>4, <1>5 DEF ChannelInv, Matched

(* The inductive invariant of the channel, its queue and its answers.      *)
THEOREM ChannelInvariance == ClientSpec => [](ChannelInv /\ Matched)
<1>1. ClientInit => ChannelInv /\ Matched BY MatchedInit
<1>2. IInv /\ Greeting /\ Greeting' /\ (ChannelInv /\ Matched) /\ [ClientNext]_clientVars
        => (ChannelInv /\ Matched)'
  BY MatchedNext
<1> QED BY <1>1, <1>2, GreetingInvariance, PTL DEF ClientSpec

-----------------------------------------------------------------------------
(* The run's invariants follow from the inductive ones. *)
LEMMA KeptHolds == ASSUME ChannelInv PROVE OperationsKept
<1> SUFFICES ASSUME c.state # "closed" PROVE Listed(c, Unreported) BY DEF OperationsKept
<1>1. Listed(c, Left(c) \cup {}) BY DEF ChannelInv, Live, Shut, Working
<1>2. Left(c) \cup {} = Unreported BY DEF Left, Asked, Unreported
<1> QED BY <1>1, <1>2

LEMMA OnceHolds == ASSUME ChannelInv PROVE ReportedOnce
<1>1. Reports(c) BY DEF ChannelInv, Live, Shut, Working
<1>2. \A op \in Ops : Len(c.results[op]) <= 1
  <2> TAKE op \in Ops
  <2>1. CASE c.results[op] = <<>> BY <2>1, EmptyIsSequence
  <2>2. CASE Len(c.results[op]) = 1 BY <2>2
  <2> QED BY <1>1, <2>1, <2>2 DEF Reports
<1>3. c.state = "closed" => \A op \in Unreported : Kind[op] \in Gets /\ op \in c.failed
  BY DEF ChannelInv, Live, Shut, Left, Asked, Unreported
<1> QED BY <1>2, <1>3 DEF ReportedOnce

LEMMA MatchHolds == ASSUME Greeting, ChannelInv, Matched PROVE AnswersMatch
<1> SUFFICES ASSUME c.state # "closed"
             PROVE  /\ Unreported # {} \/ c.queue # <<>> => c.synchronous
                    /\ ~silent => Cardinality(Answers) + Cardinality(Unserved)
                                    = IF c.synchronous THEN 1 ELSE 0
                    /\ \A k \in Answers :
                         inbox[k].type # "refused" /\ inbox[k].of # Open => c.oldest = inbox[k].of
  BY DEF AnswersMatch
<1>1. Live(c, served) BY DEF ChannelInv, Shut
<1>2. /\ c \in Chan /\ served \in Nat /\ OnlyLast(c, served) /\ FramesInv(c, Left(c))
  BY <1>1 DEF Live, Working
<1>3. Unreported # {} \/ c.queue # <<>> => c.synchronous
  <2>1. Left(c) = Unreported BY DEF Left, Asked, Unreported
  <2> QED BY <1>2, <2>1 DEF FramesInv, Idle
<1>4. NoneLeft(c, served) <=> Unserved = {} BY DEF NoneLeft, Unserved
<1>5. Unserved # {} => c.synchronous /\ Unserved = {Len(c.handed)}
  BY <1>2 DEF OnlyLast, Unserved
<1>6. Cardinality({}) = 0 BY FS_EmptySet
<1>7. \A x : Cardinality({x}) = 1 BY FS_Singleton
<1>8. ASSUME ~silent
      PROVE  Cardinality(Answers) + Cardinality(Unserved) = IF c.synchronous THEN 1 ELSE 0
  <2>1. CASE Answers # {}
    <3>1. PICK k \in Answers : TRUE BY <2>1
    <3>2. Fits(inbox[k]) /\ Answers = {k} BY <3>1 DEF Matched
    <3>3. c.synchronous /\ Unserved = {} BY <1>4, <3>2 DEF Fits
    <3>4. Cardinality(Answers) = 1 /\ Cardinality(Unserved) = 0 BY <1>6, <1>7, <3>2, <3>3
    <3> QED BY <3>3, <3>4
  <2>2. CASE Answers = {}
    <3>1. Owed(c, served) BY <1>8, <2>2 DEF Matched
    <3>2. CASE c.synchronous
      <4>1. Unserved = {Len(c.handed)} BY <1>4, <1>5, <3>1, <3>2 DEF Owed
      <4>2. Cardinality(Answers) = 0 /\ Cardinality(Unserved) = 1 BY <1>6, <1>7, <2>2, <4>1
      <4> QED BY <3>2, <4>2
    <3>3. CASE ~c.synchronous
      <4>1. Unserved = {} BY <1>5, <3>3
      <4>2. Cardinality(Answers) = 0 /\ Cardinality(Unserved) = 0 BY <1>6, <2>2, <4>1
      <4> QED BY <3>3, <4>2
    <3> QED BY <3>2, <3>3
  <2> QED BY <2>1, <2>2
<1>9. ASSUME NEW k \in Answers, inbox[k].type # "refused", inbox[k].of # Open
      PROVE  c.oldest = inbox[k].of
  <2>1. Fits(inbox[k]) BY DEF Matched
  <2>2. c.synchronous /\ inbox[k].of = Awaited(c) BY <1>9, <2>1 DEF Fits
  <2> QED BY <1>1, <1>9, <2>2, AwaitedIsOldest
<1> QED BY <1>3, <1>8, <1>9

LEMMA TimedHolds == ASSUME IInv, Watched, ChannelInv, Matched PROVE WaitsAreTimed
<1> SUFFICES ASSUME NEW op \in Unreported, op \notin c.failed, ~(initialized /\ timeout = 0)
             PROVE  /\ expireIn # Never /\ expireIn >= -2 * MaxLag
                    /\ "timer" \in pending \/ (timerIn # Never /\ timerIn <= expireIn)
  BY DEF WaitsAreTimed
<1>1. attached
  <2>1. c.state # "closed" BY DEF ChannelInv, Live, Shut, Left, Asked, Unreported
  <2> QED BY <2>1 DEF Matched, attached
<1>2. /\ expireIn # Never
      /\ "timer" \in pending => expireIn + lag >= 1 - MaxLag
      /\ "timer" \notin pending => timerIn <= expireIn /\ (timerIn >= 0 \/ timerIn + lag >= 1)
  BY <1>1 DEF Watched
<1>3. /\ expireIn \in Int /\ lag \in 0..MaxLag /\ MaxLag \in Nat
      /\ timerIn \in Int \cup {Never}
  BY <1>2, TimeAssumption DEF IInv, NumbersOK
<1>4. "timer" \notin pending => timerIn \in Int /\ timerIn # Never
  BY <1>1, <1>2, <1>3, TimeAssumption DEF IInv, TimerInv, timed
<1>5. expireIn >= -2 * MaxLag
  <2>1. CASE "timer" \in pending BY <1>2, <1>3, <2>1
  <2>2. CASE "timer" \notin pending BY <1>2, <1>3, <1>4, <2>2
  <2> QED BY <2>1, <2>2
<1> QED BY <1>2, <1>4, <1>5, Zenon

(* No operation is dropped from the list that reportSuccess() and add()    *)
(* keep, whatever the callbacks ask for: for every program.                *)
THEOREM ClientKeepsOperations == ClientSpec => []OperationsKept
BY ChannelInvariance, KeptHolds, PTL

(* Each operation is reported at most once, and all of them when the       *)
(* channel closes but a get() asked for too late.                          *)
THEOREM ClientReportsOnce == ClientSpec => []ReportedOnce
BY ChannelInvariance, OnceHolds, PTL

(* ChannelImpl sends one frame that needs an answer at a time, and takes   *)
(* each answer for that of the operation it is for.                        *)
THEOREM ClientMatchesAnswers == ClientSpec => []AnswersMatch
BY ChannelInvariance, GreetingInvariance, MatchHolds, PTL

(* While an operation waits LibEvHandler's timer runs, and has an end.     *)
THEOREM ClientTimesWaits == ClientSpec => []WaitsAreTimed
<1>1. ClientSpec => []Watched BY ClientFollowsHeartbeat, HeartbeatWatched DEF FollowsHeartbeat
<1> QED BY <1>1, ChannelInvariance, GreetingInvariance, TimedHolds, PTL

-----------------------------------------------------------------------------
(* What may come next on the channel: anything, the header of a message,   *)
(* or what of the k-th message is missing when n bytes of it have come.    *)
Body(k) == Envelopes[k].body

Free == [want |-> "any", of |-> 0, at |-> 0]

Headed == [want |-> "header", of |-> 0, at |-> 0]

Within(k, n) == [want |-> "body", of |-> k, at |-> n]

After(k, n) == IF n < Len(Body(k)) THEN Within(k, n) ELSE Free

Announcing == {"deliver", "message", "return"}

(* With a frame the expectation changes; after the end nothing is expected.*)
Brings(e, frame, g) ==
  \/ frame.type = "end"
  \/ /\ e = Free
     /\ frame.type \notin {"header", "body"}
     /\ g = IF frame.type \in Announcing THEN Headed ELSE Free
  \/ /\ e = Headed
     /\ frame.type = "header" /\ frame.of \in DOMAIN Envelopes
     /\ g = After(frame.of, 0)
  \/ \E k \in DOMAIN Envelopes : \E n \in 0..Len(Body(k)), m \in 0..Len(Body(k)) :
       /\ m < n /\ e = Within(k, m)
       /\ frame.type = "body" /\ frame.payload = SubSeq(Body(k), m + 1, n)
       /\ g = After(k, n)

(* With all of the frames of s. *)
Carries(e, s, g) ==
  \E E : /\ E[0] = e /\ E[Len(s)] = g
         /\ \A k \in 1..Len(s) : Brings(E[k - 1], s[k], E[k])

LEMMA CarriesNothing == ASSUME NEW e, NEW g PROVE Carries(e, <<>>, g) <=> e = g
<1>1. Len(<<>>) = 0 /\ 1..0 = {} BY EmptyIsSequence
<1>2. ASSUME e = g PROVE Carries(e, <<>>, g)
  <2> DEFINE E == [k \in {0} |-> e]
  <2>1. E[0] = e OBVIOUS
  <2> HIDE DEF E
  <2> QED BY <1>1, <1>2, <2>1 DEF Carries
<1>3. ASSUME Carries(e, <<>>, g) PROVE e = g BY <1>1, <1>3 DEF Carries
<1> QED BY <1>2, <1>3

LEMMA CarriesOne ==
  ASSUME NEW e, NEW f, NEW g, Brings(e, f, g)
  PROVE  Carries(e, <<f>>, g) /\ IsSequence(<<f>>)
<1>1. <<f>> \in Seq({f}) /\ Len(<<f>>) = 1 /\ <<f>>[1] = f OBVIOUS
<1> DEFINE E == [k \in {0, 1} |-> IF k = 0 THEN e ELSE g]
<1>2. E[0] = e /\ E[1] = g OBVIOUS
<1> HIDE DEF E
<1>3. \A k \in 1..1 : k = 1 /\ k - 1 = 0 OBVIOUS
<1>4. \A k \in 1..1 : Brings(E[k - 1], <<f>>[k], E[k]) BY <1>1, <1>2, <1>3
<1> QED BY <1>1, <1>2, <1>4 DEF Carries, IsSequence

LEMMA CarriesJoin ==
  ASSUME NEW e, NEW s, NEW g, NEW t, NEW h, IsSequence(s), IsSequence(t),
         Carries(e, s, g), Carries(g, t, h)
  PROVE  Carries(e, s \o t, h) /\ IsSequence(s \o t)
<1> DEFINE u == s \o t
           m == Len(s)
           n == Len(t)
<1>1. PICK S : s \in Seq(S) BY DEF IsSequence
<1>2. PICK T : t \in Seq(T) BY DEF IsSequence
<1>3. m \in Nat /\ n \in Nat BY <1>1, <1>2
<1>4. /\ u \in Seq(S \cup T) /\ Len(u) = m + n
      /\ \A k \in 1..m : u[k] = s[k]
      /\ \A k \in 1..n : u[m + k] = t[k]
  <2> DEFINE V == S \cup T
  <2>1. s \in Seq(V) /\ t \in Seq(V) BY <1>1, <1>2
  <2> HIDE DEF V
  <2>2. u \in Seq(V) /\ Len(u) = m + n BY <2>1
  <2>3. \A k \in 1..m : u[k] = s[k] BY <2>1
  <2>4. \A k \in 1..n : u[m + k] = t[k] BY <2>1
  <2> QED BY <2>2, <2>3, <2>4 DEF V
<1>5. PICK E : E[0] = e /\ E[m] = g /\ \A k \in 1..m : Brings(E[k - 1], s[k], E[k])
  BY DEF Carries
<1>6. PICK F : F[0] = g /\ F[n] = h /\ \A k \in 1..n : Brings(F[k - 1], t[k], F[k])
  BY DEF Carries
<1> DEFINE G == [k \in 0..(m + n) |-> IF k <= m THEN E[k] ELSE F[k - m]]
<1>7. /\ \A k \in 0..m : G[k] = E[k]
      /\ \A k \in 1..n : G[m + k] = F[k]
  <2>1. \A k \in 0..m : k \in 0..(m + n) /\ k <= m BY <1>3
  <2>2. \A k \in 1..n : m + k \in 0..(m + n) /\ ~(m + k <= m) /\ (m + k) - m = k BY <1>3
  <2> QED BY <2>1, <2>2
<1> HIDE DEF u, m, n, G
<1>8. G[0] = e BY <1>3, <1>5, <1>7
<1>9. G[m] = g BY <1>3, <1>5, <1>7
<1>10. G[m + n] = h
  <2>1. CASE n = 0 BY <1>3, <1>6, <1>9, <2>1
  <2>2. CASE n # 0
    <3>1. n \in 1..n BY <1>3, <2>2
    <3> QED BY <1>6, <1>7, <3>1
  <2> QED BY <2>1, <2>2
<1>11. ASSUME NEW k \in 1..(m + n) PROVE Brings(G[k - 1], u[k], G[k])
  <2>1. CASE k <= m
    <3>1. k \in 1..m /\ k \in 0..m /\ k - 1 \in 0..m BY <1>3, <2>1
    <3> QED BY <1>4, <1>5, <1>7, <3>1
  <2>2. CASE k > m
    <3>1. PICK j \in 1..n : k = m + j
      <4>1. k - m \in 1..n /\ k = m + (k - m) BY <1>3, <2>2
      <4> QED BY <4>1
    <3>2. G[k] = F[j] /\ u[k] = t[j] BY <1>4, <1>7, <3>1
    <3>3. G[k - 1] = F[j - 1]
      <4>1. CASE j = 1
        <5>1. k - 1 = m /\ j - 1 = 0 BY <1>3, <3>1, <4>1
        <5> QED BY <1>6, <1>9, <5>1
      <4>2. CASE j # 1
        <5>1. j - 1 \in 1..n /\ k - 1 = m + (j - 1) BY <1>3, <3>1, <4>2
        <5> QED BY <1>7, <5>1
      <4> QED BY <4>1, <4>2
    <3> QED BY <1>6, <3>2, <3>3
  <2> QED BY <1>3, <2>1, <2>2
<1>12. Carries(e, u, h) BY <1>4, <1>8, <1>10, <1>11 DEF Carries
<1> QED BY <1>4, <1>12 DEF u, IsSequence

LEMMA CarriesFirst ==
  ASSUME NEW e, NEW s, NEW g, IsSequence(s), s # <<>>, Carries(e, s, g)
  PROVE  \E h : Brings(e, Head(s), h) /\ Carries(h, Tail(s), g)
<1>1. Shorter(s, Tail(s)) /\ Head(s) = s[1] BY Shortened
<1> DEFINE t == Tail(s)
<1> HIDE DEF t
<1>2. /\ Len(t) \in Nat /\ Len(s) = Len(t) + 1
      /\ \A k \in 1..Len(t) : t[k] = s[k + 1]
  BY <1>1, SequenceHas DEF Shorter, t
<1>3. PICK E : E[0] = e /\ E[Len(s)] = g /\ \A k \in 1..Len(s) : Brings(E[k - 1], s[k], E[k])
  BY DEF Carries
<1> DEFINE F == [k \in 0..Len(t) |-> E[k + 1]]
<1>4. \A k \in 0..Len(t) : F[k] = E[k + 1] OBVIOUS
<1> HIDE DEF F
<1>5. Brings(e, s[1], F[0])
  <2>1. 1 \in 1..Len(s) /\ 1 - 1 = 0 /\ 0 \in 0..Len(t) /\ 0 + 1 = 1 BY <1>2
  <2> QED BY <1>3, <1>4, <2>1
<1>6. F[Len(t)] = g
  <2>1. Len(t) \in 0..Len(t) BY <1>2
  <2> QED BY <1>2, <1>3, <1>4, <2>1
<1>7. ASSUME NEW k \in 1..Len(t) PROVE Brings(F[k - 1], t[k], F[k])
  <2>1. /\ k + 1 \in 1..Len(s) /\ (k + 1) - 1 = k /\ k \in 0..Len(t)
        /\ k - 1 \in 0..Len(t) /\ (k - 1) + 1 = k
    BY <1>2
  <2> QED BY <1>2, <1>3, <1>4, <2>1
<1>8. Carries(F[0], t, g) BY <1>6, <1>7 DEF Carries
<1> QED BY <1>1, <1>5, <1>8 DEF t

(* A message's frames bring what its first one announces. *)
LEMMA CarriesContent ==
  ASSUME maxFrame \in Sizes, NEW k \in DOMAIN Envelopes
  PROVE  Carries(Headed, Content(k), Free) /\ IsSequence(Content(k))
<1> DEFINE frames == BodyFrames(Body(k))
           q == Len(frames)
           n == Len(Body(k))
           content == Content(k)
<1>1. Body(k) \in Seq(Nat) /\ n \in Nat BY WireAssumption DEF Body
<1>2. /\ IsSequence(content) /\ Len(content) = q + 1
      /\ content[1] = [type |-> "header", of |-> k]
      /\ \A j \in 1..q : content[j + 1] = frames[j]
  BY ContentIs DEF Body
<1>3. /\ IsSequence(frames) /\ \A j \in 1..q : frames[j].type = "body"
      /\ \E upto \in [0..q -> 0..n] :
           /\ upto[0] = 0 /\ upto[q] = n
           /\ \A j \in 1..q : /\ upto[j - 1] < upto[j]
                              /\ frames[j].payload = SubSeq(Body(k), upto[j - 1] + 1, upto[j])
  BY <1>1, BodyFramesAre
<1>4. q \in Nat BY <1>3, SequenceHas
<1> HIDE DEF frames, q, content
<1>5. PICK upto \in [0..q -> 0..n] :
        /\ upto[0] = 0 /\ upto[q] = n
        /\ \A j \in 1..q : /\ upto[j - 1] < upto[j]
                           /\ frames[j].payload = SubSeq(Body(k), upto[j - 1] + 1, upto[j])
  BY <1>3
<1> DEFINE E == [j \in 0..(q + 1) |-> IF j = 0 THEN Headed ELSE After(k, upto[j - 1])]
<1>6. /\ E[0] = Headed
      /\ \A j \in 0..q : E[j + 1] = After(k, upto[j])
  <2>1. 0 \in 0..(q + 1) BY <1>4
  <2>2. \A j \in 0..q : j + 1 \in 0..(q + 1) /\ j + 1 # 0 /\ (j + 1) - 1 = j BY <1>4
  <2> QED BY <2>1, <2>2
<1> HIDE DEF E
<1>7. E[q + 1] = Free
  <2>1. q \in 0..q BY <1>4
  <2> QED BY <1>1, <1>5, <1>6, <2>1 DEF After
<1>8. ASSUME NEW j \in 1..(q + 1) PROVE Brings(E[j - 1], content[j], E[j])
  <2>1. CASE j = 1
    <3>1. E[1] = After(k, 0)
      <4>1. 0 \in 0..q /\ 0 + 1 = 1 BY <1>4
      <4> QED BY <1>5, <1>6, <4>1
    <3>2. content[1].type = "header" /\ content[1].of = k BY <1>2
    <3>3. j - 1 = 0 BY <2>1
    <3> QED BY <1>6, <2>1, <3>1, <3>2, <3>3 DEF Brings
  <2>2. CASE j # 1
    <3>1. PICK i \in 1..q : j = i + 1
      <4>1. j - 1 \in 1..q /\ j = (j - 1) + 1 BY <1>4, <2>2
      <4> QED BY <4>1
    <3>2. i \in 0..q /\ i - 1 \in 0..q /\ j - 1 = (i - 1) + 1 BY <1>4, <3>1
    <3>3. E[j] = After(k, upto[i]) /\ E[j - 1] = After(k, upto[i - 1]) BY <1>6, <3>1, <3>2
    <3>4. upto[i] \in 0..n /\ upto[i - 1] \in 0..n /\ upto[i - 1] < upto[i] BY <1>5, <3>1, <3>2
    <3>5. After(k, upto[i - 1]) = Within(k, upto[i - 1])
      <4>1. upto[i - 1] < n BY <1>1, <3>4
      <4> QED BY <4>1 DEF After
    <3>6. content[j].type = "body" /\ content[j].payload = SubSeq(Body(k), upto[i - 1] + 1, upto[i])
      BY <1>2, <1>3, <1>5, <3>1
    <3> QED BY <3>3, <3>4, <3>5, <3>6 DEF Brings
  <2> QED BY <2>1, <2>2
<1>9. Carries(Headed, content, Free) BY <1>2, <1>6, <1>7, <1>8 DEF Carries
<1> QED BY <1>2, <1>9 DEF content

-----------------------------------------------------------------------------
(* What came in pieces, put together: Joined() defines a function,         *)
IsJoined(f, s, n) ==
  f = [k \in 0..n |-> IF k = 0 THEN <<>>
                      ELSE IF s[k].member = "_dataCallback" THEN f[k - 1] \o s[k].what
                      ELSE f[k - 1]]

LEMMA JoinedExists ==
  ASSUME NEW s, NEW n \in Nat
  PROVE  \E f : IsJoined(f, s, n)
<1> DEFINE Bad == {m \in Nat : ~\E f : IsJoined(f, s, m)}
<1> SUFFICES ASSUME Bad # {} PROVE FALSE BY DEF Bad
<1>1. PICK m \in Bad : \A k \in Bad : m <= k
  <2>1. Bad \in SUBSET Nat BY DEF Bad
  <2> HIDE DEF Bad
  <2> QED BY <2>1, Least
<1>2. m \in Nat /\ ~\E f : IsJoined(f, s, m) BY DEF Bad
<1>3. CASE m = 0
  <2> DEFINE f == [k \in 0..0 |-> <<>>]
  <2>1. IsJoined(f, s, 0) BY DEF IsJoined
  <2> HIDE DEF f
  <2> QED BY <1>2, <1>3, <2>1
<1>4. CASE m # 0
  <2>1. PICK l \in Nat : l = m - 1 BY <1>2, <1>4
  <2>2. l \notin Bad BY <1>1, <1>2, <2>1
  <2>3. PICK f : IsJoined(f, s, l) BY <2>2 DEF Bad
  <2> DEFINE next == IF s[m].member = "_dataCallback" THEN f[l] \o s[m].what ELSE f[l]
             g == [k \in 0..m |-> IF k = m THEN next ELSE f[k]]
  <2> HIDE DEF next
  <2>4. ASSUME NEW k \in 0..m
        PROVE  g[k] = IF k = 0 THEN <<>>
                      ELSE IF s[k].member = "_dataCallback" THEN g[k - 1] \o s[k].what
                      ELSE g[k - 1]
    <3>1. CASE k = m
      <4>1. g[k] = next /\ l \in 0..m /\ l # m BY <1>2, <2>1, <3>1
      <4>2. g[l] = f[l] BY <4>1
      <4>3. k - 1 = l BY <2>1, <3>1
      <4> QED BY <1>4, <3>1, <4>1, <4>2, <4>3 DEF next
    <3>2. CASE k # m
      <4>1. k \in 0..l /\ g[k] = f[k] BY <1>2, <2>1, <3>2
      <4>2. f[k] = IF k = 0 THEN <<>>
                   ELSE IF s[k].member = "_dataCallback" THEN f[k - 1] \o s[k].what
                   ELSE f[k - 1]
        BY <2>3, <4>1 DEF IsJoined
      <4>3. CASE k = 0 BY <4>1, <4>2, <4>3
      <4>4. CASE k # 0
        <5>1. k - 1 \in 0..m /\ k - 1 # m BY <1>2, <3>2, <4>4
        <5>2. g[k - 1] = f[k - 1] BY <5>1
        <5> QED BY <4>1, <4>2, <4>4, <5>2
      <4> QED BY <4>3, <4>4
    <3> QED BY <3>1, <3>2
  <2>5. g = [k \in 0..m |-> g[k]] OBVIOUS
  <2> HIDE DEF g
  <2>6. IsJoined(g, s, m) BY <2>4, <2>5 DEF IsJoined
  <2> QED BY <1>2, <2>6
<1> QED BY <1>3, <1>4

(* which is the one of its recursion, *)
LEMMA JoinedIs ==
  ASSUME NEW s, IsSequence(s)
  PROVE  \E f : IsJoined(f, s, Len(s)) /\ Joined(s) = f[Len(s)]
<1> DEFINE f == CHOOSE g : IsJoined(g, s, Len(s))
<1>1. IsJoined(f, s, Len(s)) BY SequenceHas, JoinedExists
<1>2. Joined(s) = f[Len(s)] BY DEF Joined, IsJoined
<1> QED BY <1>1, <1>2

(* and grows by what is heard last. *)
LEMMA JoinedLonger ==
  ASSUME NEW s, IsSequence(s), NEW t, IsSequence(t), Len(t) = Len(s) + 1,
         \A k \in 1..Len(s) : t[k] = s[k]
  PROVE  Joined(t) = IF t[Len(t)].member = "_dataCallback" THEN Joined(s) \o t[Len(t)].what
                     ELSE Joined(s)
<1>1. Len(s) \in Nat /\ Len(t) \in Nat BY SequenceHas
<1>2. PICK f : IsJoined(f, s, Len(s)) /\ Joined(s) = f[Len(s)] BY JoinedIs
<1>3. PICK g : IsJoined(g, t, Len(t)) /\ Joined(t) = g[Len(t)] BY JoinedIs
<1> DEFINE Bad == {k \in 0..Len(s) : g[k] # f[k]}
<1>4. Bad = {}
  <2> SUFFICES ASSUME Bad # {} PROVE FALSE OBVIOUS
  <2>1. Bad \in SUBSET Nat BY <1>1
  <2>2. PICK k \in Bad : \A j \in Bad : k <= j BY <2>1, Least
  <2>3. k \in 0..Len(s) /\ k \in 0..Len(t) /\ g[k] # f[k] BY <1>1
  <2>4. /\ f[k] = IF k = 0 THEN <<>>
                  ELSE IF s[k].member = "_dataCallback" THEN f[k - 1] \o s[k].what ELSE f[k - 1]
        /\ g[k] = IF k = 0 THEN <<>>
                  ELSE IF t[k].member = "_dataCallback" THEN g[k - 1] \o t[k].what ELSE g[k - 1]
    BY <1>2, <1>3, <2>3 DEF IsJoined
  <2>5. k # 0 BY <2>3, <2>4
  <2>6. k - 1 \in 0..Len(s) /\ ~(k <= k - 1) /\ k \in 1..Len(s) BY <1>1, <2>3, <2>5
  <2>7. g[k - 1] = f[k - 1] BY <2>2, <2>6
  <2>8. t[k] = s[k] BY <2>6
  <2> HIDE DEF Bad
  <2> QED BY <2>3, <2>4, <2>5, <2>7, <2>8
<1>5. Len(t) \in 0..Len(t) /\ Len(t) # 0 /\ Len(t) - 1 = Len(s) /\ Len(s) \in 0..Len(s) BY <1>1
<1>6. g[Len(t)] = IF t[Len(t)].member = "_dataCallback" THEN g[Len(t) - 1] \o t[Len(t)].what
                  ELSE g[Len(t) - 1]
  BY <1>3, <1>5 DEF IsJoined
<1>7. g[Len(s)] = f[Len(s)] BY <1>4, <1>5
<1> HIDE DEF Bad
<1> QED BY <1>2, <1>3, <1>5, <1>6, <1>7

LEMMA JoinedNothing == Joined(<<>>) = <<>>
<1>1. IsSequence(<<>>) /\ Len(<<>>) = 0 BY EmptyIsSequence
<1>2. PICK f : IsJoined(f, <<>>, Len(<<>>)) /\ Joined(<<>>) = f[Len(<<>>)] BY <1>1, JoinedIs
<1>3. IsJoined(f, <<>>, 0) /\ Joined(<<>>) = f[0] BY <1>1, <1>2
<1> QED BY <1>3 DEF IsJoined

-----------------------------------------------------------------------------
(* What a callback is told agrees with the k-th envelope. *)
Says(member, what, k) ==
  /\ member \in Whole => /\ what.body = Body(k)
                         /\ Retrieved(what.meta) = Retrieved(Envelopes[k].meta)
  /\ member = "_headerCallback" => Retrieved(what) = Retrieved(Envelopes[k].meta)
  /\ member = "_sizeCallback" => what = Len(Body(k))

Precedes(first, second) ==
  \/ Turn[first] < Turn[second]
  \/ first = "_dataCallback" /\ second = "_dataCallback"

(* The callbacks in S, and no others, were told of the k-th envelope, in   *)
(* their order, and of the body what piece is.                             *)
Story(heard, callbacks, S, k, piece) ==
  /\ IsSequence(heard)
  /\ {heard[i].member : i \in 1..Len(heard)} = DOMAIN callbacks \cap S
  /\ \A i, j \in 1..Len(heard) : i < j => Precedes(heard[i].member, heard[j].member)
  /\ \A i \in 1..Len(heard) : Says(heard[i].member, heard[i].what, k)
  /\ "_dataCallback" \in DOMAIN callbacks => Joined(heard) = piece

LEMMA StoryBegins ==
  ASSUME NEW callbacks, NEW k
  PROVE  Story(<<>>, callbacks, {}, k, <<>>)
<1>1. IsSequence(<<>>) /\ Len(<<>>) = 0 BY EmptyIsSequence
<1> DEFINE none == <<>>
<1>2. Len(none) = 0 /\ IsSequence(none) /\ Joined(none) = <<>> BY <1>1, JoinedNothing
<1> HIDE DEF none
<1>3. Story(none, callbacks, {}, k, <<>>) BY <1>2 DEF Story
<1> QED BY <1>3 DEF none

(* One callback more, whose turn it is. *)
LEMMA StoryTold ==
  ASSUME NEW heard, NEW callbacks, NEW S, NEW k, NEW piece, Story(heard, callbacks, S, k, piece),
         NEW member, NEW what, \A m \in S : Precedes(m, member),
         member \in DOMAIN callbacks => Says(member, what, k)
  PROVE  Story(Tell(heard, callbacks, member, what), callbacks, S \cup {member}, k,
               IF member = "_dataCallback" THEN piece \o what ELSE piece)
<1> DEFINE n == Len(heard)
           t == Tell(heard, callbacks, member, what)
           whole == IF member = "_dataCallback" THEN piece \o what ELSE piece
<1>1. IsSequence(heard) /\ n \in Nat BY SequenceHas DEF Story
<1>2. CASE member \notin DOMAIN callbacks
  <2>1. t = heard BY <1>2 DEF Tell
  <2>2. DOMAIN callbacks \cap S = DOMAIN callbacks \cap (S \cup {member}) BY <1>2
  <2>3. "_dataCallback" \in DOMAIN callbacks => whole = piece BY <1>2
  <2> HIDE DEF t, whole
  <2>4. Story(t, callbacks, S \cup {member}, k, whole) BY <2>1, <2>2, <2>3 DEF Story
  <2> QED BY <2>4 DEF t, whole
<1>3. CASE member \in DOMAIN callbacks
  <2> DEFINE h == [setter |-> callbacks[member], member |-> member, what |-> what]
  <2>1. h.member = member /\ h.what = what OBVIOUS
  <2>2. t = Append(heard, h) BY <1>3 DEF Tell
  <2> HIDE DEF h, t
  <2>3. Longer(heard, t, h) BY <1>1, <2>2, Lengthened
  <2>4. Len(t) = n + 1
    <3>1. PICK T : heard \in Seq(T) BY <1>1 DEF IsSequence
    <3> QED BY <2>2, <3>1
  <2>5. IsSequence(t) /\ t[n + 1] = h /\ \A i \in 1..n : t[i] = heard[i] BY <2>3 DEF Longer
  <2>6. \A i \in 1..(n + 1) : i \in 1..n \/ i = n + 1 BY <1>1
  <2>7. 1..n \subseteq 1..(n + 1) /\ n + 1 \in 1..(n + 1) BY <1>1
  <2>8. \A i \in 1..n : heard[i].member \in S BY DEF Story
  <2>9. {t[i].member : i \in 1..(n + 1)} = DOMAIN callbacks \cap (S \cup {member})
    <3>1. {t[i].member : i \in 1..(n + 1)} = {heard[i].member : i \in 1..n} \cup {member}
      BY <2>1, <2>5, <2>6, <2>7
    <3>2. {heard[i].member : i \in 1..n} = DOMAIN callbacks \cap S BY DEF Story
    <3> QED BY <1>3, <3>1, <3>2
  <2>10. ASSUME NEW i \in 1..(n + 1), NEW j \in 1..(n + 1), i < j
         PROVE  Precedes(t[i].member, t[j].member)
    <3>1. i \in 1..n BY <1>1, <2>10
    <3>2. CASE j \in 1..n BY <2>5, <2>10, <3>1, <3>2 DEF Story
    <3>3. CASE j = n + 1 BY <2>1, <2>5, <2>8, <3>1, <3>3
    <3> QED BY <2>6, <3>2, <3>3
  <2>11. \A i \in 1..(n + 1) : Says(t[i].member, t[i].what, k)
    <3>1. \A i \in 1..n : Says(heard[i].member, heard[i].what, k) BY DEF Story
    <3> QED BY <1>3, <2>1, <2>5, <2>6, <3>1
  <2>12. "_dataCallback" \in DOMAIN callbacks => Joined(t) = whole
    <3>1. Joined(t) = IF member = "_dataCallback" THEN Joined(heard) \o what ELSE Joined(heard)
      BY <1>1, <2>1, <2>4, <2>5, JoinedLonger
    <3> QED BY <3>1 DEF Story
  <2> HIDE DEF whole
  <2>13. Story(t, callbacks, S \cup {member}, k, whole)
    BY <2>4, <2>5, <2>9, <2>10, <2>11, <2>12 DEF Story
  <2> QED BY <2>13 DEF t, whole
<1> QED BY <1>2, <1>3

-----------------------------------------------------------------------------
(* The receiver, on its way through a message. *)
Listening(op, k, left, heard, message) ==
  [op |-> op, of |-> k, left |-> left, heard |-> heard, message |-> message]

Hearer(op) == op = Recall \/ (op \in Ops /\ Kind[op] \in Consumers \cup Gets)

First(op) == IF op = Recall THEN "_beginCallback" ELSE "_startCallback"

(* The callbacks that are due when n bytes of the body have come. *)
DueAt(op, n) ==
  {First(op), "_sizeCallback", "_headerCallback"} \cup IF n = 0 THEN {} ELSE {"_dataCallback"}

Building(meta, body, size, filled, mutable) ==
  [meta |-> meta, body |-> body, bodySize |-> size, filled |-> filled, mutable |-> mutable]

(* What the Message holds by then; how it counts only matters until it is  *)
(* complete.                                                               *)
Holds(message, k, n) ==
  /\ message.meta = ReadHeaders[k] /\ message.body = SubSeq(Body(k), 1, n)
  /\ n < Len(Body(k)) =>
       message = Building(ReadHeaders[k], SubSeq(Body(k), 1, n), Len(Body(k)), n, n > 0)

Reached(r, op, k, n) ==
  \E heard, message :
    /\ r = Listening(op, k, Len(Body(k)) - n, heard, message)
    /\ Story(heard, Callbacks(op), DueAt(op, n), k, SubSeq(Body(k), 1, n))
    /\ Wanted(op) => Holds(message, k, n)

(* MessagesIntact, of what was received. *)
Intact(r) ==
  LET heard  == r.heard
      sentAs == Envelopes[r.of]
      due    == DOMAIN Callbacks(r.op)
                  \cap (DOMAIN Turn \ IF sentAs.body = <<>> THEN {"_dataCallback"} ELSE {})
  IN  /\ {h.member : h \in ToSet(heard)} = due
      /\ \A i, j \in DOMAIN heard : i < j =>
           \/ Turn[heard[i].member] < Turn[heard[j].member]
           \/ heard[i].member = "_dataCallback" /\ heard[j].member = "_dataCallback"
      /\ \A h \in ToSet(heard) :
           /\ h.member \in Whole => /\ h.what.body = sentAs.body
                                   /\ Retrieved(h.what.meta) = Retrieved(sentAs.meta)
           /\ h.member = "_headerCallback" => Retrieved(h.what) = Retrieved(sentAs.meta)
           /\ h.member = "_sizeCallback" => h.what = Len(sentAs.body)
      /\ "_dataCallback" \in due => Joined(heard) = sentAs.body

LEMMA HearIs ==
  ASSUME NEW op, NEW k, NEW left, NEW heard, NEW message, NEW member, NEW what
  PROVE  Hear(Listening(op, k, left, heard, message), member, what)
           = Listening(op, k, left, Tell(heard, Callbacks(op), member, what), message)
BY DEF Hear, Listening

LEMMA ListeningWith ==
  ASSUME NEW op, NEW j, NEW left, NEW less, NEW heard, NEW message, NEW other,
         NEW r, r = Listening(op, j, left, heard, message)
  PROVE  /\ [r EXCEPT !.left = less] = Listening(op, j, less, heard, message)
         /\ [r EXCEPT !.message = other] = Listening(op, j, left, heard, other)
         /\ r.op = op /\ r.of = j /\ r.left = left /\ r.heard = heard /\ r.message = message
<1>1. [r EXCEPT !.left = less] = Listening(op, j, less, heard, message) BY DEF Listening
<1>2. [r EXCEPT !.message = other] = Listening(op, j, left, heard, other) BY DEF Listening
<1>3. r.op = op /\ r.of = j /\ r.left = left /\ r.heard = heard /\ r.message = message
  BY DEF Listening
<1> QED BY <1>1, <1>2, <1>3

(* An object that is no DeferredRecall has no _beginCallback, and only that*)
(* has no _startCallback.                                                  *)
LEMMA OtherFirst ==
  ASSUME NEW op, Hearer(op)
  PROVE  DOMAIN Callbacks(op) \cap {"_beginCallback", "_startCallback"} \subseteq {First(op)}
<1>1. ASSUME NEW class, NEW setters \in Seq(DOMAIN class), NEW m \in DOMAIN Installed(class, setters)
      PROVE  \E s \in DOMAIN class : class[s] = m
  <2>1. PICK s \in ToSet(setters) : class[s] = m BY DEF Installed
  <2>2. s \in DOMAIN class BY DEF ToSet
  <2> QED BY <2>1, <2>2
<1>2. CASE op = Recall
  <2>1. Callbacks(op) = Installed(DeferredRecall, Recalls) BY <1>2 DEF Callbacks
  <2>2. Recalls \in Seq(DOMAIN DeferredRecall) BY ClientAssumption
  <2>3. \A s \in DOMAIN DeferredRecall : DeferredRecall[s] # "_startCallback"
    BY DEF DeferredRecall, Deferred, Derived
  <2>4. "_startCallback" \notin DOMAIN Callbacks(op) BY <1>1, <2>1, <2>2, <2>3
  <2> QED BY <1>2, <2>4 DEF First
<1>3. CASE op \in Ops
  <2>1. op # Recall BY <1>3, ClientAssumption
  <2>2. Kind[op] \in {"consume", "get"} BY <2>1 DEF Hearer, Consumers, Gets
  <2>3. Class(Kind[op]) \in {DeferredConsumer, DeferredGet}
    BY <2>2 DEF Class, Confirms, Deletions, Consumers, Cancels, Gets
  <2>4. Callbacks(op) = Installed(Class(Kind[op]), Setters[op]) BY <2>1 DEF Callbacks, Listeners
  <2>5. Setters[op] \in Seq(DOMAIN Class(Kind[op])) BY <1>3, ProgramAssumption
  <2>6. \A s \in DOMAIN DeferredConsumer : DeferredConsumer[s] # "_beginCallback"
    BY DEF DeferredConsumer, ConsumerPieces, Deferred, Derived
  <2>7. \A s \in DOMAIN DeferredGet : DeferredGet[s] # "_beginCallback"
    BY DEF DeferredGet, GetPieces, Deferred, Derived
  <2>8. "_beginCallback" \notin DOMAIN Callbacks(op) BY <1>1, <2>3, <2>4, <2>5, <2>6, <2>7
  <2> QED BY <2>1, <2>8 DEF First
<1> QED BY <1>2, <1>3 DEF Hearer

(* Where the callbacks are called. *)
LEMMA Turns ==
  /\ Turn["_beginCallback"] = 1 /\ Turn["_startCallback"] = 2 /\ Turn["_sizeCallback"] = 3
  /\ Turn["_headerCallback"] = 4 /\ Turn["_dataCallback"] = 5 /\ Turn["_messageCallback"] = 6
  /\ Turn["_bounceCallback"] = 7 /\ Turn["_deliveredCallback"] = 8 /\ Turn["_completeCallback"] = 9
  /\ DOMAIN Turn = {"_beginCallback", "_startCallback", "_sizeCallback", "_headerCallback",
                    "_dataCallback", "_messageCallback", "_bounceCallback", "_deliveredCallback",
                    "_completeCallback"}
BY DEF Turn

(* The header frame tells the size and the properties. *)
LEMMA HeaderReaches ==
  ASSUME NEW op, NEW k \in DOMAIN Envelopes
  PROVE  LET r == WithHeader(Receiver(op, First(op)), k)
         IN  Reached(r, op, k, 0) /\ r.left = Len(Body(k))
<1> DEFINE cb == Callbacks(op)
           n == Len(Body(k))
           meta == ReadHeaders[k]
           start == Tell(<<>>, cb, First(op), <<>>)
           size == Tell(start, cb, "_sizeCallback", n)
           heard == Tell(size, cb, "_headerCallback", meta)
           blank == IF Wanted(op) THEN Message ELSE None
           message == IF Wanted(op) THEN setMetaData(setBodySize(Message, n), meta) ELSE None
<1>1. Body(k) \in Seq(Nat) /\ n \in Nat /\ Retrieved(meta) = Retrieved(Envelopes[k].meta)
  BY WireAssumption DEF Body
<1>2. Receiver(op, First(op)) = Listening(op, 0, 0, start, blank)
  <2>1. Receiver(op, First(op)) = Hear(Listening(op, 0, 0, <<>>, blank), First(op), <<>>)
    BY DEF Receiver, Listening
  <2> QED BY <2>1, HearIs
<1>3. WithHeader(Receiver(op, First(op)), k) = Listening(op, k, n, heard, message)
  <2>8. PICK r : r = Listening(op, 0, 0, start, blank) OBVIOUS
  <2>9. PICK s : s = Listening(op, k, n, size, blank) OBVIOUS
  <2> HIDE DEF start, heard, size, blank, n, meta
  <2> DEFINE q == [r EXCEPT !.of = k]
  <2>1. [r EXCEPT !.of = k, !.left = n] = Listening(op, k, n, start, blank)
    <3>1. q = Listening(op, k, 0, start, blank) BY <2>8 DEF Listening
    <3>2. [r EXCEPT !.of = k, !.left = n] = [q EXCEPT !.left = n] OBVIOUS
    <3> HIDE DEF q
    <3>3. [q EXCEPT !.left = n] = Listening(op, k, n, start, blank) BY <3>1, ListeningWith
    <3> QED BY <3>2, <3>3, Zenon
  <2>2. Hear([r EXCEPT !.of = k, !.left = n], "_sizeCallback", n) = s
    <3>1. Hear(Listening(op, k, n, start, blank), "_sizeCallback", n) = s
      BY <2>9, HearIs DEF size
    <3> QED BY <2>1, <3>1, Zenon
  <2>3. r.op = op /\ s.message = blank BY <2>8, <2>9, ListeningWith
  <2>4. WithHeader(r, k) =
          Hear(IF ~Wanted(op) THEN s
               ELSE [s EXCEPT !.message = setMetaData(setBodySize(s.message, n), meta)],
               "_headerCallback", meta)
    BY <2>2, <2>3, <2>9, Zenon DEF WithHeader, Body, n, meta
  <2>5. [s EXCEPT !.message = setMetaData(setBodySize(s.message, n), meta)]
          = Listening(op, k, n, size, setMetaData(setBodySize(s.message, n), meta))
    BY <2>9, ListeningWith
  <2>6. (IF ~Wanted(op) THEN s
         ELSE [s EXCEPT !.message = setMetaData(setBodySize(s.message, n), meta)])
          = Listening(op, k, n, size, message)
    BY <2>3, <2>5, <2>9 DEF blank
  <2>7. Hear(Listening(op, k, n, size, message), "_headerCallback", meta)
          = Listening(op, k, n, heard, message)
    BY HearIs DEF heard
  <2> QED BY <1>2, <2>4, <2>6, <2>7, <2>8
<1>4. Story(heard, cb, DueAt(op, 0), k, <<>>)
  <2>1. Story(<<>>, cb, {}, k, <<>>) BY StoryBegins
  <2>2. First(op) \in {"_beginCallback", "_startCallback"} BY DEF First
  <2>3. Says(First(op), <<>>, k) BY <2>2 DEF Says, Whole
  <2>4. Story(start, cb, {} \cup {First(op)}, k, <<>>)
    <3>1. \A m \in {} : Precedes(m, First(op)) OBVIOUS
    <3>2. Story(start, cb, {} \cup {First(op)}, k,
                IF First(op) = "_dataCallback" THEN <<>> \o <<>> ELSE <<>>)
      BY <2>1, <2>3, <3>1, StoryTold
    <3> QED BY <2>2, <3>2
  <2>5. Says("_sizeCallback", n, k) BY DEF Says, Whole
  <2>6. \A m \in {} \cup {First(op)} : Precedes(m, "_sizeCallback")
    BY <2>2, Turns DEF Precedes
  <2> HIDE DEF start
  <2>7. Story(size, cb, ({} \cup {First(op)}) \cup {"_sizeCallback"}, k, <<>>)
    BY <2>4, <2>5, <2>6, StoryTold
  <2>8. Says("_headerCallback", meta, k) BY <1>1 DEF Says, Whole
  <2>9. \A m \in ({} \cup {First(op)}) \cup {"_sizeCallback"} : Precedes(m, "_headerCallback")
    BY <2>2, Turns DEF Precedes
  <2> HIDE DEF size
  <2>10. Story(heard, cb, (({} \cup {First(op)}) \cup {"_sizeCallback"}) \cup {"_headerCallback"},
               k, <<>>)
    BY <2>7, <2>8, <2>9, StoryTold
  <2>11. (({} \cup {First(op)}) \cup {"_sizeCallback"}) \cup {"_headerCallback"} = DueAt(op, 0)
    BY DEF DueAt
  <2> QED BY <2>10, <2>11
<1>5. SubSeq(Body(k), 1, 0) = <<>> BY SubSeqEmpty
<1>6. Wanted(op) => Holds(message, k, 0)
  <2> SUFFICES ASSUME Wanted(op) PROVE Holds(message, k, 0) OBVIOUS
  <2>1. message = Building(meta, <<>>, n, 0, FALSE)
    BY DEF setMetaData, setBodySize, Message, Building
  <2> HIDE DEF message
  <2>2. (0 > 0) = FALSE OBVIOUS
  <2>3. message.meta = meta /\ message.body = <<>> BY <2>1 DEF Building
  <2> QED BY <1>5, <2>1, <2>2, <2>3 DEF Holds
<1> HIDE DEF heard, message
<1>7. Reached(Listening(op, k, n, heard, message), op, k, 0)
  <2>1. n - 0 = n BY <1>1
  <2> QED BY <1>4, <1>5, <1>6, <2>1 DEF Reached
<1> QED BY <1>3, <1>7 DEF Listening

LEMMA BuildingWith ==
  ASSUME NEW meta, NEW body, NEW size, NEW filled, NEW mutable, NEW other,
         NEW r, r = Building(meta, body, size, filled, mutable)
  PROVE  /\ [r EXCEPT !.body = other] = Building(meta, other, size, filled, mutable)
         /\ [r EXCEPT !.filled = other] = Building(meta, body, size, other, mutable)
         /\ [r EXCEPT !.mutable = other] = Building(meta, body, size, filled, other)
<1>1. [r EXCEPT !.body = other] = Building(meta, other, size, filled, mutable) BY DEF Building
<1>2. [r EXCEPT !.filled = other] = Building(meta, body, size, other, mutable) BY DEF Building
<1>3. [r EXCEPT !.mutable = other] = Building(meta, body, size, filled, other) BY DEF Building
<1> QED BY <1>1, <1>2, <1>3

(* A body frame tells a piece, and the Message takes it. *)
LEMMA MessageTakes ==
  ASSUME NEW message, NEW k \in DOMAIN Envelopes, NEW m \in 0..Len(Body(k)),
         NEW n \in 0..Len(Body(k)), m < n, Holds(message, k, m)
  PROVE  Holds(append(message, SubSeq(Body(k), m + 1, n)), k, n)
<1> DEFINE body == Body(k)
           len == Len(body)
           meta == ReadHeaders[k]
           chunk == SubSeq(body, m + 1, n)
           grown == append(message, chunk)
           till(i) == SubSeq(body, 1, i)
<1>1. body \in Seq(Nat) /\ len \in Nat BY WireAssumption DEF Body
<1>2. chunk \in Seq(Nat) /\ Len(chunk) = n - m BY <1>1
<1>3. SubSeq(chunk, 1, n - m) = chunk BY <1>2, SubSeqFull
<1>4. till(m) \o chunk = till(n)
  <2>1. 1 \in 1..(len + 1) /\ m \in (1 - 1)..len /\ n \in m..len BY <1>1
  <2> QED BY <1>1, <2>1, ConcatAdjacentSubSeq
<1>5. m = 0 => chunk = till(n) BY <1>1
<1>6. PICK mutable : mutable = (m > 0) OBVIOUS
<1>7. message = Building(meta, till(m), len, m, mutable) BY <1>1, <1>6 DEF Holds
<1>8. /\ message.body = till(m) /\ message.bodySize = len /\ message.filled = m
      /\ message.mutable = mutable
  BY <1>7 DEF Building
<1>9. m \in 0..len /\ n \in 0..len OBVIOUS
<1>10. ASSUME NEW g, g.meta = meta, g.body = till(n),
              n < len => g = Building(meta, till(n), len, n, n > 0)
       PROVE  Holds(g, k, n)
  BY <1>10 DEF Holds
<1> HIDE DEF body, len, chunk, till, meta, grown
<1>11. CASE m > 0
  <2>1. message.mutable BY <1>6, <1>8, <1>11
  <2>2. n - m <= len - m /\ n - m \in Int /\ len - m \in Int BY <1>1, <1>9
  <2>3. Min({n - m, len - m}) = n - m BY <2>2, MinOfTwo
  <2> DEFINE q == [message EXCEPT !.body = till(n)]
  <2>4. q = Building(meta, till(n), len, m, mutable) BY <1>7, BuildingWith
  <2>5. grown = [message EXCEPT !.body = till(n), !.filled = m + (n - m)]
    <3>1. grown = [message EXCEPT !.body = @ \o SubSeq(chunk, 1, Min({n - m, len - m})),
                                  !.filled = @ + Min({n - m, len - m})]
      BY <1>2, <1>8, <2>1, Zenon DEF append, grown
    <3> QED BY <1>3, <1>4, <1>8, <2>3, <3>1, Zenon
  <2>6. m + (n - m) = n BY <1>9
  <2>7. grown = [q EXCEPT !.filled = n] BY <2>5, <2>6, Zenon
  <2>8. (n > 0) = mutable BY <1>6, <1>9, <1>11
  <2> HIDE DEF q
  <2>9. grown = Building(meta, till(n), len, n, mutable) BY <2>4, <2>7 DEF Building
  <2>10. grown.meta = meta /\ grown.body = till(n) BY <2>9 DEF Building
  <2>11. Holds(grown, k, n) BY <1>10, <2>8, <2>9, <2>10
  <2> QED BY <2>11 DEF grown, chunk, body
<1>12. CASE m = 0
  <2>1. ~message.mutable
    <3>1. ~(m > 0) BY <1>12
    <3> QED BY <1>6, <1>8, <3>1, Zenon
  <2>2. message.bodySize = len /\ Len(chunk) = n BY <1>2, <1>8, <1>9, <1>12
  <2>3. chunk = till(n) BY <1>5, <1>12
  <2>4. CASE n >= len
    <3>1. grown = [message EXCEPT !.body = till(n)] BY <2>1, <2>2, <2>3, <2>4 DEF append, grown
    <3>2. grown = Building(meta, till(n), len, m, mutable) BY <1>7, <3>1, BuildingWith
    <3>3. grown.meta = meta /\ grown.body = till(n) BY <3>2 DEF Building
    <3>4. ~(n < len) BY <1>1, <1>9, <2>4
    <3>5. Holds(grown, k, n) BY <1>10, <3>3, <3>4
    <3> QED BY <3>5 DEF grown, chunk, body
  <2>5. CASE n < len
    <3> DEFINE q == [message EXCEPT !.mutable = TRUE]
               p == [q EXCEPT !.body = till(n)]
    <3>9. PICK yes : yes = TRUE OBVIOUS
    <3>1. grown = [message EXCEPT !.mutable = TRUE, !.body = till(n), !.filled = n]
      <4>1. ~(n >= len) BY <1>1, <1>9, <2>5
      <4> QED BY <2>1, <2>2, <2>3, <4>1, Zenon DEF append, grown
    <3>2. q = Building(meta, till(m), len, m, yes)
      <4>1. q = [message EXCEPT !.mutable = yes] BY <3>9
      <4> HIDE DEF q
      <4> QED BY <1>7, <4>1 DEF Building
    <3>3. grown = [p EXCEPT !.filled = n] BY <3>1, Zenon
    <3> HIDE DEF q
    <3>4. p = Building(meta, till(n), len, m, yes) BY <3>2, BuildingWith
    <3> HIDE DEF p
    <3>5. grown = Building(meta, till(n), len, n, yes) BY <3>3, <3>4 DEF Building
    <3>6. (n > 0) = yes BY <1>9, <1>12, <3>9
    <3>7. grown.meta = meta /\ grown.body = till(n) BY <3>5 DEF Building
    <3>8. Holds(grown, k, n) BY <1>10, <3>5, <3>6, <3>7
    <3> QED BY <3>8 DEF grown, chunk, body
  <2> QED BY <1>1, <1>9, <2>4, <2>5
<1> QED BY <1>9, <1>11, <1>12

LEMMA BodyReaches ==
  ASSUME NEW op, NEW k \in DOMAIN Envelopes, NEW m \in 0..Len(Body(k)),
         NEW n \in 0..Len(Body(k)), m < n, NEW r, Reached(r, op, k, m)
  PROVE  LET s == WithBody(r, SubSeq(Body(k), m + 1, n))
         IN  Reached(s, op, k, n) /\ s.left = Len(Body(k)) - n
<1> DEFINE cb == Callbacks(op)
           len == Len(Body(k))
           chunk == SubSeq(Body(k), m + 1, n)
<1>1. Body(k) \in Seq(Nat) /\ len \in Nat BY WireAssumption DEF Body
<1>2. Len(chunk) = n - m BY <1>1
<1>3. PICK heard, message :
        /\ r = Listening(op, k, len - m, heard, message)
        /\ Story(heard, cb, DueAt(op, m), k, SubSeq(Body(k), 1, m))
        /\ Wanted(op) => Holds(message, k, m)
  BY DEF Reached
<1> DEFINE told == Tell(heard, cb, "_dataCallback", chunk)
           grown == IF Wanted(op) THEN append(message, chunk) ELSE message
<1>4. Wanted(op) => Holds(append(message, chunk), k, n) BY <1>3, MessageTakes
<1>5. Story(told, cb, DueAt(op, n), k, SubSeq(Body(k), 1, n))
  <2>1. First(op) \in {"_beginCallback", "_startCallback"} BY DEF First
  <2>2. \A x \in DueAt(op, m) : Precedes(x, "_dataCallback") BY <2>1, Turns DEF Precedes, DueAt
  <2>3. Says("_dataCallback", chunk, k) BY DEF Says, Whole
  <2>4. SubSeq(Body(k), 1, m) \o chunk = SubSeq(Body(k), 1, n)
    <3>1. 1 \in 1..(len + 1) /\ m \in (1 - 1)..len /\ n \in m..len BY <1>1
    <3> QED BY <1>1, <3>1, ConcatAdjacentSubSeq
  <2>5. DueAt(op, m) \cup {"_dataCallback"} = DueAt(op, n) BY DEF DueAt
  <2> HIDE DEF chunk
  <2>6. Story(told, cb, DueAt(op, m) \cup {"_dataCallback"}, k, SubSeq(Body(k), 1, m) \o chunk)
    BY <1>3, <2>2, <2>3, StoryTold
  <2> QED BY <2>4, <2>5, <2>6
<1>6. WithBody(r, chunk) = Listening(op, k, len - n, told, grown)
  <2>1. r.op = op /\ r.left = len - m BY <1>3, ListeningWith
  <2>2. (len - m) - (n - m) = len - n BY <1>1
  <2> HIDE DEF chunk, told, len
  <2>3. [r EXCEPT !.left = r.left - Len(chunk)] = Listening(op, k, len - n, heard, message)
    BY <1>2, <1>3, <2>1, <2>2, ListeningWith
  <2>4. PICK s : s = Listening(op, k, len - n, told, message) OBVIOUS
  <2>5. Hear([r EXCEPT !.left = r.left - Len(chunk)], "_dataCallback", chunk) = s
    BY <2>3, <2>4, HearIs DEF told
  <2>6. WithBody(r, chunk) = IF ~Wanted(op) THEN s ELSE [s EXCEPT !.message = append(s.message, chunk)]
    BY <2>1, <2>5 DEF WithBody
  <2>7. s.message = message BY <2>4, ListeningWith
  <2>8. [s EXCEPT !.message = append(s.message, chunk)]
          = Listening(op, k, len - n, told, append(message, chunk))
    BY <2>4, <2>7, ListeningWith
  <2> QED BY <2>4, <2>6, <2>8
<1> HIDE DEF told, grown, chunk
<1>7. Wanted(op) => Holds(grown, k, n) BY <1>4 DEF grown
<1>8. Reached(WithBody(r, chunk), op, k, n) BY <1>5, <1>6, <1>7 DEF Reached
<1>9. WithBody(r, chunk).left = len - n BY <1>6, ListeningWith
<1> QED BY <1>8, <1>9 DEF chunk

(* What a program has heard of a complete message is the message. *)
LEMMA StoryIntact ==
  ASSUME NEW op, Hearer(op), NEW k \in DOMAIN Envelopes, NEW r, r.op = op, r.of = k,
         Story(r.heard, Callbacks(op),
               DueAt(op, Len(Body(k))) \cup {"_messageCallback", "_bounceCallback",
                                           "_deliveredCallback", "_completeCallback"},
               k, Body(k))
  PROVE  Intact(r)
<1> DEFINE heard == r.heard
           S == DueAt(op, Len(Body(k))) \cup {"_messageCallback", "_bounceCallback",
                                            "_deliveredCallback", "_completeCallback"}
           due == DOMAIN Callbacks(op)
                    \cap (DOMAIN Turn \ IF Body(k) = <<>> THEN {"_dataCallback"} ELSE {})
<1>1. Body(k) \in Seq(Nat) /\ (Len(Body(k)) = 0 <=> Body(k) = <<>>)
  BY WireAssumption, EmptySeq DEF Body
<1>2. /\ IsSequence(heard) /\ DOMAIN heard = 1..Len(heard)
      /\ {heard[i].member : i \in 1..Len(heard)} = DOMAIN Callbacks(op) \cap S
      /\ \A i, j \in 1..Len(heard) : i < j => Precedes(heard[i].member, heard[j].member)
      /\ \A i \in 1..Len(heard) : Says(heard[i].member, heard[i].what, k)
      /\ "_dataCallback" \in DOMAIN Callbacks(op) => Joined(heard) = Body(k)
  BY SequenceHas DEF Story
<1> HIDE DEF heard
<1>3. DOMAIN Callbacks(op) \cap S = due
  <2>1. DOMAIN Callbacks(op) \cap {"_beginCallback", "_startCallback"} \subseteq {First(op)}
    BY OtherFirst
  <2>2. First(op) \in {"_beginCallback", "_startCallback"} BY DEF First
  <2> QED BY <1>1, <2>1, <2>2, Turns DEF DueAt
<1> HIDE DEF S, due
<1>4. ToSet(heard) = {heard[i] : i \in 1..Len(heard)} BY <1>2 DEF ToSet
<1>5. {h.member : h \in ToSet(heard)} = due BY <1>2, <1>3, <1>4
<1>6. \A i, j \in DOMAIN heard : i < j =>
        \/ Turn[heard[i].member] < Turn[heard[j].member]
        \/ heard[i].member = "_dataCallback" /\ heard[j].member = "_dataCallback"
  BY <1>2 DEF Precedes
<1>7. \A h \in ToSet(heard) : Says(h.member, h.what, k) BY <1>2, <1>4
<1>8. "_dataCallback" \in due => Joined(heard) = Body(k) BY <1>2 DEF due
<1> QED BY <1>5, <1>6, <1>7, <1>8 DEF Intact, Says, Body, heard, due

LEMMA CompletedIntact ==
  ASSUME NEW op, Hearer(op), NEW k \in DOMAIN Envelopes, NEW r, Reached(r, op, k, Len(Body(k)))
  PROVE  Intact([Completed(r) EXCEPT !.message = None])
<1> DEFINE cb == Callbacks(op)
           n == Len(Body(k))
           body == Body(k)
<1>1. body \in Seq(Nat) /\ n \in Nat /\ n - n = 0 BY WireAssumption DEF Body
<1>2. SubSeq(body, 1, n) = body BY <1>1, SubSeqFull
<1>3. PICK heard, message :
        /\ r = Listening(op, k, 0, heard, message)
        /\ Story(heard, cb, DueAt(op, n), k, body)
        /\ Wanted(op) => Holds(message, k, n)
  BY <1>1, <1>2 DEF Reached
<1>4. \A member \in Whole : member \in DOMAIN cb => Says(member, message, k)
  <2>1. \A member \in Whole : member \in DOMAIN cb => Wanted(op) BY DEF Wanted
  <2>2. Wanted(op) => message.meta = ReadHeaders[k] /\ message.body = body BY <1>2, <1>3 DEF Holds
  <2>3. Retrieved(ReadHeaders[k]) = Retrieved(Envelopes[k].meta) BY WireAssumption
  <2> QED BY <2>1, <2>2, <2>3 DEF Says, Whole
<1> DEFINE h1 == Tell(heard, cb, "_messageCallback", message)
           h2 == Tell(h1, cb, "_bounceCallback", message)
           h3 == Tell(h2, cb, "_deliveredCallback", <<>>)
           h4 == Tell(h3, cb, "_completeCallback", <<>>)
           S1 == DueAt(op, n) \cup {"_messageCallback"}
           S2 == S1 \cup {"_bounceCallback"}
           S3 == S2 \cup {"_deliveredCallback"}
           S4 == S3 \cup {"_completeCallback"}
<1>5. First(op) \in {"_beginCallback", "_startCallback"} BY DEF First
<1>6. /\ \A m \in DueAt(op, n) : Precedes(m, "_messageCallback")
      /\ \A m \in S1 : Precedes(m, "_bounceCallback")
      /\ \A m \in S2 : Precedes(m, "_deliveredCallback")
      /\ \A m \in S3 : Precedes(m, "_completeCallback")
  BY <1>5, Turns DEF Precedes, DueAt
<1>7. /\ "_messageCallback" \in DOMAIN cb => Says("_messageCallback", message, k)
      /\ "_bounceCallback" \in DOMAIN cb => Says("_bounceCallback", message, k)
      /\ Says("_deliveredCallback", <<>>, k) /\ Says("_completeCallback", <<>>, k)
  BY <1>4 DEF Says, Whole
<1> HIDE DEF cb, n, body
<1>8. Story(h4, cb, S4, k, body)
  <2> HIDE DEF S1, S2, S3, S4, h1, h2, h3, h4
  <2>1. Story(h1, cb, S1, k, body) BY <1>3, <1>6, <1>7, StoryTold DEF h1, S1
  <2>2. Story(h2, cb, S2, k, body) BY <1>6, <1>7, <2>1, StoryTold DEF h2, S2
  <2>3. Story(h3, cb, S3, k, body) BY <1>6, <1>7, <2>2, StoryTold DEF h3, S3
  <2>4. Story(h4, cb, S4, k, body) BY <1>6, <1>7, <2>3, StoryTold DEF h4, S4
  <2> QED BY <2>4
<1> DEFINE done == [Completed(r) EXCEPT !.message = None]
<1>9. done = Listening(op, k, 0, h4, None)
  <2> HIDE DEF h1, h2, h3, h4
  <2>1. r.message = message BY <1>3, ListeningWith
  <2>2. Hear(r, "_messageCallback", message) = Listening(op, k, 0, h1, message)
    BY <1>3, HearIs DEF h1, cb
  <2>3. Hear(Listening(op, k, 0, h1, message), "_bounceCallback", message)
          = Listening(op, k, 0, h2, message)
    BY HearIs DEF h2, cb
  <2>4. Hear(Listening(op, k, 0, h2, message), "_deliveredCallback", <<>>)
          = Listening(op, k, 0, h3, message)
    BY HearIs DEF h3, cb
  <2>5. Hear(Listening(op, k, 0, h3, message), "_completeCallback", <<>>)
          = Listening(op, k, 0, h4, message)
    BY HearIs DEF h4, cb
  <2>6. Completed(r) = Listening(op, k, 0, h4, message)
    BY <2>1, <2>2, <2>3, <2>4, <2>5 DEF Completed
  <2> QED BY <2>6, ListeningWith
<1> HIDE DEF h4, done
<1>10. done.op = op /\ done.of = k /\ done.heard = h4 BY <1>9, ListeningWith
<1>11. S4 = DueAt(op, n) \cup {"_messageCallback", "_bounceCallback", "_deliveredCallback",
                             "_completeCallback"}
  OBVIOUS
<1> HIDE DEF S4
<1>12. Intact(done) BY <1>8, <1>10, <1>11, StoryIntact DEF n, cb, body
<1> QED BY <1>12 DEF done

-----------------------------------------------------------------------------
(* Who receives, and how far it has come, is what the frames on their way  *)
(* continue: nobody between two messages, a new receiver before a header,  *)
(* and within a body one that has heard of exactly the bytes that have come*)
(* already.                                                                *)
Receiving(r, e) ==
  \/ r = None
  \/ \E op : /\ Hearer(op)
             /\ \/ e = Headed /\ r = Receiver(op, First(op))
                \/ \E k \in DOMAIN Envelopes : \E n \in 0..Len(Body(k)) :
                     n < Len(Body(k)) /\ e = Within(k, n) /\ Reached(r, op, k, n)

(* The frames on their way end with a message that is whole, as long as    *)
(* the broker has not fallen silent.                                       *)
Flowing ==
  /\ \E e, g : /\ Carries(e, inbox, g) /\ Receiving(receiver, e)
               /\ silent \/ conn = "closed" \/ g = Free
  /\ received # None => Intact(received)

(* What the broker puts behind the frames on their way. *)
LEMMA FlowsBehind ==
  ASSUME IsSequence(inbox), Flowing, ~silent, conn # "closed", UNCHANGED <<receiver, received>>,
         NEW s, IsSequence(s), Carries(Free, s, Free), inbox' = inbox \o s
  PROVE  Flowing'
<1>1. PICK e : Carries(e, inbox, Free) /\ Receiving(receiver, e) BY DEF Flowing
<1>2. Carries(e, inbox', Free) BY <1>1, CarriesJoin
<1>3. \E g : Carries(e, inbox', g) /\ (silent' \/ conn' = "closed" \/ g = Free) BY <1>2
<1> QED BY <1>1, <1>3 DEF Flowing

Simple(f) == f.type \notin Announcing \cup {"header", "body"}

LEMMA FlowsFrame ==
  ASSUME IsSequence(inbox), Flowing, ~silent, conn # "closed", UNCHANGED <<receiver, received>>,
         NEW f, Simple(f), inbox' = Append(inbox, f)
  PROVE  Flowing'
<1>1. Brings(Free, f, Free) BY DEF Brings, Simple
<1>2. Carries(Free, <<f>>, Free) /\ IsSequence(<<f>>) BY <1>1, CarriesOne
<1>3. inbox' = inbox \o <<f>>
  <2>1. PICK S : inbox \in Seq(S) BY DEF IsSequence
  <2> QED BY <2>1, AppendIsConcat
<1> QED BY <1>2, <1>3, FlowsBehind

LEMMA FlowsMessage ==
  ASSUME IsSequence(inbox), maxFrame \in Sizes, Flowing, ~silent, conn # "closed",
         UNCHANGED <<receiver, received>>,
         NEW f, f.type \in Announcing, NEW k \in DOMAIN Envelopes,
         inbox' = inbox \o <<f>> \o Content(k)
  PROVE  Flowing'
<1>1. Brings(Free, f, Headed) BY DEF Brings, Announcing
<1>2. Carries(Free, <<f>>, Headed) /\ IsSequence(<<f>>) BY <1>1, CarriesOne
<1>3. Carries(Headed, Content(k), Free) /\ IsSequence(Content(k)) BY CarriesContent
<1>4. PICK e : Carries(e, inbox, Free) /\ Receiving(receiver, e) BY DEF Flowing
<1>5. Carries(e, inbox \o <<f>>, Headed) /\ IsSequence(inbox \o <<f>>)
  BY <1>2, <1>4, CarriesJoin
<1>6. Carries(e, inbox', Free) BY <1>3, <1>5, CarriesJoin
<1>7. \E g : Carries(e, inbox', g) /\ (silent' \/ conn' = "closed" \/ g = Free) BY <1>6
<1> QED BY <1>4, <1>7 DEF Flowing

LEMMA ServerFlowing == ASSUME Greeting, Flowing, Server PROVE Flowing'
<1>1. UNCHANGED <<receiver, received>> /\ conn' = conn
  BY ServerGreeting DEF client, hbVars
<1>2. /\ IsSequence(inbox) /\ maxFrame \in Sizes /\ ~silent /\ conn # "closed"
      /\ stage \in 0..3 /\ sent \in 0..Len(Envelopes) /\ Len(Envelopes) \in Nat
  BY WireAssumption
     DEF Greeting, Arriving, Server, ServerGreets, Serves, ServerAnswers, ServerAccepts,
         ServerReturns, ServerGives, ServerRefuses, ServerDelivers, ServerBeats, ServerFails,
         Answering
<1>3. ASSUME NEW f, Simple(f), inbox' = Append(inbox, f) PROVE Flowing'
  BY <1>1, <1>2, <1>3, FlowsFrame
<1>4. ASSUME NEW f, f.type \in Announcing, NEW k \in DOMAIN Envelopes,
             inbox' = inbox \o <<f>> \o Content(k)
      PROVE  Flowing'
  BY <1>1, <1>2, <1>4, FlowsMessage
<1>5. ASSUME NEW type, type \notin Announcing \cup {"header", "body"}
      PROVE  Simple(Plain(type)) /\ \A op : Simple([type |-> type, of |-> op])
  BY <1>5 DEF Simple, Plain
<1>6. \A f : <<f>> = Append(<<>>, f) OBVIOUS
<1>7. CASE ServerGreets
  <2>1. inbox = <<>> /\ inbox' = <<Plain(Handshake[stage'])>> /\ stage' \in 1..3
    BY <1>2, <1>7 DEF ServerGreets
  <2>2. Handshake[stage'] \in {"start", "tune", "connectionOpen"} BY <2>1 DEF Handshake
  <2>3. Simple(Plain(Handshake[stage'])) BY <1>5, <2>2 DEF Announcing
  <2>4. inbox' = Append(inbox, Plain(Handshake[stage'])) BY <1>6, <2>1, Zenon
  <2> QED BY <1>3, <2>3, <2>4
<1>8. CASE ServerAnswers
  <2>1. inbox' = Append(inbox, [type |-> "ok", of |-> Request]) BY <1>8 DEF ServerAnswers
  <2>2. Simple([type |-> "ok", of |-> Request]) BY <1>5 DEF Announcing
  <2> QED BY <1>3, <2>1, <2>2
<1>9. CASE ServerAccepts
  <2>1. inbox' = inbox /\ silent' = silent BY <1>9 DEF ServerAccepts, Serves
  <2> QED BY <1>1, <2>1 DEF Flowing
<1>10. CASE ServerReturns
  <2>1. inbox' = inbox \o <<Plain("return")>> \o Content(1) BY <1>10 DEF ServerReturns
  <2>2. Plain("return").type \in Announcing BY DEF Plain, Announcing
  <2>3. 1 \in DOMAIN Envelopes BY WireAssumption
  <2> QED BY <1>4, <2>1, <2>2, <2>3
<1>11. CASE ServerGives
  <2>1. CASE inbox' = Append(inbox, [type |-> "empty", of |-> Request])
    <3>1. Simple([type |-> "empty", of |-> Request]) BY <1>5 DEF Announcing
    <3> QED BY <1>3, <2>1, <3>1
  <2>2. CASE /\ sent < Len(Envelopes) /\ sent' = sent + 1
             /\ inbox' = inbox \o <<[type |-> "message", of |-> Request]>> \o Content(sent')
    <3>1. sent' \in DOMAIN Envelopes BY <1>2, <2>2, WireAssumption
    <3>2. [type |-> "message", of |-> Request].type \in Announcing BY DEF Announcing
    <3> QED BY <1>4, <2>2, <3>1, <3>2
  <2> QED BY <1>11, <2>1, <2>2 DEF ServerGives
<1>12. CASE ServerRefuses
  <2>1. inbox' = Append(inbox, Plain("refused")) BY <1>12 DEF ServerRefuses
  <2>2. Simple(Plain("refused")) BY <1>5 DEF Announcing
  <2> QED BY <1>3, <2>1, <2>2
<1>13. CASE ServerDelivers
  <2>1. /\ sent < Len(Envelopes) /\ sent' = sent + 1
        /\ inbox' = inbox \o <<Plain("deliver")>> \o Content(sent')
    BY <1>13 DEF ServerDelivers
  <2>2. sent' \in DOMAIN Envelopes BY <1>2, <2>1, WireAssumption
  <2>3. Plain("deliver").type \in Announcing BY DEF Plain, Announcing
  <2> QED BY <1>4, <2>1, <2>2, <2>3
<1>14. CASE ServerBeats
  <2>1. inbox = <<>> /\ inbox' = <<Plain("heartbeat")>> BY <1>14 DEF ServerBeats
  <2>2. Simple(Plain("heartbeat")) BY <1>5 DEF Announcing
  <2>3. inbox' = Append(inbox, Plain("heartbeat")) BY <1>6, <2>1, Zenon
  <2> QED BY <1>3, <2>2, <2>3
<1>15. CASE ServerFails
  <2>1. silent' = TRUE BY <1>15 DEF ServerFails
  <2>2. PICK arrives \in {inbox, <<>>} : inbox' \in {arrives, Append(arrives, Plain("end"))}
    BY <1>15 DEF ServerFails
  <2>3. PICK e, h : Carries(e, inbox, h) /\ Receiving(receiver, e) BY DEF Flowing
  <2>4. \E g : Carries(e, arrives, g) /\ IsSequence(arrives)
    <3>1. CASE arrives = inbox BY <1>2, <2>3, <3>1
    <3>2. CASE arrives = <<>> BY <3>2, CarriesNothing, EmptyIsSequence
    <3> QED BY <2>2, <3>1, <3>2
  <2>5. PICK g : Carries(e, arrives, g) /\ IsSequence(arrives) BY <2>4
  <2>6. Carries(e, inbox', g)
    <3>1. CASE inbox' = arrives BY <2>5, <3>1
    <3>2. CASE inbox' = Append(arrives, Plain("end"))
      <4> DEFINE f == Plain("end")
      <4>1. Brings(g, f, g) BY DEF Brings, Plain
      <4> HIDE DEF f
      <4>2. Carries(g, <<f>>, g) /\ IsSequence(<<f>>) BY <4>1, CarriesOne
      <4>3. inbox' = arrives \o <<f>>
        <5>1. PICK S : arrives \in Seq(S) BY <2>5 DEF IsSequence
        <5> QED BY <3>2, <5>1, AppendIsConcat DEF f
      <4> QED BY <2>5, <4>2, <4>3, CarriesJoin
    <3> QED BY <2>2, <3>1, <3>2
  <2> QED BY <1>1, <2>1, <2>3, <2>6 DEF Flowing
<1> QED BY <1>7, <1>8, <1>9, <1>10, <1>11, <1>12, <1>13, <1>14, <1>15 DEF Server

(* A get() that is answered is the oldest operation. *)
LEMMA MessageIsOldest ==
  ASSUME Greeting, ChannelInv, Matched, inbox # <<>>, Head(inbox).type = "message"
  PROVE  c.oldest \in Ops /\ Hearer(c.oldest)
<1>1. IsSequence(inbox) BY DEF Greeting, Arriving
<1>2. Head(inbox) = inbox[1] /\ 1 \in DOMAIN inbox BY <1>1, Shortened, SequenceHas
<1>3. 1 \in Answers BY <1>2 DEF Answers, IsAnswer
<1>4. Fits(inbox[1]) /\ c.state # "closed" BY <1>3 DEF Matched
<1>5. Live(c, served) BY <1>4 DEF ChannelInv, Shut
<1>6. /\ c.synchronous /\ inbox[1].of = Awaited(c)
      /\ inbox[1].of \in Ops /\ Kind[inbox[1].of] \in Gets
  BY <1>2, <1>4 DEF Fits
<1>7. inbox[1].of # Open BY <1>6, CallsAssumption
<1>8. inbox[1].of = c.oldest BY <1>5, <1>6, <1>7, AwaitedIsOldest
<1> QED BY <1>6, <1>8 DEF Hearer

LEMMA ConsumerHears ==
  ASSUME ChannelInv, c.consumer # None
  PROVE  c.consumer \in Ops /\ Hearer(c.consumer)
<1>1. c \in Chan BY DEF ChannelInv, Live, Shut, Working
<1>2. c.consumer \in {op \in Ops : Kind[op] \in Consumers} \cup {None} BY <1>1 DEF Chan
<1> QED BY <1>2 DEF Hearer

(* What Received() makes of a receiver to which n bytes have come. *)
LEMMA ReceivedFlows ==
  ASSUME NEW op, Hearer(op), NEW k \in DOMAIN Envelopes, NEW n \in 0..Len(Body(k)),
         NEW r, Reached(r, op, k, n), r.left = Len(Body(k)) - n, Received(r),
         received # None => Intact(received)
  PROVE  Receiving(receiver', After(k, n)) /\ (received' # None => Intact(received'))
<1>1. Len(Body(k)) \in Nat BY WireAssumption DEF Body
<1>2. CASE r.left > 0
  <2>1. n < Len(Body(k)) BY <1>1, <1>2
  <2>2. After(k, n) = Within(k, n) BY <2>1 DEF After
  <2>3. receiver' = r /\ received' = received BY <1>2 DEF Received
  <2> QED BY <2>1, <2>2, <2>3 DEF Receiving
<1>3. CASE ~(r.left > 0)
  <2>1. n = Len(Body(k)) BY <1>1, <1>3
  <2>2. Intact([Completed(r) EXCEPT !.message = None]) BY <2>1, CompletedIntact
  <2>3. receiver' = None /\ received' = [Completed(r) EXCEPT !.message = None]
    BY <1>3 DEF Received
  <2> QED BY <2>2, <2>3 DEF Receiving
<1> QED BY <1>2, <1>3

(* Each frame that is processed is the one the receiver waits for. *)
LEMMA ProcessFlowing ==
  ASSUME IInv, Greeting, Greeting', ChannelInv, Matched, Flowing, Process
  PROVE  Flowing'
<1> DEFINE f == Head(inbox)
<1>1. /\ inbox # <<>> /\ inbox' = Tail(inbox) /\ silent' = silent
      /\ conn # "closed" /\ (conn' = "closed" => f.type = "end")
  BY ProcessFollows DEF broker
<1>2. IsSequence(inbox) BY DEF Greeting, Arriving
<1>3. PICK e, g : /\ Carries(e, inbox, g) /\ Receiving(receiver, e)
                  /\ silent \/ conn = "closed" \/ g = Free
  BY DEF Flowing
<1>4. PICK h : Brings(e, f, h) /\ Carries(h, Tail(inbox), g) BY <1>1, <1>2, <1>3, CarriesFirst
<1> HIDE DEF f
<1>5. SUFFICES ASSUME f.type # "end"
               PROVE  Receiving(receiver', h) /\ (received' # None => Intact(received'))
  <2>1. CASE f.type = "end"
    <3>1. ProcessEnd
      BY <2>1 DEF f, Process, ProcessHandshake, ProcessTune, ProcessHeartbeat, ProcessAnswer,
                  ProcessRefusal, ProcessDeliver, ProcessMessage, ProcessReturn, ProcessHeader,
                  ProcessBody, Arrives
    <3>2. conn' = "closed" /\ UNCHANGED <<receiver, received>> BY <3>1 DEF ProcessEnd, ReadEnd
    <3>3. inbox' = <<>> BY <3>2 DEF Greeting
    <3>4. Carries(e, inbox', e) BY <3>3, CarriesNothing
    <3> QED BY <1>3, <3>2, <3>4 DEF Flowing
  <2>2. CASE f.type # "end"
    <3>1. Receiving(receiver', h) /\ (received' # None => Intact(received')) BY <1>5, <2>2
    <3>2. Carries(h, inbox', g) /\ (silent' \/ conn' = "closed" \/ g = Free)
      BY <1>1, <1>3, <1>4
    <3> QED BY <3>1, <3>2 DEF Flowing
  <2> QED BY <2>1, <2>2
<1>6. received # None => Intact(received) BY DEF Flowing
<1>7. Free # Headed /\ \A k, n : Within(k, n) # Free /\ Within(k, n) # Headed
  BY DEF Free, Headed, Within
<1>8. ASSUME UNCHANGED <<receiver, received>>,
             f.type \in {"start", "connectionOpen", "tune", "heartbeat", "ok", "empty", "refused"}
      PROVE  Receiving(receiver', h) /\ (received' # None => Intact(received'))
  <2>1. e = Free /\ h = Free BY <1>4, <1>8 DEF Brings, Announcing
  <2> QED BY <1>3, <1>6, <1>8, <2>1
<1>9. ASSUME received' = received, f.type \in Announcing,
             receiver' = None \/ \E op : Hearer(op) /\ receiver' = Receiver(op, First(op))
      PROVE  Receiving(receiver', h) /\ (received' # None => Intact(received'))
  <2>1. h = Headed BY <1>4, <1>9 DEF Brings, Announcing
  <2> QED BY <1>6, <1>9, <2>1 DEF Receiving
<1>10. CASE ProcessHandshake BY <1>8, <1>10 DEF ProcessHandshake, Arrives, f
<1>11. CASE ProcessTune BY <1>8, <1>11 DEF ProcessTune, Arrives, f
<1>12. CASE ProcessHeartbeat BY <1>8, <1>12 DEF ProcessHeartbeat, Arrives, f
<1>13. CASE ProcessAnswer BY <1>8, <1>13 DEF ProcessAnswer, Arrives, f
<1>14. CASE ProcessRefusal BY <1>8, <1>14 DEF ProcessRefusal, Arrives, f
<1>15. CASE ProcessDeliver
  <2>1. /\ received' = received /\ f.type = "deliver"
        /\ receiver' = IF c.consumer = None THEN None ELSE Receiver(c.consumer, "_startCallback")
    BY <1>15 DEF ProcessDeliver, Arrives, f
  <2>2. c.consumer # None => Hearer(c.consumer) /\ First(c.consumer) = "_startCallback"
    BY ConsumerHears, ClientAssumption DEF First
  <2> QED BY <1>9, <2>1, <2>2 DEF Announcing
<1>16. CASE ProcessMessage
  <2>1. /\ received' = received /\ f.type = "message"
        /\ receiver' = Receiver(c.oldest, "_startCallback")
    BY <1>16 DEF ProcessMessage, Arrives, f
  <2>2. Hearer(c.oldest) /\ First(c.oldest) = "_startCallback"
    BY <1>1, <2>1, MessageIsOldest, ClientAssumption DEF First, f
  <2> QED BY <1>9, <2>1, <2>2 DEF Announcing
<1>17. CASE ProcessReturn
  <2>1. /\ received' = received /\ f.type = "return"
        /\ receiver' = IF Recalls = <<>> THEN None ELSE Receiver(Recall, "_beginCallback")
    BY <1>17 DEF ProcessReturn, Arrives, f
  <2>2. Hearer(Recall) /\ First(Recall) = "_beginCallback" BY DEF Hearer, First
  <2> QED BY <1>9, <2>1, <2>2 DEF Announcing
<1>18. CASE ProcessHeader
  <2>1. /\ f.type = "header"
        /\ IF receiver = None THEN Ignored ELSE Received(WithHeader(receiver, f.of))
    BY <1>18 DEF ProcessHeader, Arrives, f
  <2>2. e = Headed /\ f.of \in DOMAIN Envelopes /\ h = After(f.of, 0)
    BY <1>4, <2>1 DEF Brings
  <2>3. CASE receiver = None BY <1>6, <2>1, <2>3 DEF Ignored, Receiving
  <2>4. CASE receiver # None
    <3>1. PICK op : Hearer(op) /\ receiver = Receiver(op, First(op))
      BY <1>3, <1>7, <2>2, <2>4 DEF Receiving
    <3> DEFINE r == WithHeader(receiver, f.of)
    <3>2. Reached(r, op, f.of, 0) /\ r.left = Len(Body(f.of)) BY <2>2, <3>1, HeaderReaches
    <3>3. Received(r) BY <2>1, <2>4
    <3> HIDE DEF r
    <3>4. Len(Body(f.of)) \in Nat BY <2>2, WireAssumption DEF Body
    <3>5. 0 \in 0..Len(Body(f.of)) /\ r.left = Len(Body(f.of)) - 0 BY <3>2, <3>4
    <3> QED BY <1>6, <2>2, <3>1, <3>2, <3>3, <3>5, ReceivedFlows
  <2> QED BY <2>3, <2>4
<1>19. CASE ProcessBody
  <2>1. /\ f.type = "body"
        /\ IF receiver = None THEN Ignored ELSE Received(WithBody(receiver, f.payload))
    BY <1>19 DEF ProcessBody, Arrives, f
  <2>2. PICK k \in DOMAIN Envelopes : \E n \in 0..Len(Body(k)), m \in 0..Len(Body(k)) :
          /\ m < n /\ e = Within(k, m) /\ f.payload = SubSeq(Body(k), m + 1, n)
          /\ h = After(k, n)
    BY <1>4, <1>5, <2>1 DEF Brings
  <2>3. PICK n \in 0..Len(Body(k)), m \in 0..Len(Body(k)) :
          /\ m < n /\ e = Within(k, m) /\ f.payload = SubSeq(Body(k), m + 1, n)
          /\ h = After(k, n)
    BY <2>2
  <2>4. CASE receiver = None BY <1>6, <2>1, <2>4 DEF Ignored, Receiving
  <2>5. CASE receiver # None
    <3>1. PICK op : /\ Hearer(op)
                    /\ \E j \in DOMAIN Envelopes : \E i \in 0..Len(Body(j)) :
                         e = Within(j, i) /\ Reached(receiver, op, j, i)
      BY <1>3, <1>7, <2>3, <2>5 DEF Receiving
    <3>2. \A j, i : Within(j, i) = Within(k, m) => j = k /\ i = m BY DEF Within
    <3>3. Reached(receiver, op, k, m) BY <2>3, <3>1, <3>2
    <3> DEFINE r == WithBody(receiver, SubSeq(Body(k), m + 1, n))
    <3>4. Reached(r, op, k, n) /\ r.left = Len(Body(k)) - n BY <2>3, <3>3, BodyReaches
    <3>5. Received(r) BY <2>1, <2>3, <2>5
    <3> HIDE DEF r
    <3> QED BY <1>6, <2>3, <3>1, <3>4, <3>5, ReceivedFlows
  <2> QED BY <2>4, <2>5
<1>20. CASE ProcessEnd BY <1>5, <1>20 DEF ProcessEnd, Arrives, f
<1> QED BY <1>10, <1>11, <1>12, <1>13, <1>14, <1>15, <1>16, <1>17, <1>18, <1>19, <1>20 DEF Process

(* Flowing is inductive, relative to the invariants of the channel. *)
LEMMA FlowingNext ==
  ASSUME IInv, Greeting, Greeting', ChannelInv, Matched, Flowing, [ClientNext]_clientVars
  PROVE  Flowing'
<1>1. ASSUME UNCHANGED <<inbox, receiver, silent, conn>>, received' = None \/ received' = received
      PROVE  Flowing'
  BY <1>1 DEF Flowing
<1>2. CASE Server BY <1>2, ServerFlowing
<1>3. CASE Process BY <1>3, ProcessFlowing
<1>4. CASE Waits BY <1>1, <1>4 DEF Waits, Tick, client, broker
<1>5. CASE Wakes BY <1>1, <1>5 DEF Wakes, Iterate, client, broker
<1>6. CASE Polls BY <1>1, <1>6 DEF Polls, PollTimer, broker
<1>7. CASE Resumes BY <1>1, <1>7 DEF Resumes, Unblock, broker
<1>8. CASE Expires
  <2>1. UNCHANGED <<silent, receiver, received>> BY <1>8 DEF Expires, broker
  <2>2. conn' \in {conn, "closed"}
    BY <1>8 DEF Expires, OnExpired, ExpiredUnnegotiated, ExpiredInactive, ExpiredAlive, CloseNow
  <2>3. CASE conn' = "closed" /\ conn # "closed"
    <3>1. inbox' = <<>> BY <1>8, <2>3 DEF Expires
    <3>2. PICK e : Receiving(receiver, e) BY DEF Flowing
    <3>3. Carries(e, inbox', e) BY <3>1, CarriesNothing
    <3> QED BY <2>1, <2>3, <3>2, <3>3 DEF Flowing
  <2>4. CASE ~(conn' = "closed" /\ conn # "closed")
    BY <1>1, <1>8, <2>1, <2>2, <2>4 DEF Expires
  <2> QED BY <2>3, <2>4
<1>9. CASE UNCHANGED clientVars BY <1>1, <1>9 DEF clientVars, hbVars
<1> QED BY <1>2, <1>3, <1>4, <1>5, <1>6, <1>7, <1>8, <1>9 DEF ClientNext, Loop

LEMMA FlowingInit == ClientInit => Flowing
<1> SUFFICES ASSUME ClientInit PROVE Flowing OBVIOUS
<1>1. inbox = <<>> /\ receiver = None /\ received = None BY DEF ClientInit
<1>2. Carries(Free, inbox, Free) BY <1>1, CarriesNothing
<1> QED BY <1>1, <1>2 DEF Flowing, Receiving

(* The inductive invariant of the messages on their way. *)
THEOREM FlowingInvariance == ClientSpec => []Flowing
<1>1. ClientInit => Flowing BY FlowingInit
<1>2. IInv /\ Greeting /\ Greeting' /\ (ChannelInv /\ Matched) /\ Flowing /\ [ClientNext]_clientVars
        => Flowing'
  BY FlowingNext
<1> QED BY <1>1, <1>2, GreetingInvariance, ChannelInvariance, PTL DEF ClientSpec

(* Whatever frame size is negotiated, and whichever callbacks the program  *)
(* installs on DeferredConsumer, DeferredGet or DeferredRecall: it hears of*)
(* each message what was sent, all of it, once and in order.               *)
THEOREM ClientKeepsMessages == ClientSpec => []MessagesIntact
<1>1. Flowing => MessagesIntact BY DEF Flowing, Intact, MessagesIntact
<1> QED BY <1>1, FlowingInvariance, PTL
=============================================================================
