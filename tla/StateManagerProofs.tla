------------------------- MODULE StateManagerProofs -------------------------
(***************************************************************************)
(* Theorems about the state manager and the times and texts of its tracks  *)
(* (StateManager, TrackInfo), for any set of tracks and any titles.        *)
(***************************************************************************)
EXTENDS TrackInfo, SequenceTheorems, TLAPS

(* Every variable keeps its type. *)
THEOREM TypeCorrect == Spec => []TypeOK
<1>1. Init => TypeOK
  <2>1. Init => stream \in Streams
    BY DEF Init, Streams
  <2>2. Fresh \in Snapshot
    BY DEF Fresh, Snapshot
  <2>3. QED
    BY <2>1, <2>2 DEF Init, TypeOK
<1>2. TypeOK /\ [Next]_vars => TypeOK'
  <2> SUFFICES ASSUME TypeOK, [Next]_vars
               PROVE  TypeOK'
    OBVIOUS
  <2> USE DEF TypeOK, mirror
  <2>1. Fresh \in Snapshot
    BY DEF Fresh, Snapshot
  <2>2. ASSUME NEW s \in Snapshot, NEW next \in {"loop", "metadata"}, SetState(s, next)
        PROVE  state' \in Snapshot /\ bus' \in Snapshot /\ pc' \in {"loop", "metadata", "dead", "killed"}
    BY <2>1, <2>2 DEF SetState
  <2>3. CASE UpdateStatus
    <3>1. [state EXCEPT !.status = ReportedStatus] \in Snapshot
      BY DEF Snapshot, ReportedStatus
    <3>2. QED
      BY <2>2, <2>3, <3>1 DEF UpdateStatus
  <2>4. CASE UpdateMetadata
    <3>1. [state EXCEPT !.track = stream.track] \in Snapshot
      BY DEF Snapshot, Streams
    <3>2. QED
      BY <2>2, <2>4, <3>1 DEF UpdateMetadata
  <2>5. CASE StatusRequest
    BY <2>5 DEF StatusRequest
  <2>6. CASE DjCommand
    BY <2>6 DEF DjCommand
  <2>7. CASE StreamChanges
    BY <2>7 DEF StreamChanges
  <2>8. CASE ConnectionCloses
    BY <2>8 DEF ConnectionCloses
  <2>9. CASE Killed
    BY <2>1, <2>9 DEF Killed
  <2>10. CASE Restart
    BY <2>1, <2>10 DEF Restart
  <2>11. CASE UNCHANGED vars
    BY <2>11 DEF vars
  <2>12. QED
    BY <2>3, <2>4, <2>5, <2>6, <2>7, <2>8, <2>9, <2>10, <2>11 DEF Next, Poll
<1>3. QED
  BY <1>1, <1>2, PTL DEF Spec

-----------------------------------------------------------------------------
(* What a living process holds can be published; after an undisturbed      *)
(* first half of a poll the status is Liquidsoap's, and after the second   *)
(* the title is not new any more.                                          *)
IInv ==
  /\ StatePublishable
  /\ BusMirrorsState
  /\ pc = "metadata" /\ calm => state.status = ReportedStatus /\ Returns /\ ~stale
  /\ pc = "loop" /\ calm => /\ state.status = ReportedStatus /\ Returns /\ ~stale
                            /\ stream.mode = "up" => ~NewTitle(stream.track)

LEMMA InvInit == Init => IInv
  BY DEF Init, IInv, Fresh, StatePublishable, Dumpable, BusMirrorsState, Alive

LEMMA InvStep == TypeOK /\ IInv /\ [Next]_vars => IInv'
<1> SUFFICES ASSUME TypeOK, IInv, [Next]_vars
             PROVE  IInv'
  OBVIOUS
<1> USE DEF TypeOK, IInv, BusMirrorsState, StatePublishable, Alive, mirror, Dumpable
<1>0. Dumpable(Fresh)
  BY DEF Fresh
<1>1. CASE UpdateStatus
  <2>1. Dumpable([state EXCEPT !.status = ReportedStatus])
    BY DEF Snapshot
  <2>2. state'.status = ReportedStatus /\ pc' = "metadata" /\ stream' = stream
    BY <1>1, <2>1 DEF UpdateStatus, SetState, Snapshot
  <2>3. Dumpable(state') /\ (state' # Fresh => bus' = state')
    BY <1>1, <2>1 DEF UpdateStatus, SetState
  <2>4. calm' => ~stale /\ ~stale' /\ Returns
    BY <1>1 DEF UpdateStatus
  <2>5. calm' => ReportedStatus' = ReportedStatus /\ Returns'
    BY <2>2, <2>4 DEF ReportedStatus, Answers, Returns
  <2>6. QED
    BY <2>2, <2>3, <2>4, <2>5
<1>2. CASE UpdateMetadata
  <2> DEFINE s == [state EXCEPT !.track = stream.track]
  <2>1. /\ stream' = stream /\ stale' = FALSE /\ calm' = calm
        /\ pc = "metadata" /\ Returns
    BY <1>2 DEF UpdateMetadata
  <2>2. CASE Answers /\ NewTitle(stream.track)
    <3>1. SetState(s, "loop")
      BY <1>2, <2>2 DEF UpdateMetadata
    <3>2. CASE Dumpable(s)
      <4>1. state' = s /\ bus' = s /\ pc' = "loop"
        BY <3>1, <3>2 DEF SetState
      <4>2. state'.status = state.status /\ state'.track = stream.track
        BY <4>1 DEF Snapshot
      <4>3. ~NewTitle(stream.track)'
        BY <2>1, <4>2, TracksAssumption DEF NewTitle, Streams
      <4>4. calm => ReportedStatus' = ReportedStatus /\ Returns'
        BY <2>1 DEF ReportedStatus, Answers, Returns
      <4>5. QED
        BY <2>1, <3>2, <4>1, <4>2, <4>3, <4>4
    <3>3. CASE ~Dumpable(s)
      BY <1>0, <3>1, <3>3 DEF SetState
    <3>4. QED
      BY <3>2, <3>3
  <2>3. CASE ~(Answers /\ NewTitle(stream.track))
    <3>1. state' = state /\ bus' = bus /\ pc' = "loop"
      BY <1>2, <2>3 DEF UpdateMetadata
    <3>2. calm => ReportedStatus' = ReportedStatus /\ Returns'
      BY <2>1 DEF ReportedStatus, Answers, Returns
    <3>3. calm /\ stream.mode = "up" => ~NewTitle(stream.track)'
      BY <2>1, <2>3, <3>1 DEF Answers, NewTitle
    <3>4. QED
      BY <2>1, <3>1, <3>2, <3>3
  <2>4. QED
    BY <2>2, <2>3
<1>3. CASE StatusRequest
  <2>1. state' = state /\ bus' = state /\ pc' = "loop"
    BY <1>3 DEF StatusRequest
  <2>2. UNCHANGED <<stream, stale, calm>> /\ pc = "loop"
    BY <1>3 DEF StatusRequest
  <2>3. QED
    BY <2>1, <2>2 DEF ReportedStatus, Answers, Returns, NewTitle
<1>4. CASE DjCommand
  <2>1. UNCHANGED <<stream, state, bus, pc, calm>> /\ pc = "loop" /\ ~stale'
    BY <1>4 DEF DjCommand
  <2>2. calm => ~stale
    BY <2>1
  <2>3. QED
    BY <2>1, <2>2 DEF ReportedStatus, Answers, Returns, NewTitle
<1>5. CASE StreamChanges
  BY <1>5 DEF StreamChanges
<1>6. CASE ConnectionCloses
  BY <1>6 DEF ConnectionCloses
<1>7. CASE Killed
  BY <1>0, <1>7 DEF Killed
<1>8. CASE Restart
  BY <1>0, <1>8 DEF Restart
<1>9. CASE UNCHANGED vars
  BY <1>9 DEF vars, ReportedStatus, Answers, Returns, NewTitle
<1>10. QED
  BY <1>1, <1>2, <1>3, <1>4, <1>5, <1>6, <1>7, <1>8, <1>9 DEF Next, Poll

-----------------------------------------------------------------------------
(* The last snapshot published is what the gateway holds. *)
THEOREM BusAlwaysMirrors == Spec => []BusMirrorsState
<1>1. IInv => BusMirrorsState
  BY DEF IInv
<1>2. QED
  BY <1>1, TypeCorrect, InvInit, InvStep, PTL DEF Spec

(* No living process holds a state that cannot be published, for any       *)
(* choice of readable tracks.                                              *)
THEOREM StatesArePublishable == Spec => []StatePublishable
<1>1. IInv => StatePublishable
  BY DEF IInv
<1>2. QED
  BY <1>1, TypeCorrect, InvInit, InvStep, PTL DEF Spec

(* An undisturbed poll leaves subscribers with Liquidsoap's status and     *)
(* title, for any tracks and whatever went before.                         *)
THEOREM PollsCatchUp == Spec => []PollCatchesUp
<1>1. TypeOK /\ IInv => PollCatchesUp
  <2> SUFFICES ASSUME TypeOK, IInv, pc = "loop", calm
               PROVE  /\ bus.status = ReportedStatus
                      /\ stream.mode = "up" => /\ bus.track \in Tracks
                                               /\ Title[bus.track] = Title[stream.track]
    BY DEF PollCatchesUp
  <2>1. state.status = ReportedStatus /\ stream.mode \in {"up", "down"} /\ ~stale
    BY ModesAssumption DEF IInv, TypeOK, Streams, Returns
  <2>2. state \in Snapshot /\ stream.track \in Tracks
    BY DEF TypeOK, Streams
  <2>3. CASE stream.mode = "up"
    <3>1. state.track # NoTrack /\ Title[state.track] = Title[stream.track]
      BY <2>3 DEF IInv, NewTitle
    <3>2. state # Fresh
      BY <3>1 DEF Fresh
    <3>3. bus = state
      BY <3>2 DEF IInv, BusMirrorsState, Alive
    <3>4. QED
      BY <2>1, <2>2, <3>1, <3>3 DEF Snapshot
  <2>4. CASE stream.mode = "down"
    <3>1. state.status = "error"
      BY <2>1, <2>4 DEF ReportedStatus, Answers
    <3>2. state # Fresh
      BY <3>1 DEF Fresh
    <3>3. QED
      BY <2>1, <2>4, <3>2 DEF IInv, BusMirrorsState, Alive
  <2>5. QED
    BY <2>1, <2>3, <2>4
<1>2. QED
  BY <1>1, TypeCorrect, InvInit, InvStep, PTL DEF Spec

(* Nothing but a track that is not valid UTF-8, met by the metadata half   *)
(* of a poll, ends the process.                                            *)
THEOREM OnlyBadTextEndsProcess == Spec => OnlyBadTextKills
<1>1. TypeOK /\ IInv /\ [Next]_vars =>
        [pc # "dead" /\ pc' = "dead" => pc = "metadata" /\ stream.track \notin Utf8]_vars
  <2> SUFFICES ASSUME TypeOK, IInv, [Next]_vars, pc # "dead", pc' = "dead"
               PROVE  pc = "metadata" /\ stream.track \notin Utf8
    OBVIOUS
  <2>1. Dumpable(state) /\ Dumpable([state EXCEPT !.status = ReportedStatus])
    BY DEF IInv, StatePublishable, Dumpable, TypeOK, Snapshot
  <2>2. ~UpdateStatus /\ ~StatusRequest
    BY <2>1 DEF UpdateStatus, StatusRequest, SetState
  <2>3. CASE UpdateMetadata
    BY <2>3 DEF UpdateMetadata, SetState, Dumpable, TypeOK, Snapshot
  <2>4. ~DjCommand /\ ~StreamChanges /\ ~ConnectionCloses /\ ~Killed /\ ~Restart /\ ~UNCHANGED vars
    BY DEF DjCommand, StreamChanges, ConnectionCloses, Killed, Restart, vars
  <2>5. QED
    BY <2>2, <2>3, <2>4 DEF Next, Poll
<1>2. QED
  BY <1>1, TypeCorrect, InvInit, InvStep, PTL DEF Spec, OnlyBadTextKills

-----------------------------------------------------------------------------
(* Cutting a time to seconds loses less than one. *)
LEMMA SecondsCut ==
  ASSUME NEW time \in Nat
  PROVE  /\ Seconds(time) \in Nat
         /\ Seconds(time) * TicksPerSecond <= time
         /\ time < (Seconds(time) + 1) * TicksPerSecond
<1> DEFINE q == time \div TicksPerSecond
           r == time % TicksPerSecond
<1>1. TicksPerSecond \in Nat /\ TicksPerSecond > 0
  BY ClockAssumption
<1>2. q \in Nat /\ r \in 0..TicksPerSecond - 1 /\ time = TicksPerSecond * q + r
  BY <1>1, Z3
<1> HIDE DEF q, r
<1>3. (q + 1) * TicksPerSecond = q * TicksPerSecond + TicksPerSecond
      /\ TicksPerSecond * q = q * TicksPerSecond /\ q * TicksPerSecond \in Nat
  BY <1>1, <1>2
<1> USE DEF q
<1>4. QED
  BY <1>1, <1>2, <1>3 DEF Seconds

LEMMA DurationIsNat == \A data : parse_nowplaying(data).duration \in Nat
<1>1. \A text : parse_duration(text) \in Nat
  BY ClockAssumption DEF parse_duration
<1>2. QED
  BY <1>1 DEF parse_nowplaying

(* The start and the end of a duration, each cut to whole seconds. *)
LEMMA CutsAgree ==
  ASSUME NEW now \in Nat, NEW duration \in Nat
  PROVE  /\ Seconds(now) * TicksPerSecond + duration
              < (Seconds(now + duration) + 1) * TicksPerSecond
         /\ Seconds(now + duration) * TicksPerSecond
              < (Seconds(now) + 1) * TicksPerSecond + duration
<1>1. now + duration \in Nat /\ TicksPerSecond \in Nat
  BY ClockAssumption
<1> DEFINE a == Seconds(now) * TicksPerSecond
           b == (Seconds(now) + 1) * TicksPerSecond
           c == Seconds(now + duration) * TicksPerSecond
           d == (Seconds(now + duration) + 1) * TicksPerSecond
<1>2. a \in Nat /\ b \in Nat /\ c \in Nat /\ d \in Nat
  BY <1>1, SecondsCut
<1>3. a <= now /\ now < b /\ c <= now + duration /\ now + duration < d
  BY <1>1, SecondsCut
<1> HIDE DEF a, b, c, d
<1>4. a + duration < d /\ c < b + duration
  BY <1>2, <1>3
<1> USE DEF a, b, c, d
<1>5. QED
  BY <1>4

(* Whenever a track is taken over, by a poll, a restart or after an error, *)
(* and whatever the clock has been set to: its end fits its start and its  *)
(* duration.                                                               *)
THEOREM EndsAreOnTime == InfoFairSpec => []EndsOnTime
<1>1. InfoInit => EndsOnTime
  BY DEF InfoInit, Init, Fresh, EndsOnTime
<1>2. EndsOnTime /\ [InfoNext]_<<vars, info>> => EndsOnTime'
  <2> SUFFICES ASSUME EndsOnTime, [InfoNext]_<<vars, info>>, state'.track # NoTrack,
                      info'.duration <= MaxDuration
               PROVE  EndsOnTime'
    BY DEF EndsOnTime
  <2>1. CASE UNCHANGED <<vars, info>>
    BY <2>1 DEF vars, EndsOnTime
  <2>2. CASE InfoNext /\ state'.track = state.track
    <3>1. info' = info
      BY <2>2 DEF InfoNext, TakeOver
    <3>2. QED
      BY <2>2, <3>1 DEF EndsOnTime
  <2>3. CASE InfoNext /\ state'.track # state.track
    <3> DEFINE meta == parse_nowplaying(Reply[state'.track])
    <3>1. \E now \in Clock : \E end \in EndTimes(now, meta.duration) :
            info' = Enriched(meta, now, end)
      BY <2>3 DEF InfoNext, TakeOver
    <3> HIDE DEF meta
    <3>2. PICK now \in Clock : \E end \in EndTimes(now, meta.duration) :
            info' = Enriched(meta, now, end)
      BY <3>1
    <3>3. PICK end \in EndTimes(now, meta.duration) : info' = Enriched(meta, now, end)
      BY <3>2
    <3>4. /\ info'.duration = meta.duration /\ info'.start_time = Seconds(now)
          /\ info'.end_time = end
      BY <3>3 DEF Enriched
    <3>5. meta.duration \in Nat /\ now \in Nat
      BY DurationIsNat, ClockAssumption DEF meta
    <3>6. end = Seconds(now + meta.duration)
      BY <3>3, <3>4 DEF EndTimes
    <3>7. QED
      BY <3>4, <3>5, <3>6, CutsAgree DEF EndsOnTime
  <2>4. QED
    BY <2>1, <2>2, <2>3
<1>3. QED
  BY <1>1, <1>2, PTL DEF InfoFairSpec

-----------------------------------------------------------------------------
(* Where the parts of a text are. *)
LEMMA Parts ==
  ASSUME NEW T, NEW s \in Seq(T), NEW t \in Seq(T)
  PROVE  /\ s \o t \in Seq(T) /\ Len(s \o t) = Len(s) + Len(t)
         /\ \A i \in 1..Len(s) : (s \o t)[i] = s[i]
         /\ \A i \in 1..Len(t) : (s \o t)[Len(s) + i] = t[i]
<1>1. Len(s) \in Nat /\ Len(t) \in Nat
  BY LenProperties
<1>2. PICK r : r = s \o t
  OBVIOUS
<1>3. /\ r \in Seq(T) /\ Len(r) = Len(s) + Len(t)
      /\ \A i \in 1..Len(s) + Len(t) : r[i] = IF i <= Len(s) THEN s[i] ELSE t[i - Len(s)]
  BY <1>2, ConcatProperties
<1>4. \A i \in 1..Len(s) : r[i] = s[i]
  BY <1>1, <1>3
<1>5. ASSUME NEW i \in 1..Len(t) PROVE r[Len(s) + i] = t[i]
  <2>1. PICK j : j = Len(s) + i
    OBVIOUS
  <2>2. j \in 1..Len(s) + Len(t) /\ ~(j <= Len(s)) /\ j - Len(s) = i
    BY <1>1, <2>1
  <2>3. QED
    BY <1>3, <2>1, <2>2
<1>6. QED
  BY <1>2, <1>3, <1>4, <1>5

(* A part that stands after k tokens is cut out as it is. *)
LEMMA PartIsCut ==
  ASSUME NEW T, NEW line \in Seq(T), NEW s \in Seq(T), NEW k \in Nat,
         k + Len(s) <= Len(line), \A i \in 1..Len(s) : line[k + i] = s[i]
  PROVE  SubSeq(line, k + 1, k + Len(s)) = s
<1>1. PICK n : n = Len(s)
  OBVIOUS
<1>2. n \in Nat /\ Len(line) \in Nat
  BY <1>1, LenProperties
<1>3. PICK r : r = SubSeq(line, k + 1, k + n)
  OBVIOUS
<1>4. \A i \in k + 1..k + n : line[i] \in T
  BY <1>1, <1>2, ElementOfSeq
<1>5. /\ r \in Seq(T)
      /\ Len(r) = IF k + 1 <= k + n THEN (k + n) - (k + 1) + 1 ELSE 0
      /\ \A i \in 1..(k + n) - (k + 1) + 1 : r[i] = line[(k + 1) + i - 1]
  BY <1>2, <1>3, <1>4, SubSeqProperties
<1>6. Len(r) = n
  BY <1>2, <1>5
<1>7. ASSUME NEW i \in 1..n PROVE r[i] = s[i]
  <2>1. i \in 1..(k + n) - (k + 1) + 1 /\ (k + 1) + i - 1 = k + i
    BY <1>2
  <2>2. r[i] = line[k + i]
    BY <1>5, <2>1
  <2>3. QED
    BY <1>1, <2>2
<1>8. QED
  BY <1>1, <1>3, <1>5, <1>6, <1>7, SeqEqual

(* What is neither among the first m nor the last of them lies in between. *)
LEMMA Between ==
  ASSUME NEW m \in Nat, NEW n \in Nat, NEW k \in 1..m + n + 3,
         k # m + n + 3, k \notin 1..m
  PROVE  m + 1 <= k /\ k <= m + n + 2
OBVIOUS

(* What comes after the place m + 1 can be counted from there. *)
LEMMA Beyond ==
  ASSUME NEW m \in Nat, NEW n \in Nat, NEW k \in 1..m + 1 + n, k > m + 1
  PROVE  \E j \in 1..n : k = m + 1 + j
<1>1. k - (m + 1) \in 1..n /\ k = m + 1 + (k - (m + 1))
  OBVIOUS
<1>2. QED
  BY <1>1

(* The line that Liquidsoap writes: artist, title and duration with bars   *)
(* in between, or no more than is known.                                   *)
Untimed(artist, title)     == artist \o <<"|">> \o title
Timed(artist, title, word) == artist \o <<"|">> \o title \o <<"|", word>>

Line(tags, word) ==
  IF tags.timed THEN Timed(tags.artist, tags.title, word)
  ELSE IF tags.artist = <<>> THEN tags.title
  ELSE Untimed(tags.artist, tags.title)

Barless(s) == \A i \in DOMAIN s : s[i] # "|"

(* The result of the parser for a line cut into these parts. *)
Meta(artist, title, duration) ==
  [artist   |-> IF artist = <<>> THEN Unknown ELSE artist,
   title    |-> IF title = <<>> THEN Unknown ELSE title,
   duration |-> duration]

(* The parser's view of a line with bars at the places first and last. *)
Cut(line, first, last) == Meta(SubSeq(line, 1, first - 1), SubSeq(line, first + 1, last - 1),
                               parse_duration(SubSeq(line, last + 1, Len(line))))

LEMMA FirstIsMin ==
  ASSUME NEW S, S \subseteq Nat, NEW m \in S, \A k \in S : m <= k
  PROVE  Min(S) = m
<1>1. \A k \in S : m =< k
  OBVIOUS
<1>2. Min(S) \in S /\ \A k \in S : Min(S) =< k
  BY <1>1 DEF Min
<1>3. PICK n : n = Min(S)
  OBVIOUS
<1>4. n \in Nat /\ m \in Nat /\ n <= m /\ m <= n
  BY <1>1, <1>2, <1>3
<1>5. QED
  BY <1>3, <1>4

LEMMA LastIsMax ==
  ASSUME NEW S, S \subseteq Nat, NEW m \in S, \A k \in S : k <= m
  PROVE  Max(S) = m
<1>1. \A k \in S : m >= k
  OBVIOUS
<1>2. Max(S) \in S /\ \A k \in S : Max(S) >= k
  BY <1>1 DEF Max
<1>3. PICK n : n = Max(S)
  OBVIOUS
<1>4. n \in Nat /\ m \in Nat /\ n <= m /\ m <= n
  BY <1>1, <1>2, <1>3
<1>5. QED
  BY <1>3, <1>4

(* A line with both bars: the first ends the artist, as that holds none,   *)
(* and the last begins the duration, as no number holds one; the bars      *)
(* within the title stay there.                                            *)
LEMMA TimedIsRead ==
  ASSUME NEW Words, NEW artist \in Seq(Words), NEW title \in Seq(Words), NEW word \in DOMAIN Stod,
         "|" \notin DOMAIN Stod, Barless(artist),
         NEW data, TrackLine(data) = Timed(artist, title, word)
  PROVE  parse_nowplaying(data) = Meta(artist, title, Stod[word])
<1> DEFINE T == Words \cup {"|", word}
           m == Len(artist)
           n == Len(title)
           bar == <<"|">>
           tail == <<"|", word>>
           known == <<word>>
<1>1. /\ artist \in Seq(T) /\ title \in Seq(T) /\ bar \in Seq(T) /\ tail \in Seq(T)
      /\ known \in Seq(T) /\ Len(known) = 1 /\ known[1] = word
      /\ m \in Nat /\ n \in Nat /\ Len(bar) = 1 /\ Len(tail) = 2
      /\ bar[1] = "|" /\ tail[1] = "|" /\ tail[2] = word /\ word # "|"
      /\ Len(artist) = m /\ Len(title) = n /\ DOMAIN artist = 1..m
  BY LenProperties, SeqMonotonic
<1>w. parse_duration(known) = Stod[word]
  BY DEF parse_duration
<1>b. \A i \in DOMAIN artist : artist[i] # "|"
  BY DEF Barless
<1>t. TrackLine(data) = ((artist \o bar) \o title) \o tail
  BY DEF Timed
<1> HIDE DEF T, m, n, bar, tail, known
<1>2. PICK a : a = artist \o bar
  OBVIOUS
<1>3. a \in Seq(T) /\ Len(a) = m + 1 /\ a[m + 1] = "|" /\ \A i \in 1..m : a[i] = artist[i]
  <2>1. /\ a \in Seq(T) /\ Len(a) = Len(artist) + Len(bar)
        /\ \A i \in 1..Len(artist) : a[i] = artist[i]
        /\ \A i \in 1..Len(bar) : a[Len(artist) + i] = bar[i]
    <3>1. artist \in Seq(T) /\ bar \in Seq(T)
      BY <1>1, Zenon
    <3>2. /\ artist \o bar \in Seq(T) /\ Len(artist \o bar) = Len(artist) + Len(bar)
          /\ \A i \in 1..Len(artist) : (artist \o bar)[i] = artist[i]
          /\ \A i \in 1..Len(bar) : (artist \o bar)[Len(artist) + i] = bar[i]
      BY <3>1, Parts
    <3>3. QED
      BY <1>2, <3>2, Zenon
  <2>2. 1 \in 1..Len(bar)
    BY <1>1
  <2>3. a[Len(artist) + 1] = bar[1]
    BY <2>1, <2>2
  <2>4. QED
    BY <1>1, <2>1, <2>3
<1>4. PICK b : b = a \o title
  OBVIOUS
<1>5. /\ b \in Seq(T) /\ Len(b) = m + 1 + n /\ b[m + 1] = "|"
      /\ \A i \in 1..m : b[i] = artist[i]
      /\ \A i \in 1..n : b[m + 1 + i] = title[i]
  <2>1. /\ b \in Seq(T) /\ Len(b) = Len(a) + Len(title)
        /\ \A i \in 1..Len(a) : b[i] = a[i]
        /\ \A i \in 1..Len(title) : b[Len(a) + i] = title[i]
    <3>1. a \in Seq(T) /\ title \in Seq(T)
      BY <1>1, <1>3, Zenon
    <3>2. /\ a \o title \in Seq(T) /\ Len(a \o title) = Len(a) + Len(title)
          /\ \A i \in 1..Len(a) : (a \o title)[i] = a[i]
          /\ \A i \in 1..Len(title) : (a \o title)[Len(a) + i] = title[i]
      BY <3>1, Parts
    <3>3. QED
      BY <1>4, <3>2, Zenon
  <2>2. QED
    BY <1>1, <1>3, <2>1
<1>6. PICK line : line = b \o tail
  OBVIOUS
<1>7. /\ line \in Seq(T) /\ Len(line) = m + n + 3
      /\ \A i \in 1..m : line[i] = artist[i]
      /\ line[m + 1] = "|"
      /\ \A i \in 1..n : line[m + 1 + i] = title[i]
      /\ line[m + n + 2] = "|" /\ line[m + n + 3] = word
  <2>1. /\ line \in Seq(T) /\ Len(line) = Len(b) + Len(tail)
        /\ \A i \in 1..Len(b) : line[i] = b[i]
        /\ \A i \in 1..Len(tail) : line[Len(b) + i] = tail[i]
    <3>1. b \in Seq(T) /\ tail \in Seq(T)
      BY <1>1, <1>5, Zenon
    <3>2. /\ b \o tail \in Seq(T) /\ Len(b \o tail) = Len(b) + Len(tail)
          /\ \A i \in 1..Len(b) : (b \o tail)[i] = b[i]
          /\ \A i \in 1..Len(tail) : (b \o tail)[Len(b) + i] = tail[i]
      BY <3>1, Parts
    <3>3. QED
      BY <1>6, <3>2, Zenon
  <2>2. \A i \in 1..m + 1 + n : line[i] = b[i]
    BY <1>5, <2>1
  <2>3. line[(m + 1 + n) + 1] = tail[1] /\ line[(m + 1 + n) + 2] = tail[2]
    BY <1>1, <1>5, <2>1
  <2>4. \A i \in 1..n : m + 1 + i \in 1..m + 1 + n
    BY <1>1
  <2>5. (m + 1 + n) + 1 = m + n + 2 /\ (m + 1 + n) + 2 = m + n + 3 /\ m + 1 \in 1..m + 1 + n
        /\ \A i \in 1..m : i \in 1..m + 1 + n
    BY <1>1
  <2>6. Len(line) = m + n + 3
    BY <1>1, <1>5, <2>1
  <2>7. \A i \in 1..n : line[m + 1 + i] = title[i]
    BY <1>5, <2>2, <2>4
  <2>8. line[m + n + 2] = "|" /\ line[m + n + 3] = word
    BY <1>1, <2>3, <2>5
  <2>9. QED
    BY <1>1, <1>5, <2>1, <2>2, <2>5, <2>6, <2>7, <2>8
<1>8. TrackLine(data) = line
  BY <1>2, <1>4, <1>6, <1>t
<1> DEFINE bars == {i \in DOMAIN line : line[i] = "|"}
<1>9. DOMAIN line = 1..m + n + 3
  BY <1>7, LenProperties
<1>10. m + 1 \in bars /\ m + n + 2 \in bars /\ bars \subseteq Nat
  BY <1>1, <1>7, <1>9
<1>11. ASSUME NEW k \in bars PROVE m + 1 <= k /\ k <= m + n + 2
  <2>1. k \in 1..m + n + 3 /\ line[k] = "|"
    BY <1>9
  <2>2. k # m + n + 3
    BY <1>1, <1>7, <2>1
  <2>3. k \notin 1..m
    BY <1>1, <1>7, <1>b, <2>1
  <2>4. m \in Nat /\ n \in Nat
    BY <1>1
  <2>5. QED
    BY <2>1, <2>2, <2>3, <2>4, Between, Zenon
<1>12. Min(bars) = m + 1 /\ Max(bars) = m + n + 2
  <2> HIDE DEF bars
  <2>1. Min(bars) = m + 1
    BY <1>10, <1>11, FirstIsMin
  <2>2. Max(bars) = m + n + 2
    BY <1>10, <1>11, LastIsMax
  <2>3. QED
    BY <2>1, <2>2
<1>13. bars # {} /\ bars # {m + 1}
  <2>1. m + 1 # m + n + 2
    BY <1>1
  <2>2. QED
    BY <1>10, <2>1
<1>14. parse_nowplaying(data) = Cut(line, m + 1, m + n + 2)
  BY <1>8, <1>12, <1>13 DEF parse_nowplaying, Cut, Meta
<1>15. SubSeq(line, 1, m) = artist
  <2>1. 0 + m <= Len(line) /\ \A i \in 1..m : line[0 + i] = artist[i]
    BY <1>1, <1>7
  <2>2. SubSeq(line, 0 + 1, 0 + m) = artist
    BY <1>1, <1>7, <2>1, PartIsCut
  <2>3. QED
    BY <1>1, <2>2
<1>16. SubSeq(line, m + 2, m + n + 1) = title
  <2>1. m + 1 \in Nat /\ (m + 1) + n <= Len(line) /\ \A i \in 1..n : line[(m + 1) + i] = title[i]
    BY <1>1, <1>7
  <2>2. SubSeq(line, (m + 1) + 1, (m + 1) + n) = title
    BY <1>1, <1>7, <2>1, PartIsCut
  <2>3. (m + 1) + 1 = m + 2 /\ (m + 1) + n = m + n + 1
    BY <1>1
  <2>4. QED
    BY <2>2, <2>3
<1>17. SubSeq(line, m + n + 3, Len(line)) = known
  <2>1. /\ m + n + 2 \in Nat /\ (m + n + 2) + 1 <= Len(line)
        /\ \A i \in 1..1 : line[(m + n + 2) + i] = known[i]
    BY <1>1, <1>7
  <2>2. SubSeq(line, (m + n + 2) + 1, (m + n + 2) + 1) = known
    BY <1>1, <1>7, <2>1, PartIsCut
  <2>3. (m + n + 2) + 1 = m + n + 3 /\ Len(line) = m + n + 3
    BY <1>1, <1>7
  <2>4. QED
    BY <2>2, <2>3
<1>18. /\ (m + 1) - 1 = m /\ (m + 1) + 1 = m + 2 /\ (m + n + 2) - 1 = m + n + 1
       /\ (m + n + 2) + 1 = m + n + 3
  BY <1>1
<1>19. /\ SubSeq(line, 1, (m + 1) - 1) = artist
       /\ SubSeq(line, (m + 1) + 1, (m + n + 2) - 1) = title
       /\ SubSeq(line, (m + n + 2) + 1, Len(line)) = known
  BY <1>15, <1>16, <1>17, <1>18
<1>20. Cut(line, m + 1, m + n + 2) = Meta(artist, title, parse_duration(known))
  BY <1>19, Zenon DEF Cut
<1>21. QED
  BY <1>14, <1>20, <1>w, Zenon

(* A line with one bar, and so without a duration. *)
LEMMA UntimedIsRead ==
  ASSUME NEW Words, NEW artist \in Seq(Words), NEW title \in Seq(Words),
         Barless(artist), Barless(title), NEW data, TrackLine(data) = Untimed(artist, title)
  PROVE  \E d : parse_nowplaying(data) = Meta(artist, title, d)
<1> DEFINE T == Words \cup {"|"}
           m == Len(artist)
           n == Len(title)
           bar == <<"|">>
<1>1. /\ artist \in Seq(T) /\ title \in Seq(T) /\ bar \in Seq(T)
      /\ m \in Nat /\ n \in Nat /\ Len(bar) = 1 /\ bar[1] = "|"
      /\ Len(artist) = m /\ Len(title) = n /\ DOMAIN artist = 1..m /\ DOMAIN title = 1..n
  BY LenProperties, SeqMonotonic
<1>b. /\ \A i \in DOMAIN artist : artist[i] # "|"
      /\ \A i \in DOMAIN title : title[i] # "|"
  BY DEF Barless
<1>t. TrackLine(data) = (artist \o bar) \o title
  BY DEF Untimed
<1> HIDE DEF T, m, n, bar
<1>2. PICK a : a = artist \o bar
  OBVIOUS
<1>3. a \in Seq(T) /\ Len(a) = m + 1 /\ a[m + 1] = "|" /\ \A i \in 1..m : a[i] = artist[i]
  <2>1. artist \in Seq(T) /\ bar \in Seq(T)
    BY <1>1, Zenon
  <2>2. /\ artist \o bar \in Seq(T) /\ Len(artist \o bar) = Len(artist) + Len(bar)
        /\ \A i \in 1..Len(artist) : (artist \o bar)[i] = artist[i]
        /\ \A i \in 1..Len(bar) : (artist \o bar)[Len(artist) + i] = bar[i]
    BY <2>1, Parts
  <2>3. /\ a \in Seq(T) /\ Len(a) = Len(artist) + Len(bar)
        /\ \A i \in 1..Len(artist) : a[i] = artist[i]
        /\ \A i \in 1..Len(bar) : a[Len(artist) + i] = bar[i]
    BY <1>2, <2>2, Zenon
  <2>4. 1 \in 1..Len(bar)
    BY <1>1
  <2>5. a[Len(artist) + 1] = bar[1]
    BY <2>3, <2>4
  <2>6. QED
    BY <1>1, <2>3, <2>5
<1>4. PICK line : line = a \o title
  OBVIOUS
<1>5. /\ line \in Seq(T) /\ Len(line) = m + 1 + n /\ line[m + 1] = "|"
      /\ \A i \in 1..m : line[i] = artist[i]
      /\ \A i \in 1..n : line[m + 1 + i] = title[i]
  <2>1. a \in Seq(T) /\ title \in Seq(T)
    BY <1>1, <1>3, Zenon
  <2>2. /\ a \o title \in Seq(T) /\ Len(a \o title) = Len(a) + Len(title)
        /\ \A i \in 1..Len(a) : (a \o title)[i] = a[i]
        /\ \A i \in 1..Len(title) : (a \o title)[Len(a) + i] = title[i]
    BY <2>1, Parts
  <2>3. /\ line \in Seq(T) /\ Len(line) = Len(a) + Len(title)
        /\ \A i \in 1..Len(a) : line[i] = a[i]
        /\ \A i \in 1..Len(title) : line[Len(a) + i] = title[i]
    BY <1>4, <2>2, Zenon
  <2>4. QED
    BY <1>1, <1>3, <2>3
<1>6. TrackLine(data) = line
  BY <1>2, <1>4, <1>t
<1> DEFINE bars == {i \in DOMAIN line : line[i] = "|"}
<1>7. DOMAIN line = 1..m + 1 + n
  BY <1>5, LenProperties
<1>8. m + 1 \in bars /\ m + 1 \in Nat
  BY <1>1, <1>5, <1>7
<1>9. ASSUME NEW k \in bars PROVE k = m + 1
  <2>1. k \in 1..m + 1 + n /\ line[k] = "|"
    BY <1>7
  <2>2. k \notin 1..m
    BY <1>1, <1>5, <1>b, <2>1
  <2>3. ~(k > m + 1)
    <3>1. SUFFICES ASSUME k > m + 1 PROVE FALSE
      OBVIOUS
    <3>2. m \in Nat /\ n \in Nat /\ DOMAIN title = 1..n
      BY <1>1
    <3>3. PICK j \in 1..n : k = m + 1 + j
      BY <2>1, <3>1, <3>2, Beyond, Zenon
    <3>4. line[m + 1 + j] = title[j]
      BY <1>5, Zenon
    <3>5. title[j] # "|"
      BY <1>b, <3>2, Zenon
    <3>6. QED
      BY <2>1, <3>3, <3>4, <3>5, Zenon
  <2>4. k \in Nat /\ k >= 1 /\ m \in Nat
    BY <1>1, <2>1
  <2>5. QED
    BY <2>2, <2>3, <2>4
<1>10. bars = {m + 1}
  BY <1>8, <1>9
<1>11. Min(bars) = m + 1
  <2> HIDE DEF bars
  <2>1. bars \subseteq Nat /\ m + 1 \in bars /\ \A k \in bars : m + 1 <= k
    BY <1>1, <1>10
  <2>2. QED
    BY <2>1, FirstIsMin
<1>12. parse_nowplaying(data) = Cut(line, m + 1, Len(line) + 1)
  BY <1>6, <1>10, <1>11 DEF parse_nowplaying, Cut, Meta
<1>13. SubSeq(line, 1, m) = artist
  <2>1. 0 + m <= Len(line) /\ \A i \in 1..m : line[0 + i] = artist[i]
    BY <1>1, <1>5
  <2>2. SubSeq(line, 0 + 1, 0 + m) = artist
    BY <1>1, <1>5, <2>1, PartIsCut
  <2>3. QED
    BY <1>1, <2>2
<1>14. SubSeq(line, m + 2, m + 1 + n) = title
  <2>1. m + 1 \in Nat /\ (m + 1) + n <= Len(line) /\ \A i \in 1..n : line[(m + 1) + i] = title[i]
    BY <1>1, <1>5
  <2>2. SubSeq(line, (m + 1) + 1, (m + 1) + n) = title
    BY <1>1, <1>5, <2>1, PartIsCut
  <2>3. (m + 1) + 1 = m + 2 /\ (m + 1) + n = m + 1 + n
    BY <1>1
  <2>4. QED
    BY <2>2, <2>3
<1>15. (m + 1) - 1 = m /\ (m + 1) + 1 = m + 2 /\ (Len(line) + 1) - 1 = m + 1 + n
  BY <1>1, <1>5
<1>16. SubSeq(line, 1, (m + 1) - 1) = artist /\ SubSeq(line, (m + 1) + 1, (Len(line) + 1) - 1) = title
  BY <1>13, <1>14, <1>15
<1>17. PICK d : d = parse_duration(SubSeq(line, (Len(line) + 1) + 1, Len(line)))
  OBVIOUS
<1>18. Cut(line, m + 1, Len(line) + 1) = Meta(artist, title, d)
  BY <1>16, <1>17, Zenon DEF Cut
<1>19. QED
  BY <1>12, <1>18, Zenon

(* A line without a bar is a title. *)
LEMMA TitleIsRead ==
  ASSUME NEW Words, NEW title \in Seq(Words), Barless(title),
         NEW data, TrackLine(data) = title
  PROVE  \E d : parse_nowplaying(data) = Meta(<<>>, title, d)
<1>1. PICK n : n = Len(title)
  OBVIOUS
<1>2. n \in Nat /\ Len(title) = n
  BY <1>1, LenProperties
<1>3. {i \in DOMAIN title : title[i] = "|"} = {}
  BY DEF Barless
<1>4. parse_nowplaying(data) = Cut(title, 0, Len(title) + 1)
  BY <1>3 DEF parse_nowplaying, Cut, Meta
<1>5. SubSeq(title, 1, 0 - 1) = <<>>
  OBVIOUS
<1>6. SubSeq(title, 0 + 1, (Len(title) + 1) - 1) = title
  <2>1. SubSeq(title, 0 + 1, 0 + Len(title)) = title
    BY <1>2, PartIsCut
  <2>2. (Len(title) + 1) - 1 = 0 + Len(title)
    BY <1>2
  <2>3. QED
    BY <2>1, <2>2
<1>7. PICK d : d = parse_duration(SubSeq(title, (Len(title) + 1) + 1, Len(title)))
  OBVIOUS
<1>8. Cut(title, 0, Len(title) + 1) = Meta(<<>>, title, d)
  BY <1>5, <1>6, <1>7, Zenon DEF Cut
<1>9. QED
  BY <1>4, <1>8, Zenon

(* What the parser makes of the reply to track t. *)
Read(t, meta) ==
  /\ meta.artist = IF Tags[t].artist = <<>> THEN Unknown ELSE Tags[t].artist
  /\ meta.title = IF Tags[t].title = <<>> THEN Unknown ELSE Tags[t].title
  /\ Tags[t].timed => meta.duration = Tags[t].duration

(* Reply[t] is what Liquidsoap writes for Tags[t]: its first line, without *)
(* its end, is that of the tags, and a duration is a word that is read as  *)
(* that number.                                                            *)
Written(t, Words) ==
  /\ Tags[t].artist \in Seq(Words) /\ Tags[t].title \in Seq(Words)
  /\ Tags[t].timed \in BOOLEAN
  /\ \E word : /\ TrackLine(Reply[t]) = Line(Tags[t], word)
               /\ Tags[t].timed => word \in DOMAIN Stod /\ Stod[word] = Tags[t].duration

LEMMA NoBars ==
  ASSUME NEW Words, NEW s \in Seq(Words), "|" \notin Range(s)
  PROVE  Barless(s)
BY DEF Range, Barless

LEMMA ReplyIsRead ==
  ASSUME NEW Words, NEW t, Written(t, Words), Unambiguous(t), "|" \notin DOMAIN Stod
  PROVE  Read(t, parse_nowplaying(Reply[t]))
<1>1. PICK artist, title, data : artist = Tags[t].artist /\ title = Tags[t].title /\ data = Reply[t]
  OBVIOUS
<1>2. artist \in Seq(Words) /\ title \in Seq(Words)
  BY <1>1 DEF Written
<1>3. Barless(artist)
  BY <1>1, <1>2, NoBars DEF Unambiguous
<1>4. PICK word : /\ TrackLine(data) = Line(Tags[t], word)
                  /\ Tags[t].timed => word \in DOMAIN Stod /\ Stod[word] = Tags[t].duration
  BY <1>1 DEF Written
<1>5. \E d : /\ parse_nowplaying(data) = Meta(artist, title, d)
             /\ Tags[t].timed => d = Tags[t].duration
  <2>1. CASE Tags[t].timed
    <3>1. TrackLine(data) = Timed(artist, title, word) /\ word \in DOMAIN Stod
      BY <1>1, <1>4, <2>1 DEF Line
    <3>2. parse_nowplaying(data) = Meta(artist, title, Stod[word])
      BY <1>2, <1>3, <3>1, TimedIsRead, Zenon
    <3>3. QED
      BY <1>4, <2>1, <3>2, Zenon
  <2>2. CASE ~Tags[t].timed
    <3>1. Barless(title)
      BY <1>1, <1>2, <2>2, NoBars DEF Unambiguous
    <3>2. CASE artist # <<>>
      <4>1. TrackLine(data) = Untimed(artist, title)
        BY <1>1, <1>4, <2>2, <3>2 DEF Line
      <4>2. \E d : parse_nowplaying(data) = Meta(artist, title, d)
        BY <1>2, <1>3, <3>1, <4>1, UntimedIsRead, Zenon
      <4>3. QED
        BY <2>2, <4>2, Zenon
    <3>3. CASE artist = <<>>
      <4>1. TrackLine(data) = title
        BY <1>1, <1>4, <2>2, <3>3 DEF Line
      <4>2. \E d : parse_nowplaying(data) = Meta(<<>>, title, d)
        BY <1>2, <3>1, <4>1, TitleIsRead, Zenon
      <4>3. QED
        BY <2>2, <3>3, <4>2, Zenon
    <3>4. QED
      BY <3>2, <3>3
  <2>3. QED
    BY <2>1, <2>2
<1>6. PICK d : /\ parse_nowplaying(data) = Meta(artist, title, d)
               /\ Tags[t].timed => d = Tags[t].duration
  BY <1>5
<1>7. PICK meta : meta = Meta(artist, title, d)
  OBVIOUS
<1>8. Read(t, meta)
  BY <1>1, <1>6, <1>7 DEF Read, Meta
<1>9. QED
  BY <1>1, <1>6, <1>7, <1>8, Zenon

(* What is shown of a track is what the parser made of its reply, however  *)
(* long ago and by whatever process it was taken over.                     *)
Parsed == state.track # NoTrack =>
            /\ info.artist = parse_nowplaying(Reply[state.track]).artist
            /\ info.title = parse_nowplaying(Reply[state.track]).title
            /\ info.duration = parse_nowplaying(Reply[state.track]).duration

(* Of every track that Liquidsoap writes with its tags in their places, the *)
(* artist, the title and the duration shown are those of the tags, also    *)
(* when the title holds bars.                                              *)
THEOREM TracksAreShown ==
  ASSUME NEW Words, \A t \in Tracks : Written(t, Words), "|" \notin DOMAIN Stod
  PROVE  InfoFairSpec => []ShowsTags
<1>1. InfoInit => Parsed
  BY DEF InfoInit, Init, Fresh, Parsed
<1>2. Parsed /\ [InfoNext]_<<vars, info>> => Parsed'
  <2> SUFFICES ASSUME Parsed, [InfoNext]_<<vars, info>>, state'.track # NoTrack
               PROVE  Parsed'
    BY DEF Parsed
  <2>1. CASE UNCHANGED <<vars, info>>
    BY <2>1 DEF vars, Parsed
  <2>2. CASE InfoNext /\ state'.track = state.track
    <3>1. info' = info
      BY <2>2 DEF InfoNext, TakeOver
    <3>2. QED
      BY <2>2, <3>1 DEF Parsed
  <2>3. CASE InfoNext /\ state'.track # state.track
    <3> DEFINE meta == parse_nowplaying(Reply[state'.track])
    <3>1. \E now \in Clock : \E end \in EndTimes(now, meta.duration) :
            info' = Enriched(meta, now, end)
      BY <2>3 DEF InfoNext, TakeOver
    <3> HIDE DEF meta
    <3>2. /\ info'.artist = meta.artist /\ info'.title = meta.title
          /\ info'.duration = meta.duration
      BY <3>1 DEF Enriched
    <3> USE DEF meta
    <3>3. QED
      BY <3>2 DEF Parsed
  <2>4. QED
    BY <2>1, <2>2, <2>3
<1>3. TypeOK /\ Parsed => ShowsTags
  <2> SUFFICES ASSUME TypeOK, Parsed, state.track # NoTrack, Unambiguous(state.track)
               PROVE  Read(state.track, info)
    BY DEF ShowsTags, Read
  <2>1. state.track \in Tracks
    BY DEF TypeOK, Snapshot
  <2>2. Read(state.track, parse_nowplaying(Reply[state.track]))
    BY <2>1, ReplyIsRead
  <2>3. QED
    BY <2>2 DEF Read, Parsed
<1>4. InfoInit => Init
  BY DEF InfoInit
<1>5. [InfoNext]_<<vars, info>> => [Next]_vars
  BY DEF InfoNext
<1>6. InfoFairSpec => []TypeOK
  BY <1>4, <1>5, TypeCorrect, PTL DEF InfoFairSpec, Spec
<1>7. QED
  BY <1>1, <1>2, <1>3, <1>6, PTL DEF InfoFairSpec
=============================================================================
