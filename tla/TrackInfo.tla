------------------------------ MODULE TrackInfo ------------------------------
(***************************************************************************)
(* StateManager with the texts and times its tracks stand for: the reply   *)
(* that get_metadata() receives and parses (NowPlaying), and what          *)
(* update_metadata() makes of it, start and end time included.             *)
(*                                                                         *)
(* Times are ticks of the system clock, which may be set at any moment:    *)
(* each reading is any of Clock.  TrackInfo shows them in whole seconds.   *)
(***************************************************************************)
EXTENDS StateManager, NowPlaying

CONSTANTS
  Reply,            \* Reply[t]: Liquidsoap's reply while t is on air
  Tags,             \* Tags[t]: the artist, title and duration it was written from
  Clock,            \* readings of the clock
  TicksPerSecond,
  MaxDuration       \* the longest duration whose milliseconds, added to a reading,
                    \* stay within the clock's range

ASSUME ClockAssumption ==
  /\ Clock \subseteq Nat /\ TicksPerSecond \in Nat \ {0} /\ MaxDuration \in Nat
  /\ Stod \in [DOMAIN Stod -> Nat]

VARIABLE info       \* state_.track in full

-----------------------------------------------------------------------------
Blank == [artist |-> <<>>, title |-> <<>>, duration |-> 0, start_time |-> 0, end_time |-> 0]

Seconds(time) == time \div TicksPerSecond

(* Mutant: the seconds of the duration are taken for ticks. *)
EndTimesUnscaled(now, duration) == {Seconds(now + Seconds(duration))}

(* llround() of a larger duration, and the sum with the clock's nanoseconds, *)
(* have no defined value.                                                  *)
EndTimes(now, duration) == IF duration <= MaxDuration
                           THEN {Seconds(now + duration)}
                           ELSE {Seconds(t) : t \in Clock}

(* The fields from "New track detected" on. *)
Enriched(meta, now, end) ==
  [artist |-> meta.artist, title |-> meta.title, duration |-> meta.duration,
   start_time |-> Seconds(now), end_time |-> end]

InfoInit == Init /\ info = Blank

(* The fields of the track that a step of the core takes over. *)
TakeOver ==
  CASE state'.track = NoTrack -> info' = Blank
    [] state'.track = state.track -> UNCHANGED info
    [] OTHER -> LET meta == parse_nowplaying(Reply[state'.track])
                IN  \E now \in Clock : \E end \in EndTimes(now, meta.duration) :
                      info' = Enriched(meta, now, end)

InfoNext == Next /\ TakeOver

InfoFairSpec == /\ InfoInit
                /\ [][InfoNext]_<<vars, info>>
                /\ WF_vars(Poll) /\ WF_vars(Restart)

-----------------------------------------------------------------------------
(* Properties *)

(* A reply is ambiguous to the parser when it has a bar in its title and   *)
(* no duration, or in its artist.                                          *)
Unambiguous(t) == /\ "|" \notin Range(Tags[t].artist)
                  /\ "|" \in Range(Tags[t].title) => Tags[t].timed

(* The track shown is the one Liquidsoap wrote, whatever line ends, bars   *)
(* and missing fields its reply has, and however it came to be shown; what *)
(* Liquidsoap leaves out is Unknown.                                       *)
ShowsTags ==
  state.track # NoTrack /\ Unambiguous(state.track) =>
    LET tags == Tags[state.track]
    IN  /\ info.artist = IF tags.artist = <<>> THEN Unknown ELSE tags.artist
        /\ info.title = IF tags.title = <<>> THEN Unknown ELSE tags.title
        /\ tags.timed => info.duration = tags.duration

(* The end shown is at most a second off the start plus the duration, for  *)
(* durations the clock can hold, although each is cut to whole seconds.    *)
EndsOnTime ==
  state.track # NoTrack /\ info.duration <= MaxDuration =>
    /\ info.start_time * TicksPerSecond + info.duration < (info.end_time + 1) * TicksPerSecond
    /\ info.end_time * TicksPerSecond < (info.start_time + 1) * TicksPerSecond + info.duration
=============================================================================
