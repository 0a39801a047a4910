---------------------------- MODULE StateManager ----------------------------
(***************************************************************************)
(* The core (src/src/core/state_manager.cpp): it mirrors what Liquidsoap   *)
(* is doing and publishes a snapshot whenever the mirror changes.  poll()  *)
(* is two requests to Liquidsoap, one for the status and one for the       *)
(* track, so the stream can change, and Liquidsoap can go away, between    *)
(* them.  Publishing serialises the state to JSON, which throws when a     *)
(* text is not valid UTF-8; nothing between there and the event loop       *)
(* catches the exception, so the process ends, and systemd starts another  *)
(* one, whose mirror is empty while the last snapshot published remains.   *)
(*                                                                         *)
(* A track stands for all the fields of TrackInfo, start and end times     *)
(* included.  Of the driver (see LiquidsoapDriver) the module keeps what   *)
(* an execute() can come to: an answer, an error, or no return at all.  A  *)
(* connection that Liquidsoap has closed costs one error, after which the  *)
(* driver connects again.                                                  *)
(***************************************************************************)
EXTENDS Naturals

CONSTANTS
  Modes,     \* what may become of Liquidsoap: "up", "down", or "hung" when it
             \* keeps connections and answers nothing
  Tracks,    \* what it may put on air
  Title,     \* Title[t]: the title of track t; different tracks may share it
  Utf8,      \* the tracks whose texts are valid UTF-8
  NoTrack    \* the empty TrackInfo of a new GlobalState

ASSUME ModesAssumption == Modes \subseteq {"up", "down", "hung"}

ASSUME TracksAssumption == /\ NoTrack \notin Tracks
                           /\ Utf8 \subseteq Tracks

VARIABLES
  stream,    \* Liquidsoap: its mode, whether it is playing, and its track
  stale,     \* Liquidsoap has closed the driver's connection
  state,     \* state_: the status and the track
  bus,       \* the last snapshot handed to publish(); Fresh while there is none
  pc,        \* "loop": waiting; "metadata": within poll(); without a process
             \* "dead" (an exception ended it) or "killed" (something else did)
  calm       \* history: nothing has changed since the last poll() began

mirror == <<state, bus>>
vars   == <<stream, stale, state, bus, pc, calm>>

-----------------------------------------------------------------------------
(* Helpers *)

Fresh    == [status |-> "stopped", track |-> NoTrack]
Snapshot == [status : {"playing", "stopped", "error"}, track : Tracks \cup {NoTrack}]

Streams == [mode : Modes, playing : BOOLEAN, track : Tracks]

(* execute() returns at all; and it returns an answer. *)
Returns == stream.mode # "hung"
Answers == stream.mode = "up" /\ ~stale

(* Mutant: Liquidsoap's own word is taken over. *)
ReportedStatusRaw == IF ~Answers THEN "error" ELSE IF stream.playing THEN "on" ELSE "off"

(* What execute(status) amounts to, once is_playing_response has read it. *)
ReportedStatus == IF ~Answers THEN "error"
                  ELSE IF stream.playing THEN "playing" ELSE "stopped"

(* A track is only noticed by its title. *)
NewTitle(t) == state.track = NoTrack \/ Title[state.track] # Title[t]

Alive == pc \in {"loop", "metadata"}

(* nlohmann::json::dump() does not throw. *)
Dumpable(snapshot) == snapshot.track \in Utf8 \cup {NoTrack}

(* Mutant: the snapshot is taken before the state is changed. *)
SetStateLate(s, next) == state' = s /\ bus' = state /\ pc' = next

(* state_ becomes s and is broadcast, or the process ends trying. *)
SetState(s, next) == IF Dumpable(s)
                     THEN state' = s /\ bus' = s /\ pc' = next
                     ELSE state' = Fresh /\ bus' = bus /\ pc' = "dead"

-----------------------------------------------------------------------------
Init == /\ stream \in [mode : Modes \ {"hung"}, playing : BOOLEAN, track : Tracks]
        /\ stale = FALSE
        /\ state = Fresh
        /\ bus = Fresh
        /\ pc = "loop"
        /\ calm = FALSE

(* Mutant: an error of the status request leaves the status as it was. *)
UpdateStatusIgnoresError ==
  /\ pc = "loop"
  /\ Returns
  /\ IF ReportedStatus \notin {state.status, "error"}
     THEN SetState([state EXCEPT !.status = ReportedStatus], "metadata")
     ELSE pc' = "metadata" /\ UNCHANGED mirror
  /\ stale' = FALSE
  /\ calm' = ~stale
  /\ UNCHANGED stream

(* poll(), first half: update_status(). *)
UpdateStatus ==
  /\ pc = "loop"
  /\ Returns
  /\ IF ReportedStatus # state.status
     THEN SetState([state EXCEPT !.status = ReportedStatus], "metadata")
     ELSE pc' = "metadata" /\ UNCHANGED mirror
  /\ stale' = FALSE
  /\ calm' = ~stale
  /\ UNCHANGED stream

(* Mutant: the first track is never replaced. *)
UpdateMetadataOnce ==
  /\ pc = "metadata"
  /\ Returns
  /\ IF Answers /\ state.track = NoTrack
     THEN SetState([state EXCEPT !.track = stream.track], "loop")
     ELSE pc' = "loop" /\ UNCHANGED mirror
  /\ stale' = FALSE
  /\ UNCHANGED <<stream, calm>>

(* Mutant: an exception from the broadcast is caught, the track is kept. *)
UpdateMetadataSwallows ==
  /\ pc = "metadata"
  /\ Returns
  /\ IF Answers /\ NewTitle(stream.track)
     THEN /\ state' = [state EXCEPT !.track = stream.track]
          /\ bus' = IF Dumpable(state') THEN state' ELSE bus
     ELSE UNCHANGED mirror
  /\ pc' = "loop"
  /\ stale' = FALSE
  /\ UNCHANGED <<stream, calm>>

(* poll(), second half: update_metadata(). *)
UpdateMetadata ==
  /\ pc = "metadata"
  /\ Returns
  /\ IF Answers /\ NewTitle(stream.track)
     THEN SetState([state EXCEPT !.track = stream.track], "loop")
     ELSE pc' = "loop" /\ UNCHANGED mirror
  /\ stale' = FALSE
  /\ UNCHANGED <<stream, calm>>

(* handle_dj_command() with the status_request intent; the consumer's      *)
(* callback catches what it throws.                                        *)
StatusRequest ==
  /\ pc = "loop"
  /\ bus' = IF Dumpable(state) THEN state ELSE bus
  /\ UNCHANGED <<stream, stale, state, pc, calm>>

(* handle_dj_command() with the other intents asks Liquidsoap something,   *)
(* or nothing when the command is invalid, and leaves the state alone.     *)
DjCommand ==
  /\ pc = "loop"
  /\ Returns
  /\ stale' = FALSE
  /\ UNCHANGED <<stream, mirror, pc, calm>>

-----------------------------------------------------------------------------
(* Liquidsoap, and the process's supervisor. *)

(* A Liquidsoap that goes down closes its connections. *)
StreamChanges ==
  /\ stream' \in Streams \ {stream}
  /\ stale' = (stale \/ stream'.mode = "down")
  /\ calm' = FALSE
  /\ UNCHANGED <<mirror, pc>>

ConnectionCloses ==
  /\ Alive
  /\ stale' = TRUE
  /\ calm' = FALSE
  /\ UNCHANGED <<stream, mirror, pc>>

Killed ==
  /\ Alive
  /\ pc' = "killed"
  /\ state' = Fresh
  /\ UNCHANGED <<stream, stale, bus, calm>>

Restart ==
  /\ ~Alive
  /\ state' = Fresh
  /\ pc' = "loop"
  /\ stale' = FALSE
  /\ calm' = FALSE
  /\ UNCHANGED <<stream, bus>>

Poll == UpdateStatus \/ UpdateMetadata

Next == \/ Poll
        \/ StatusRequest
        \/ DjCommand
        \/ StreamChanges
        \/ ConnectionCloses
        \/ Killed
        \/ Restart

Spec == Init /\ [][Next]_vars

(* The poll timer repeats for as long as the event loop runs, and systemd  *)
(* starts the service again (Restart=on-failure).                          *)
FairSpec == Spec /\ WF_vars(Poll) /\ WF_vars(Restart)

-----------------------------------------------------------------------------
(* Properties *)

(* Every variable keeps its type. *)
TypeOK == /\ stream \in Streams
          /\ stale \in BOOLEAN
          /\ state \in Snapshot
          /\ bus \in Snapshot
          /\ pc \in {"loop", "metadata", "dead", "killed"}
          /\ calm \in BOOLEAN

(* Subscribers have what the gateway believes: once the state differs from *)
(* that of a new process, the last snapshot published is the state, also   *)
(* half way through a poll.                                                *)
BusMirrorsState == Alive /\ state # Fresh => bus = state

(* A poll during which nothing changed, on a connection that was sound,    *)
(* catches up with Liquidsoap: the last snapshot published shows its       *)
(* status, and its title unless it could not be reached, whatever happened *)
(* before, restarts of either side and interrupted polls included.         *)
PollCatchesUp ==
  pc = "loop" /\ calm =>
    /\ bus.status = ReportedStatus
    /\ stream.mode = "up" => /\ bus.track \in Tracks
                             /\ Title[bus.track] = Title[stream.track]

(* A process never holds a state that it could not publish, also after the *)
(* stream, itself or a poll has failed: a status_request does not throw,   *)
(* so its delivery is never rejected to come back for ever.                *)
StatePublishable == Dumpable(state)

(* Only the metadata half of a poll ends the process by an exception, and  *)
(* only on a track whose texts are not valid UTF-8; a change of the status *)
(* alone never does.                                                       *)
OnlyBadTextKills ==
  [][pc # "dead" /\ pc' = "dead" => pc = "metadata" /\ stream.track \notin Utf8]_vars

(* When Liquidsoap stays up with one track whose texts are valid UTF-8 and *)
(* keeps the connection, and nobody kills the process any more, the title  *)
(* published is that track's from some time on.                            *)
TitleConverges ==
  \A t \in Utf8 :
    <>[](stream.mode = "up" /\ stream.track = t /\ ~stale /\ pc # "killed")
      => <>[](bus.track \in Tracks /\ Title[bus.track] = Title[t])

(* README.md: start and end times and the duration are calculated for      *)
(* every track, so a track that stays on air is the one published.         *)
EveryTrackPublished ==
  \A t \in Utf8 :
    <>[](stream.mode = "up" /\ stream.track = t /\ ~stale /\ pc # "killed") => <>[](bus.track = t)
=============================================================================
