------------------------------ MODULE NowPlaying ------------------------------
(***************************************************************************)
(* The parser of Liquidsoap's "now playing" reply                          *)
(* (src/include/smoothoperator/nowplaying_parser.hpp).  A reply is a       *)
(* sequence of lines, a line a sequence of tokens: "|", "CR" (a carriage   *)
(* return), or a word without either.                                      *)
(***************************************************************************)
EXTENDS Naturals, Sequences, SequencesExt, FiniteSetsExt

CONSTANT Stod   \* Stod[w]: the value of a word that std::stod() takes as a
                \* whole for a finite number that is not negative

Unknown == <<"Unknown">>

-----------------------------------------------------------------------------
(* An empty text, or one that is not such a number, counts as 0. *)
parse_duration(text) ==
  IF \E w \in DOMAIN Stod : text = <<w>> THEN Stod[Head(text)] ELSE 0

Stripped(line) == IF line # <<>> /\ Last(line) = "CR" THEN Front(line) ELSE line

(* The first line that is not empty, unless END comes first. *)
TrackLine(data) ==
  LET lines == SelectSeq([i \in DOMAIN data |-> Stripped(data[i])], LAMBDA l : l # <<>>)
  IN  IF lines = <<>> \/ Head(lines) = <<"END">> THEN <<>> ELSE Head(lines)

(* Mutant: a title ends at its first bar. *)
parse_nowplaying_firstbar(data) ==
  LET line   == TrackLine(data)
      bars   == {i \in DOMAIN line : line[i] = "|"}
      first  == IF bars = {} THEN 0 ELSE Min(bars)
      second == Min((bars \cup {Len(line) + 1}) \ {first})
      artist == SubSeq(line, 1, first - 1)
      title  == SubSeq(line, first + 1, second - 1)
  IN  [artist   |-> IF artist = <<>> THEN Unknown ELSE artist,
       title    |-> IF title = <<>> THEN Unknown ELSE title,
       duration |-> parse_duration(SubSeq(line, second + 1, Len(line)))]

(* The first bar ends the artist; with another, the last one begins the    *)
(* duration; without any, the line is the title.                           *)
parse_nowplaying(data) ==
  LET line   == TrackLine(data)
      bars   == {i \in DOMAIN line : line[i] = "|"}
      first  == IF bars = {} THEN 0 ELSE Min(bars)
      last   == IF bars = {first} \/ bars = {} THEN Len(line) + 1 ELSE Max(bars)
      artist == SubSeq(line, 1, first - 1)
      title  == SubSeq(line, first + 1, last - 1)
  IN  [artist   |-> IF artist = <<>> THEN Unknown ELSE artist,
       title    |-> IF title = <<>> THEN Unknown ELSE title,
       duration |-> parse_duration(SubSeq(line, last + 1, Len(line)))]
=============================================================================
