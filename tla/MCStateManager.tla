--------------------------- MODULE MCStateManager ---------------------------
(* Tracks for the model checker: two that share a title, one whose title   *)
(* holds a bar and whose duration is not whole seconds, one with nothing   *)
(* but a title, one whose artist is not valid UTF-8, one whose duration    *)
(* the clock cannot hold and one whose bar the parser misreads.            *)
EXTENDS TrackInfo

Tag(artist, title, timed, duration) ==
  [artist |-> artist, title |-> title, timed |-> timed, duration |-> duration]

MCTags == [song   |-> Tag(<<"A">>, <<"S">>, TRUE, 2),
           remake |-> Tag(<<"B">>, <<"S">>, TRUE, 5),
           jingle |-> Tag(<<>>, <<"J">>, FALSE, 0),
           barred |-> Tag(<<"A">>, <<"x", "|", "y">>, TRUE, 5),
           latin1 |-> Tag(<<"bad">>, <<"L">>, FALSE, 0),
           drone  |-> Tag(<<"A">>, <<"D">>, TRUE, 99),
           misread |-> Tag(<<"A">>, <<"M", "|", "N">>, FALSE, 0)]

MCTracks == DOMAIN MCTags

MCStod == ("1" :> 2) @@ ("2.5" :> 5) @@ ("1e300" :> 99)

Line(t) == LET tag == MCTags[t]
               word == CHOOSE w \in DOMAIN MCStod : MCStod[w] = tag.duration
           IN  (IF tag.artist = <<>> THEN <<>> ELSE tag.artist \o <<"|">>) \o tag.title
                 \o (IF tag.timed THEN <<"|", word>> ELSE <<>>)

(* A function in full, which the model checker evaluates once. *)
ForTracks(F(_)) == FoldSet(LAMBDA t, f : (t :> F(t)) @@ f, <<>>, MCTracks)

(* The response of the driver: its lines with their ends, and END. *)
MCReply == ForTracks(LAMBDA t : (IF t = "jingle" THEN <<<<"CR">>>> ELSE <<>>)
                                  \o <<Append(Line(t), "CR"), <<"END", "CR">>, <<>>>>)

MCParsed == ForTracks(LAMBDA t : parse_nowplaying(MCReply[t]))
MCTitle  == ForTracks(LAMBDA t : MCParsed[t].title)
MCUtf8   == {t \in MCTracks : "bad" \notin Range(MCParsed[t].artist \o MCParsed[t].title)}
=============================================================================
