------------------------------- MODULE Startup -------------------------------
(***************************************************************************)
(* What main() does before its event loop: the command line, the .env      *)
(* file, the JSON configuration (src/src/config/config_parser.cpp), and    *)
(* the login and address it hands to the AMQP connection.  The inputs are  *)
(* read one argument, one line, one document at a time; any of them may    *)
(* end the process.                                                        *)
(*                                                                         *)
(* Texts are sequences of tokens.  Of the configuration the module keeps   *)
(* the parts with a rule of their own: the sources of the password, the    *)
(* numbers, which are cut to their C++ types, the two protocols, and       *)
(* whether each required field is there and has its type.                  *)
(***************************************************************************)
EXTENDS Address

CONSTANTS
  Arguments,     \* what argv may hold: options and paths
  MaxArguments,  \* how many arguments, a bound
  EnvLines,      \* the lines an .env file may have
  MaxLines,      \* how many lines, a bound
  Documents,     \* what the JSON file may hold, see Document
  Inherited,     \* the values RABBITMQ_PASS may have before the start; Unset for none
  Unset,
  IntervalRange, \* 2^32
  DefaultInterval  \* what AppConfig has before load(), in a header that is not in src/

ASSUME BoundsAssumption == MaxArguments \in Nat /\ MaxLines \in Nat

ASSUME NumbersAssumption ==
  /\ PortRange \in Nat \ {0} /\ IntervalRange \in Nat \ {0}
  /\ \A d \in Documents : d.port \in Int /\ d.interval \in Int \cup {Unset}
  /\ DefaultInterval \in 0..IntervalRange - 1

DefaultPath == "smoothoperator.json"
Blanks      == {" ", "TAB"}
Quotes      == {"'", "''"}

VARIABLES
  pc,        \* "args", "env", "json", "connect", "loop", or "exit0", "exit1"
             \* (an exit status), "crash" (undefined behaviour)
  argc,      \* arguments read so far
  awaiting,  \* the argument before was -c
  config_path, debug_mode,
  line_num,  \* lines read so far
  pass,      \* the environment's RABBITMQ_PASS
  config,    \* the AppConfig
  address,   \* what AMQP::TcpConnection is given
  document,  \* history: the JSON document read
  paths,     \* history: whether there was a -c, and the paths from the last -c on
  inherited, \* history: RABBITMQ_PASS before the start
  lines      \* history: the lines of .env read

texts == <<inherited, lines>>
vars  == <<pc, argc, awaiting, config_path, debug_mode, line_num, pass, config, address,
           document, paths, texts>>

None      == [none |-> TRUE]
Undefined == <<"undefined">>

-----------------------------------------------------------------------------
(* Helpers *)

(* Mutant: what is behind the text stays. *)
TrimInFront(text) ==
  LET kept == {k \in DOMAIN text : text[k] \notin Blanks}
  IN  IF kept = {} THEN <<>> ELSE SubSeq(text, Min(kept), Len(text))

Trim(text) ==
  LET kept == {k \in DOMAIN text : text[k] \notin Blanks}
  IN  IF kept = {} THEN <<>> ELSE SubSeq(text, Min(kept), Max(kept))

(* The value with the quotes around it removed; front() and back() of an   *)
(* empty one are undefined: the comparison fails, or a checked build ends. *)
Unquoted(value) ==
  IF value = <<>> THEN {<<>>, Undefined}
  ELSE IF Head(value) = Last(value) /\ Head(value) \in Quotes
       THEN {SubSeq(value, 2, Len(value) - 1)} ELSE {value}

(* JSON password > JSON pass > RABBITMQ_PASS; null counts as absent. *)
Password(json) == IF json.password # Unset THEN json.password
                  ELSE IF json.pass # Unset THEN json.pass ELSE pass

(* An interval that is absent or null leaves the one AppConfig has. *)
Interval(json) ==
  IF json.interval = Unset THEN DefaultInterval ELSE json.interval % IntervalRange

-----------------------------------------------------------------------------
Init == /\ pc = "args"
        /\ argc = 0
        /\ awaiting = FALSE
        /\ config_path = DefaultPath
        /\ debug_mode = FALSE
        /\ line_num = 0
        /\ pass \in Inherited
        /\ config = None
        /\ address = None
        /\ document = None
        /\ paths = [option |-> FALSE, since |-> <<>>]
        /\ inherited = pass
        /\ lines = <<>>

(* Mutant: the first argument that is no option always is the path. *)
PlainArgumentWins(arg) ==
  /\ config_path' = arg
  /\ paths' = [paths EXCEPT !.since = Append(@, arg)]
  /\ UNCHANGED <<pc, awaiting, debug_mode>>

(* An argument that is no option: the path, unless there is one already. *)
PlainArgument(arg) ==
  /\ config_path' = IF config_path = DefaultPath THEN arg ELSE config_path
  /\ paths' = [paths EXCEPT !.since = Append(@, arg)]
  /\ UNCHANGED <<pc, awaiting, debug_mode>>

(* One turn of the loop over argv. *)
ParseArgument ==
  /\ pc = "args"
  /\ argc < MaxArguments
  /\ argc' = argc + 1
  /\ \E arg \in Arguments :
       \/ /\ awaiting
          /\ awaiting' = FALSE
          /\ config_path' = arg
          /\ paths' = [option |-> TRUE, since |-> <<arg>>]
          /\ UNCHANGED <<pc, debug_mode>>
       \/ /\ ~awaiting /\ arg \in {"-h", "-v"}
          /\ pc' = "exit0"
          /\ UNCHANGED <<awaiting, config_path, debug_mode, paths>>
       \/ /\ ~awaiting /\ arg = "-d"
          /\ debug_mode' = TRUE
          /\ UNCHANGED <<pc, awaiting, config_path, paths>>
       \/ /\ ~awaiting /\ arg = "-c"
          /\ awaiting' = TRUE
          /\ UNCHANGED <<pc, config_path, debug_mode, paths>>
       \/ /\ ~awaiting /\ arg = "-?"
          /\ pc' = "exit1"
          /\ UNCHANGED <<awaiting, config_path, debug_mode, paths>>
       \/ /\ ~awaiting /\ arg \notin {"-h", "-v", "-d", "-c", "-?"}
          /\ PlainArgument(arg)
  /\ UNCHANGED <<line_num, pass, config, address, document, texts>>

(* The loop over argv ends; a -c without its path is an error. *)
ParsedArguments ==
  /\ pc = "args"
  /\ IF awaiting THEN pc' = "exit1" ELSE pc' = "env"
  /\ UNCHANGED <<argc, awaiting, config_path, debug_mode, line_num, pass, config, address,
                 document, paths, texts>>

(* One line of the .env file: a comment or an empty line, one without "=", *)
(* or an assignment.                                                       *)
LoadEnvLine ==
  /\ pc = "env"
  /\ line_num < MaxLines
  /\ line_num' = line_num + 1
  /\ \E line \in EnvLines :
       LET equals  == Find(line, "=", 1)
           ignored == IF line = <<>> THEN TRUE ELSE Head(line) = "#"
           ours    == Trim(Before(line, equals)) = <<"RABBITMQ_PASS">>
       IN  /\ lines' = Append(lines, line)
           /\ \/ /\ ignored
                 /\ UNCHANGED <<pc, pass>>
              \/ /\ ~ignored /\ equals = 0
                 /\ pc' = "exit1"
                 /\ UNCHANGED pass
              \/ /\ ~ignored /\ equals # 0
                 /\ \E value \in Unquoted(Trim(After(line, equals))) :
                      /\ pc' = IF value = Undefined THEN "crash" ELSE pc
                      /\ pass' = IF ours /\ value # Undefined THEN value ELSE pass
  /\ UNCHANGED <<argc, awaiting, config_path, debug_mode, config, address, document, paths,
                 inherited>>

(* The file has ended, or there is none, which is only a warning. *)
LoadedEnv ==
  /\ pc = "env"
  /\ pc' = "json"
  /\ UNCHANGED <<argc, awaiting, config_path, debug_mode, line_num, pass, config, address,
                 document, paths, texts>>

(* Mutant: the interval is checked as it stands in the file. *)
CompleteEarlyCheck(json) ==
  /\ json.readable /\ json.rabbitmq /\ json.liquidsoap
  /\ Password(json) # Unset
  /\ json.protocol \in {"socket", "telnet"}
  /\ json.interval # Unset => json.interval >= 100

(* The document is read, has all that is required, and none of the         *)
(* conversions throws.                                                     *)
Complete(json) ==
  /\ json.readable /\ json.rabbitmq /\ json.liquidsoap
  /\ Password(json) # Unset
  /\ json.protocol \in {"socket", "telnet"}
  /\ json.interval # Unset => Interval(json) >= 100

(* Mutant: the numbers keep the width they have in the file. *)
AppConfigUncut(json) ==
  [host |-> json.host, port |-> json.port, user |-> json.user, password |-> Password(json),
   vhost |-> json.vhost, protocol |-> json.protocol, polling_interval_ms |-> Interval(json)]

(* What the document comes to; get<uint16_t>() and get<uint32_t>() wrap. *)
AppConfig(json) ==
  [host |-> json.host, port |-> json.port % PortRange, user |-> json.user,
   password |-> Password(json), vhost |-> json.vhost, protocol |-> json.protocol,
   polling_interval_ms |-> Interval(json)]

(* ConfigParser::load() from the file's opening on. *)
LoadJson ==
  /\ pc = "json"
  /\ \E json \in Documents :
       /\ document' = json
       /\ IF Complete(json)
          THEN /\ config' = AppConfig(json)
               /\ pc' = "connect"
          ELSE pc' = "exit1" /\ UNCHANGED config
  /\ UNCHANGED <<argc, awaiting, config_path, debug_mode, line_num, pass, address, paths, texts>>

(* The drivers, the handler, the address and the connection are made. *)
Wire ==
  /\ pc = "connect"
  /\ pc' = "loop"
  /\ address' = Address(config.host, config.port, Login(config.user, config.password), config.vhost)
  /\ UNCHANGED <<argc, awaiting, config_path, debug_mode, line_num, pass, config, document, paths,
                 texts>>

Next == \/ ParseArgument \/ ParsedArguments
        \/ LoadEnvLine \/ LoadedEnv
        \/ LoadJson
        \/ Wire

Spec == Init /\ [][Next]_vars

-----------------------------------------------------------------------------
(* Properties *)

Texts == (UNION {{d.user, d.vhost, d.password, d.pass} : d \in Documents}) \cup Inherited
           \cup (UNION {Unquoted(Trim(After(l, Find(l, "=", 1)))) : l \in EnvLines})

(* Every variable keeps its type; the numbers are those of their C++ types. *)
TypeOK ==
  /\ pc \in {"args", "env", "json", "connect", "loop", "exit0", "exit1", "crash"}
  /\ argc \in 0..MaxArguments /\ line_num \in 0..MaxLines
  /\ awaiting \in BOOLEAN /\ debug_mode \in BOOLEAN
  /\ config_path \in Arguments \cup {DefaultPath}
  /\ pass \in Texts
  /\ config # None => /\ config.port \in 0..PortRange - 1
                      /\ config.polling_interval_ms \in 0..IntervalRange - 1
  /\ address # None => address.port \in 0..PortRange - 1

(* What a broker reads from a SASL PLAIN response: the texts after the     *)
(* first and the second NUL.                                               *)
Authenticates(response) ==
  LET nul == Find(response, "NUL", 2)
  IN  <<SubSeq(response, 2, nul - 1), After(response, nul)>>

(* What a line of .env means, read off the line itself: the name and the   *)
(* "=", with nothing but blanks before, between them and around the value, *)
(* of which a pair of quotes at its ends is no part, nor a quote alone.    *)
NamesPassword(line, n, equals) ==
  /\ n < equals /\ line[n] = "RABBITMQ_PASS" /\ line[equals] = "="
  /\ \A k \in 1..equals - 1 : k # n => line[k] \in Blanks

SetsPassword(line) == \E n, equals \in DOMAIN line : NamesPassword(line, n, equals)

GivesValue(line, equals, value) ==
  \E i \in equals + 1..Len(line) + 1, j \in equals..Len(line) :
    /\ \A k \in equals + 1..Len(line) : k \in i..j \/ line[k] \in Blanks
    /\ i <= j => line[i] \notin Blanks /\ line[j] \notin Blanks
    /\ value = IF i <= j /\ line[i] = line[j] /\ line[i] \in Quotes
               THEN SubSeq(line, i + 1, j - 1) ELSE SubSeq(line, i, j)

MeansPassword(line, value) ==
  \E n, equals \in DOMAIN line :
    NamesPassword(line, n, equals) /\ GivesValue(line, equals, value)

(* The last line that sets RABBITMQ_PASS counts; without one, what was     *)
(* there before the start.                                                 *)
EnvironmentSays(value) ==
  IF \E k \in DOMAIN lines : SetsPassword(lines[k])
  THEN \E k \in DOMAIN lines : /\ MeansPassword(lines[k], value)
                               /\ \A j \in k + 1..Len(lines) : ~SetsPassword(lines[j])
  ELSE value = inherited

(* The daemon logs in as the configured user, with the password of the     *)
(* JSON file if there is one, and else with what the last line of .env     *)
(* means, or the environment when no line says it, whatever blanks, quotes,*)
(* comments and other names the lines have.                                *)
CredentialsArrive ==
  pc = "loop" =>
    LET given == {document.password, document.pass} \ {Unset}
        sent  == Authenticates(saslPlain(address.login))
    IN  /\ sent[1] = document.user
        /\ given = {} => sent[2] # Unset /\ EnvironmentSays(sent[2])
        /\ given # {} => sent[2] = IF document.password \in given THEN document.password
                                                               ELSE document.pass

(* The poll timer never runs at less than 100 ms, which would leave the    *)
(* loop no time for anything else, also when the number in the file does   *)
(* not fit its type; without a number in the file, at its default.         *)
IntervalNeverBusy ==
  pc \in {"connect", "loop"} =>
    config.polling_interval_ms >= IF document.interval = Unset THEN DefaultInterval ELSE 100

(* src/src/main.cpp:59: an argument that is no option is the path only if  *)
(* no --config was provided, so the last one provided is the one used.     *)
ExplicitPathKept == paths.option => config_path = Head(paths.since)

(* Which file is read, whatever the order of the arguments: of the last -c *)
(* and the arguments behind it that are no options (or of all of these,    *)
(* without a -c) the first that is not the default path.                   *)
FirstPathCounts ==
  \/ /\ config_path = DefaultPath
     /\ \A k \in DOMAIN paths.since : paths.since[k] = DefaultPath
  \/ \E k \in DOMAIN paths.since :
       /\ config_path = paths.since[k] /\ config_path # DefaultPath
       /\ \A j \in 1..k - 1 : paths.since[j] = DefaultPath

(* The address, written as a URL, is read back as the same address, secure *)
(* or not and with or without options.  Three cases do not: a secure       *)
(* address with port 5672, the default vhost with options, and an empty one*)
(* without.                                                                *)
AddressReadsBack ==
  pc = "loop" =>
    \A secure \in BOOLEAN, options \in {<<>>, [name \in {<<"heartbeat">>} |-> <<"60">>]} :
      LET a == [address EXCEPT !.secure = secure, !.options = options]
      IN  /\ ~(secure /\ a.port = 5672)
          /\ a.vhost # IF options = <<>> THEN <<>> ELSE <<"/">>
          => Parse(ToUrl(a)) = a
=============================================================================
