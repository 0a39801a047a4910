----------------------------- MODULE StartupProofs -----------------------------
(* Proofs about main() before and in its event loop (Process): types, the  *)
(* path, the interval, the credentials that reach the broker, and the      *)
(* broker's address read back from its text.                               *)
EXTENDS Process, SequenceTheorems, TLAPS

WellFounded == INSTANCE WellFoundedInduction

(* Whatever the loop does, the variables of Startup follow its own steps. *)
LEMMA ProcessFollows == [Starting \/ Looping]_<<vars, watchVars>> => [Next]_vars
  BY DEF Starting, Looping

LEMMA ProcessBegins == ProcessInit => Init
  BY DEF ProcessInit

-----------------------------------------------------------------------------
(* Which path the arguments read so far come to. *)
PathInv == paths.since \in Seq(Arguments) /\ FirstPathCounts

LEMMA PathStep == PathInv /\ [Next]_vars => PathInv'
<1> SUFFICES ASSUME PathInv, [Next]_vars PROVE PathInv'
  OBVIOUS
<1> USE DEF PathInv, FirstPathCounts
<1>1. CASE ParseArgument
  <2>1. PICK arg \in Arguments :
          \/ config_path' = arg /\ paths' = [option |-> TRUE, since |-> <<arg>>]
          \/ UNCHANGED <<config_path, paths>>
          \/ PlainArgument(arg)
    BY <1>1 DEF ParseArgument
  <2>2. CASE config_path' = arg /\ paths' = [option |-> TRUE, since |-> <<arg>>]
    <3>1. paths'.since = <<arg>> /\ DOMAIN paths'.since = {1} /\ paths'.since[1] = arg
      BY <2>2
    <3>2. 1..1 - 1 = {}
      OBVIOUS
    <3>3. QED
      BY <2>2, <3>1, <3>2
  <2>3. CASE UNCHANGED <<config_path, paths>>
    BY <2>3
  <2>4. CASE PlainArgument(arg)
    <3> DEFINE s == paths.since
               t == paths'.since
    <3>1. /\ config_path' = IF config_path = DefaultPath THEN arg ELSE config_path
          /\ paths' = [paths EXCEPT !.since = Append(@, arg)]
      BY <2>4 DEF PlainArgument
    <3>2. t = Append(s, arg)
      BY <3>1
    <3>3. /\ t \in Seq(Arguments) /\ Len(s) \in Nat /\ DOMAIN s = 1..Len(s)
          /\ DOMAIN t = 1..Len(s) + 1 /\ t[Len(s) + 1] = arg /\ \A k \in 1..Len(s) : t[k] = s[k]
      BY <3>2
    <3> HIDE DEF s, t
    <3>4. CASE config_path = DefaultPath /\ \A k \in DOMAIN s : s[k] = DefaultPath
      <4>1. \A k \in 1..(Len(s) + 1) - 1 : t[k] = DefaultPath
        BY <3>3, <3>4
      <4>2. CASE arg = DefaultPath
        BY <3>1, <3>3, <3>4, <4>1, <4>2 DEF s, t
      <4>3. CASE arg # DefaultPath
        <5>1. PICK k : k = Len(s) + 1
          OBVIOUS
        <5>2. k \in DOMAIN t /\ config_path' = t[k] /\ \A j \in 1..k - 1 : t[j] = DefaultPath
          BY <3>1, <3>3, <3>4, <4>1, <5>1
        <5>3. QED
          BY <3>3, <3>1, <3>4, <4>3, <5>2 DEF t
      <4>4. QED
        BY <4>2, <4>3
    <3>5. CASE \E k \in DOMAIN s : /\ config_path = s[k] /\ config_path # DefaultPath
                                   /\ \A j \in 1..k - 1 : s[j] = DefaultPath
      <4>1. PICK k \in DOMAIN s : /\ config_path = s[k] /\ config_path # DefaultPath
                                  /\ \A j \in 1..k - 1 : s[j] = DefaultPath
        BY <3>5
      <4>2. /\ k \in DOMAIN t /\ config_path' = t[k] /\ config_path' # DefaultPath
            /\ \A j \in 1..k - 1 : t[j] = DefaultPath
        BY <3>1, <3>3, <4>1
      <4>3. QED
        BY <3>3, <4>2 DEF t
    <3>6. QED
      BY <3>4, <3>5 DEF s
  <2>5. QED
    BY <2>1, <2>2, <2>3, <2>4
<1>2. CASE Next /\ ~ParseArgument
  BY <1>2 DEF Next, ParsedArguments, LoadEnvLine, LoadedEnv, LoadJson, Wire
<1>3. CASE UNCHANGED vars
  BY <1>3 DEF vars
<1>4. QED
  BY <1>1, <1>2, <1>3

(* However many arguments there are, and in whatever order: of the last -c *)
(* and the plain arguments behind it the first that is not the default     *)
(* path is the one used.                                                   *)
THEOREM PathIsChosen == ProcessSpec => []FirstPathCounts
<1>1. Init => PathInv
  BY DEF Init, PathInv, FirstPathCounts
<1>2. PathInv => FirstPathCounts
  BY DEF PathInv
<1>3. QED
  BY <1>1, <1>2, PathStep, ProcessBegins, ProcessFollows, PTL DEF ProcessSpec

-----------------------------------------------------------------------------
(* What has become of the document, from its reading on. *)
Accepted == pc \in {"connect", "loop"} =>
  /\ document \in Documents /\ Complete(document) /\ config = AppConfig(document)
  /\ pc = "loop" =>
       address = Address(config.host, config.port, Login(config.user, config.password),
                         config.vhost)

LEMMA AcceptedInit == Init => Accepted
  BY DEF Init, Accepted

LEMMA AcceptedStep == Accepted /\ [Next]_vars => Accepted'
<1> SUFFICES ASSUME Accepted, [Next]_vars PROVE Accepted'
  OBVIOUS
<1> USE DEF Accepted
<1>1. CASE LoadJson
  <2>1. PICK json \in Documents :
          /\ document' = json
          /\ \/ Complete(json) /\ config' = AppConfig(json) /\ pc' = "connect"
             \/ pc' = "exit1"
    BY <1>1 DEF LoadJson
  <2>2. pass' = pass
    BY <1>1 DEF LoadJson
  <2>3. QED
    BY <2>1, <2>2 DEF Complete, AppConfig, Password
<1>2. CASE Wire
  BY <1>2 DEF Wire, Complete, AppConfig, Password
<1>3. CASE UNCHANGED vars
  BY <1>3 DEF vars, Complete, AppConfig, Password
<1>4. CASE ParseArgument \/ ParsedArguments \/ LoadEnvLine \/ LoadedEnv
  BY <1>4 DEF ParseArgument, PlainArgument, ParsedArguments, LoadEnvLine, LoadedEnv
<1>5. QED
  BY <1>1, <1>2, <1>3, <1>4 DEF Next

(* The interval is checked as it will be used: whatever number the file    *)
(* holds, the timer keeps its distance.                                    *)
THEOREM IntervalIsNeverBusy == ProcessSpec => []IntervalNeverBusy
<1>1. Accepted => IntervalNeverBusy
  <2> SUFFICES ASSUME Accepted, pc \in {"connect", "loop"}
               PROVE  config.polling_interval_ms
                        >= IF document.interval = Unset THEN DefaultInterval ELSE 100
    BY DEF IntervalNeverBusy
  <2>1. /\ config.polling_interval_ms = Interval(document)
        /\ document.interval # Unset => Interval(document) >= 100
    BY DEF Accepted, Complete, AppConfig
  <2>2. document.interval = Unset => Interval(document) >= DefaultInterval
    BY NumbersAssumption DEF Interval
  <2>3. QED
    BY <2>1, <2>2
<1>2. QED
  BY <1>1, AcceptedInit, AcceptedStep, ProcessBegins, ProcessFollows, PTL DEF ProcessSpec

-----------------------------------------------------------------------------
(* The texts that the environment may get the password from. *)
LEMMA TextsAreTexts ==
  /\ Inherited \subseteq Texts
  /\ \A line \in EnvLines :
       Unquoted(Trim(After(line, Find(line, "=", 1)))) \subseteq Texts
<1> DEFINE S == {Unquoted(Trim(After(l, Find(l, "=", 1)))) : l \in EnvLines}
<1>1. Texts = (UNION {{d.user, d.vhost, d.password, d.pass} : d \in Documents}) \cup Inherited
                \cup (UNION S)
  BY DEF Texts
<1>2. \A line \in EnvLines : Unquoted(Trim(After(line, Find(line, "=", 1)))) \in S
  OBVIOUS
<1> HIDE DEF S
<1>3. QED
  BY <1>1, <1>2

LEMMA DocumentsHoldTexts ==
  \A d \in Documents : {d.user, d.vhost, d.password, d.pass} \subseteq Texts
<1> DEFINE S == {{d.user, d.vhost, d.password, d.pass} : d \in Documents}
<1>1. UNION S \subseteq Texts
  BY DEF Texts
<1>2. \A d \in Documents : {d.user, d.vhost, d.password, d.pass} \in S
  OBVIOUS
<1> HIDE DEF S
<1>3. QED
  BY <1>1, <1>2

LEMMA TypeInit == Init => TypeOK
<1> SUFFICES ASSUME Init PROVE TypeOK
  OBVIOUS
<1>1. pass \in Texts
  BY TextsAreTexts DEF Init
<1>2. argc \in 0..MaxArguments /\ line_num \in 0..MaxLines
  BY BoundsAssumption DEF Init
<1>3. QED
  BY <1>1, <1>2 DEF Init, TypeOK

LEMMA TypeStep == TypeOK /\ Accepted /\ [Next]_vars => TypeOK'
<1> SUFFICES ASSUME TypeOK, Accepted, [Next]_vars PROVE TypeOK'
  OBVIOUS
<1> USE DEF TypeOK
<1>1. CASE ParseArgument
  <2>1. argc' \in 0..MaxArguments
    BY <1>1, BoundsAssumption DEF ParseArgument
  <2>2. UNCHANGED <<line_num, pass, config, address, document>>
    BY <1>1 DEF ParseArgument
  <2>3. /\ pc' \in {"args", "exit0", "exit1"} /\ awaiting' \in BOOLEAN /\ debug_mode' \in BOOLEAN
        /\ config_path' \in Arguments \cup {DefaultPath}
    BY <1>1 DEF ParseArgument, PlainArgument
  <2>4. QED
    BY <2>1, <2>2, <2>3
<1>2. CASE ParsedArguments
  BY <1>2 DEF ParsedArguments
<1>3. CASE LoadEnvLine
  <2>1. PICK line \in EnvLines :
          \/ pass' = pass
          \/ pass' \in Unquoted(Trim(After(line, Find(line, "=", 1))))
    BY <1>3 DEF LoadEnvLine
  <2>2. pass' \in Texts
    BY <2>1, TextsAreTexts
  <2>3. line_num' \in 0..MaxLines /\ pc' \in {"env", "exit1", "crash"}
    BY <1>3, BoundsAssumption DEF LoadEnvLine
  <2>4. UNCHANGED <<argc, awaiting, config_path, debug_mode, config, address>>
    BY <1>3 DEF LoadEnvLine
  <2>5. QED
    BY <2>2, <2>3, <2>4
<1>4. CASE LoadedEnv
  BY <1>4 DEF LoadedEnv
<1>5. CASE LoadJson
  <2>1. PICK json \in Documents :
          \/ config' = AppConfig(json) /\ pc' = "connect"
          \/ pc' = "exit1" /\ config' = config
    BY <1>5 DEF LoadJson
  <2>2. /\ AppConfig(json).port \in 0..PortRange - 1
        /\ AppConfig(json).polling_interval_ms \in 0..IntervalRange - 1
    BY NumbersAssumption DEF AppConfig, Interval
  <2>3. QED
    BY <1>5, <2>1, <2>2 DEF LoadJson
<1>6. CASE Wire
  <2>1. config.port \in Int
    BY <1>6, NumbersAssumption DEF Wire, Accepted, AppConfig
  <2>2. config.port % PortRange \in 0..PortRange - 1
    BY <2>1, NumbersAssumption
  <2>3. QED
    BY <1>6, <2>2 DEF Wire, Address
<1>7. CASE UNCHANGED vars
  BY <1>7 DEF vars
<1>8. QED
  BY <1>1, <1>2, <1>3, <1>4, <1>5, <1>6, <1>7 DEF Next

(* The start keeps its types, for any arguments, .env files and documents. *)
THEOREM StartupTypes == ProcessSpec => []TypeOK
  BY TypeInit, TypeStep, AcceptedInit, AcceptedStep, ProcessBegins, ProcessFollows, PTL
  DEF ProcessSpec

-----------------------------------------------------------------------------
(* The broker reads from a SASL response what it was made of: the second   *)
(* NUL is the one between the two, when there is none in the user's name.  *)
LEMMA ResponseIsRead ==
  ASSUME NEW Words, NEW user \in Seq(Words), NEW password \in Seq(Words),
         \A k \in DOMAIN user : user[k] # "NUL"
  PROVE  Authenticates(saslPlain(Login(user, password))) = <<user, password>>
<1> DEFINE T == Words \cup {"NUL"}
           m == Len(user)
           n == Len(password)
<1>1. /\ user \in Seq(T) /\ password \in Seq(T) /\ <<"NUL">> \in Seq(T) /\ Len(<<"NUL">>) = 1
      /\ m \in Nat /\ n \in Nat /\ DOMAIN user = 1..m
      /\ Len(user) = m /\ Len(password) = n
  BY LenProperties, SeqMonotonic
<1> HIDE DEF T, m, n
<1>2. PICK a : a = <<"NUL">> \o user
  OBVIOUS
<1>3. a \in Seq(T) /\ Len(a) = m + 1 /\ \A i \in 2..m + 1 : a[i] = user[i - 1]
  <2>1. /\ a \in Seq(T) /\ Len(a) = 1 + m
        /\ \A i \in 1..1 + m : a[i] = IF i <= 1 THEN <<"NUL">>[i] ELSE user[i - 1]
    BY <1>1, <1>2, ConcatProperties
  <2>2. QED
    BY <1>1, <2>1
<1>4. PICK b : b = a \o <<"NUL">>
  OBVIOUS
<1>5. /\ b \in Seq(T) /\ Len(b) = m + 2 /\ b[m + 2] = "NUL"
      /\ \A i \in 2..m + 1 : b[i] = user[i - 1]
  <2>1. /\ b \in Seq(T) /\ Len(b) = (m + 1) + 1
        /\ \A i \in 1..(m + 1) + 1 : b[i] = IF i <= m + 1 THEN a[i] ELSE <<"NUL">>[i - (m + 1)]
    BY <1>1, <1>3, <1>4, ConcatProperties
  <2>2. QED
    BY <1>1, <1>3, <2>1
<1>6. PICK r : r = b \o password
  OBVIOUS
<1>7. /\ r \in Seq(T) /\ Len(r) = m + 2 + n /\ r[m + 2] = "NUL"
      /\ \A i \in 2..m + 1 : r[i] = user[i - 1]
      /\ \A i \in 1..n : r[m + 2 + i] = password[i]
  <2>1. /\ r \in Seq(T) /\ Len(r) = Len(b) + Len(password)
        /\ \A i \in 1..Len(b) + Len(password) :
             r[i] = IF i <= Len(b) THEN b[i] ELSE password[i - Len(b)]
    BY <1>1, <1>5, <1>6, ConcatProperties
  <2>2. /\ Len(r) = m + 2 + n
        /\ \A i \in 1..m + 2 + n : r[i] = IF i <= m + 2 THEN b[i] ELSE password[i - (m + 2)]
    BY <1>1, <1>5, <2>1
  <2>3. \A i \in 1..m + 2 : i \in 1..m + 2 + n /\ r[i] = b[i]
    BY <1>1, <2>2
  <2>4. \A i \in 1..n : m + 2 + i \in 1..m + 2 + n /\ r[m + 2 + i] = password[i]
    <3> SUFFICES ASSUME NEW i \in 1..n
                 PROVE  m + 2 + i \in 1..m + 2 + n /\ r[m + 2 + i] = password[i]
      OBVIOUS
    <3>1. PICK j : j = m + 2 + i
      OBVIOUS
    <3>2. j \in 1..m + 2 + n /\ ~(j <= m + 2) /\ j - (m + 2) = i
      BY <1>1, <3>1
    <3>3. r[j] = password[i]
      BY <2>2, <3>2
    <3>4. QED
      BY <3>1, <3>2, <3>3
  <2>5. QED
    BY <1>1, <1>5, <2>1, <2>2, <2>3, <2>4
<1>8. saslPlain(Login(user, password)) = r
  BY <1>2, <1>4, <1>6 DEF saslPlain, Login
<1>9. Find(r, "NUL", 2) = m + 2
  <2> DEFINE found == {k \in 2..Len(r) : r[k] = "NUL"}
  <2>1. m + 2 \in found
    BY <1>1, <1>7
  <2>2. ASSUME NEW k \in found, ~(m + 2 <= k) PROVE FALSE
    <3>1. k \in 2..m + 1 /\ k - 1 \in 1..m /\ r[k] = "NUL"
      BY <1>1, <1>7, <2>2
    <3>2. r[k] = user[k - 1] /\ user[k - 1] # "NUL"
      BY <1>1, <1>7, <3>1
    <3>3. QED
      BY <3>1, <3>2
  <2>3. found \subseteq Nat
    BY <1>1, <1>7
  <2> HIDE DEF found
  <2>4. Min(found) = m + 2
    <3>1. \A k \in found : m + 2 =< k
      BY <1>1, <2>2, <2>3
    <3>2. Min(found) \in found /\ \A k \in found : Min(found) =< k
      BY <2>1, <3>1 DEF Min
    <3>3. PICK least : least = Min(found)
      OBVIOUS
    <3>4. least \in Nat /\ m + 2 \in Nat /\ m + 2 <= least /\ least <= m + 2
      BY <1>1, <2>1, <2>3, <3>1, <3>2, <3>3
    <3>5. QED
      BY <3>3, <3>4
  <2> USE DEF found
  <2>5. QED
    BY <2>1, <2>4 DEF Find
<1>10. SubSeq(r, 2, m + 1) = user
  <2>1. \A i \in 2..m + 1 : r[i] \in T
    BY <1>1, <1>7, ElementOfSeq
  <2>2. /\ SubSeq(r, 2, m + 1) \in Seq(T)
        /\ Len(SubSeq(r, 2, m + 1)) = IF 2 <= m + 1 THEN (m + 1) - 2 + 1 ELSE 0
        /\ \A i \in 1..(m + 1) - 2 + 1 : SubSeq(r, 2, m + 1)[i] = r[2 + i - 1]
    BY <1>1, <2>1, SubSeqProperties
  <2>3. Len(SubSeq(r, 2, m + 1)) = m /\ \A i \in 1..m : SubSeq(r, 2, m + 1)[i] = user[i]
    BY <1>1, <1>7, <2>2
  <2>4. QED
    BY <1>1, <2>2, <2>3, SeqEqual
<1>11. SubSeq(r, m + 3, Len(r)) = password
  <2> DEFINE s == SubSeq(r, m + 3, m + 2 + n)
  <2>1. \A i \in m + 3..m + 2 + n : r[i] \in T
    BY <1>1, <1>7, ElementOfSeq
  <2>2. /\ s \in Seq(T)
        /\ Len(s) = IF m + 3 <= m + 2 + n THEN (m + 2 + n) - (m + 3) + 1 ELSE 0
        /\ \A i \in 1..(m + 2 + n) - (m + 3) + 1 : s[i] = r[(m + 3) + i - 1]
    BY <1>1, <2>1, SubSeqProperties
  <2>3. Len(s) = n /\ \A i \in 1..n : s[i] = password[i]
    BY <1>1, <1>7, <2>2
  <2>4. QED
    BY <1>1, <1>7, <2>2, <2>3, SeqEqual
<1>12. QED
  BY <1>1, <1>8, <1>9, <1>10, <1>11 DEF Authenticates, After

-----------------------------------------------------------------------------
(* What is found in a text, and what is before and after it. *)
LEMMA FindIs ==
  ASSUME NEW T, NEW text \in Seq(T), NEW m \in 1..Len(text), NEW i \in 1..m, NEW c,
         text[m] = c, \A k \in i..m - 1 : text[k] # c
  PROVE  Find(text, c, i) = m
<1> DEFINE found == {k \in i..Len(text) : text[k] = c}
<1>1. Len(text) \in Nat /\ m \in Nat /\ i \in Nat
  BY LenProperties
<1>2. m \in found /\ found \subseteq Nat
  BY <1>1
<1>3. ASSUME NEW k \in found PROVE m <= k
  <2>1. CASE k \in i..m - 1
    BY <2>1
  <2>2. CASE k \notin i..m - 1
    BY <1>1, <2>2
  <2> QED
    BY <2>1, <2>2
<1> HIDE DEF found
<1>4. Min(found) \in found /\ \A k \in found : Min(found) =< k
  BY <1>2, <1>3 DEF Min
<1>5. PICK least : least = Min(found)
  OBVIOUS
<1>6. least \in Nat /\ m <= least /\ least <= m
  BY <1>2, <1>3, <1>4, <1>5
<1>7. Min(found) = m
  BY <1>1, <1>5, <1>6
<1> QED
  BY <1>2, <1>7 DEF Find, found

LEMMA FindNone ==
  ASSUME NEW text, NEW i, NEW c, \A k \in i..Len(text) : text[k] # c
  PROVE  Find(text, c, i) = 0
BY DEF Find

(* A text without some tokens. *)
Lacks(text, tokens) == \A k \in 1..Len(text) : text[k] \notin tokens

(* Two texts with a token in between. *)
Cut(s, c, t) == s \o <<c>> \o t

LEMMA CutParts ==
  ASSUME NEW T, NEW s \in Seq(T), NEW c \in T, NEW t \in Seq(T)
  PROVE  /\ Cut(s, c, t) \in Seq(T) /\ Len(Cut(s, c, t)) = Len(s) + 1 + Len(t)
         /\ \A k \in 1..Len(s) : Cut(s, c, t)[k] = s[k]
         /\ Before(Cut(s, c, t), Len(s) + 1) = s
         /\ After(Cut(s, c, t), Len(s) + 1) = t
         /\ \A i \in 1..Len(s) + 1 :
              (\A k \in i..Len(s) : s[k] # c) => Find(Cut(s, c, t), c, i) = Len(s) + 1
<1> DEFINE u == s \o <<c>>
           x == u \o t
           m == Len(s)
           n == Len(t)
<1>1. /\ u \in Seq(T) /\ Len(u) = m + 1 /\ u[m + 1] = c /\ \A k \in 1..m : u[k] = s[k]
      /\ m \in Nat /\ n \in Nat
  OBVIOUS
<1>2. Cut(s, c, t) = x
  BY DEF Cut
<1> HIDE DEF u
<1>3. /\ x \in Seq(T) /\ Len(x) = m + 1 + n /\ m \in Nat /\ n \in Nat
      /\ \A k \in 1..m : x[k] = s[k]
      /\ x[m + 1] = c
      /\ \A k \in 1..n : x[m + 1 + k] = t[k]
  <2>1. x \in Seq(T) /\ Len(x) = m + 1 + n
    BY <1>1
  <2>2. \A k \in 1..Len(u) : x[k] = u[k]
    BY <1>1
  <2>3. \A k \in 1..n : x[Len(u) + k] = t[k]
    BY <1>1
  <2>4. (\A k \in 1..m : x[k] = s[k]) /\ x[m + 1] = c
    BY <1>1, <2>2
  <2>5. \A k \in 1..n : x[m + 1 + k] = t[k]
    BY <1>1, <2>3
  <2> QED
    BY <1>1, <2>1, <2>4, <2>5
<1> HIDE DEF x
<1>4. SubSeq(x, 1, m) = s
  <2>1. \A i \in 1..m : x[i] \in T
    BY <1>3, ElementOfSeq
  <2>2. /\ SubSeq(x, 1, m) \in Seq(T)
        /\ Len(SubSeq(x, 1, m)) = IF 1 <= m THEN m - 1 + 1 ELSE 0
        /\ \A i \in 1..m - 1 + 1 : SubSeq(x, 1, m)[i] = x[1 + i - 1]
    BY <1>3, <2>1, SubSeqProperties
  <2>3. Len(SubSeq(x, 1, m)) = m /\ \A i \in 1..m : SubSeq(x, 1, m)[i] = s[i]
    BY <1>3, <2>2
  <2> QED
    BY <1>3, <2>2, <2>3, SeqEqual
<1>5. SubSeq(x, m + 2, m + 1 + n) = t
  <2> DEFINE y == SubSeq(x, m + 2, m + 1 + n)
  <2>1. \A i \in m + 2..m + 1 + n : x[i] \in T
    BY <1>3, ElementOfSeq
  <2>2. /\ y \in Seq(T)
        /\ Len(y) = IF m + 2 <= m + 1 + n THEN (m + 1 + n) - (m + 2) + 1 ELSE 0
        /\ \A i \in 1..(m + 1 + n) - (m + 2) + 1 : y[i] = x[(m + 2) + i - 1]
    BY <1>3, <2>1, SubSeqProperties
  <2>3. Len(y) = n /\ \A i \in 1..n : y[i] = t[i]
    BY <1>3, <2>2
  <2> QED
    BY <1>3, <2>2, <2>3, SeqEqual
<1>6. Before(x, m + 1) = s
  <2>1. m + 1 # 0 /\ (m + 1) - 1 = m
    BY <1>3
  <2> QED
    BY <1>4, <2>1 DEF Before
<1>7. After(x, m + 1) = t
  <2>1. m + 1 # 0 /\ (m + 1) + 1 = m + 2
    BY <1>3
  <2> QED
    BY <1>3, <1>5, <2>1 DEF After
<1>8. ASSUME NEW i \in 1..m + 1, \A k \in i..m : s[k] # c
      PROVE  Find(x, c, i) = m + 1
  <2>1. PICK p : p = m + 1
    OBVIOUS
  <2>2. p \in 1..Len(x) /\ i \in 1..p /\ p - 1 = m /\ x[p] = c
    BY <1>3, <2>1
  <2>3. \A k \in i..p - 1 : x[k] # c
    BY <1>3, <1>8, <2>2
  <2>4. x \in Seq(T) /\ p \in 1..Len(x) /\ i \in 1..p
    BY <1>3, <2>2
  <2>5. Find(x, c, i) = p
    BY <2>2, <2>3, <2>4, FindIs
  <2> QED
    BY <2>1, <2>5
<1> QED
  BY <1>3, <1>6, <1>7, <1>8, <1>2

LEMMA CutFoundFrom ==
  ASSUME NEW T, NEW s \in Seq(T), NEW c \in T, NEW t \in Seq(T), NEW i \in 1..Len(s) + 1,
         \A k \in i..Len(s) : s[k] # c
  PROVE  Find(Cut(s, c, t), c, i) = Len(s) + 1
<1>1. \A j \in 1..Len(s) + 1 :
        (\A k \in j..Len(s) : s[k] # c) => Find(Cut(s, c, t), c, j) = Len(s) + 1
  BY CutParts
<1> QED
  BY <1>1, Zenon

LEMMA CutFound ==
  ASSUME NEW T, NEW s \in Seq(T), NEW c \in T, NEW t \in Seq(T), \A k \in 1..Len(s) : s[k] # c
  PROVE  Find(Cut(s, c, t), c, 1) = Len(s) + 1
<1>1. 1 \in 1..Len(s) + 1
  BY LenProperties
<1> QED
  BY <1>1, CutFoundFrom

-----------------------------------------------------------------------------
LEMMA Least ==
  ASSUME NEW S \in SUBSET Nat, S # {}
  PROVE  \E m \in S : \A k \in S : m <= k
<1>1. WellFounded!IsWellFoundedOn(WellFounded!OpToRel(<, Nat), Nat)
  BY WellFounded!NatLessThanWellFounded
<1>2. PICK m \in S : \A k \in S : ~(<<k, m>> \in WellFounded!OpToRel(<, Nat))
  BY <1>1, WellFounded!WFMin
<1>3. \A k \in S : k \in Nat /\ m \in Nat /\ ~(k < m)
  BY <1>2 DEF WellFounded!OpToRel
<1> QED
  BY <1>3

(* What the first places do not hold is found after them, or nowhere. *)
LEMMA FindBeyond ==
  ASSUME NEW T, NEW text \in Seq(T), NEW c, NEW m \in 0..Len(text), \A k \in 1..m : text[k] # c
  PROVE  Find(text, c, 1) = 0 \/ (Find(text, c, 1) \in Nat /\ Find(text, c, 1) > m)
<1> DEFINE found == {k \in 1..Len(text) : text[k] = c}
<1>1. found \in SUBSET Nat /\ Len(text) \in Nat /\ \A k \in found : k > m
  OBVIOUS
<1>2. CASE found = {}
  BY <1>2 DEF Find
<1>3. CASE found # {}
  <2>1. PICK k \in found : \A j \in found : k <= j
    BY <1>1, <1>3, Least
  <2> HIDE DEF found
  <2>2. Min(found) \in found
    BY <2>1 DEF Min
  <2>3. Find(text, c, 1) = Min(found)
    BY <1>3 DEF Find, found
  <2> QED
    BY <1>1, <2>2, <2>3
<1> QED
  BY <1>2, <1>3

-----------------------------------------------------------------------------
(* What a line of .env sets and means, against how it is read. *)
LEMMA Greatest ==
  ASSUME NEW n \in Nat, NEW S \in SUBSET (1..n), S # {}
  PROVE  \E m \in S : \A k \in S : k <= m
<1> DEFINE R == {n - k : k \in S}
<1>1. R \in SUBSET Nat /\ R # {}
  <2>1. \A k \in S : n - k \in Nat
    OBVIOUS
  <2>2. R \subseteq Nat
    BY <2>1
  <2>3. PICK k \in S : TRUE
    OBVIOUS
  <2>4. n - k \in R
    OBVIOUS
  <2> QED
    BY <2>2, <2>4
<1>2. PICK r \in R : \A k \in R : r <= k
  <2> HIDE DEF R
  <2> QED
    BY <1>1, Least
<1>3. PICK m \in S : r = n - m
  BY <1>2
<1>4. ASSUME NEW k \in S PROVE k <= m
  <2>1. r <= n - k
    BY <1>2
  <2> QED
    BY <1>3, <2>1
<1> QED
  BY <1>4

LEMMA Trimmed ==
  ASSUME NEW T, NEW text \in Seq(T)
  PROVE  \/ Trim(text) = <<>> /\ \A k \in 1..Len(text) : text[k] \in Blanks
         \/ \E i, j \in 1..Len(text) :
              /\ i <= j /\ text[i] \notin Blanks /\ text[j] \notin Blanks
              /\ \A k \in 1..Len(text) : k \in i..j \/ text[k] \in Blanks
              /\ Trim(text) = SubSeq(text, i, j)
<1> DEFINE kept == {k \in DOMAIN text : text[k] \notin Blanks}
<1>1. kept = {k \in 1..Len(text) : text[k] \notin Blanks} /\ Len(text) \in Nat
  OBVIOUS
<1>2. Trim(text) = IF kept = {} THEN <<>> ELSE SubSeq(text, Min(kept), Max(kept))
  BY DEF Trim
<1>3. CASE kept = {}
  BY <1>1, <1>2, <1>3
<1>4. CASE kept # {}
  <2>1. kept \in SUBSET (1..Len(text)) /\ kept \in SUBSET Nat
    BY <1>1
  <2> HIDE DEF kept
  <2>2. \E i \in kept : \A k \in kept : i <= k
    BY <1>4, <2>1, Least
  <2>3. \E j \in kept : \A k \in kept : k <= j
    BY <1>1, <1>4, <2>1, Greatest
  <2>4. Min(kept) \in kept /\ \A k \in kept : Min(kept) <= k
    BY <2>2 DEF Min
  <2>5. Max(kept) \in kept /\ \A k \in kept : k <= Max(kept)
    BY <2>1, <2>3 DEF Max
  <2>6. PICK i, j : i = Min(kept) /\ j = Max(kept)
    OBVIOUS
  <2>7. i \in 1..Len(text) /\ j \in 1..Len(text) /\ i <= j /\ i \in kept /\ j \in kept
    BY <2>1, <2>4, <2>5, <2>6
  <2>8. \A k \in 1..Len(text) : k \in i..j \/ text[k] \in Blanks
    BY <1>1, <2>4, <2>5, <2>6, <2>7
  <2>9. Trim(text) = SubSeq(text, i, j) /\ text[i] \notin Blanks /\ text[j] \notin Blanks
    BY <1>1, <1>2, <1>4, <2>6, <2>7
  <2> QED
    BY <2>7, <2>8, <2>9
<1> QED
  BY <1>3, <1>4

(* Where find() stops. *)
LEMMA FoundAt ==
  ASSUME NEW T, NEW text \in Seq(T), NEW c, NEW e, e = Find(text, c, 1), e # 0
  PROVE  e \in 1..Len(text) /\ text[e] = c
<1> DEFINE found == {k \in 1..Len(text) : text[k] = c}
<1>1. found \in SUBSET Nat /\ found # {} /\ e = Min(found)
  BY DEF Find
<1>2. \E k \in found : \A j \in found : k <= j
  <2> HIDE DEF found
  <2> QED
    BY <1>1, Least
<1>3. e \in found
  <2> HIDE DEF found
  <2> QED
    BY <1>1, <1>2 DEF Min
<1> QED
  BY <1>3

(* The two sides of the "=" at e. *)
LEMMA SidesOf ==
  ASSUME NEW T, NEW text \in Seq(T), NEW e \in 1..Len(text)
  PROVE  /\ Before(text, e) \in Seq(T) /\ Len(Before(text, e)) = e - 1
         /\ \A k \in 1..e - 1 : Before(text, e)[k] = text[k]
         /\ After(text, e) \in Seq(T) /\ Len(After(text, e)) = Len(text) - e
         /\ \A k \in 1..Len(text) - e : After(text, e)[k] = text[e + k]
<1>1. Len(text) \in Nat /\ e \in Nat /\ e # 0 /\ e - 1 \in Int /\ e + 1 \in Int
  OBVIOUS
<1>2. (\A i \in 1..e - 1 : text[i] \in T) /\ \A i \in e + 1..Len(text) : text[i] \in T
  BY <1>1, ElementOfSeq
<1>3. /\ SubSeq(text, 1, e - 1) \in Seq(T)
      /\ Len(SubSeq(text, 1, e - 1)) = IF 1 <= e - 1 THEN (e - 1) - 1 + 1 ELSE 0
      /\ \A i \in 1..(e - 1) - 1 + 1 : SubSeq(text, 1, e - 1)[i] = text[1 + i - 1]
  BY <1>1, <1>2, SubSeqProperties
<1>4. /\ SubSeq(text, e + 1, Len(text)) \in Seq(T)
      /\ Len(SubSeq(text, e + 1, Len(text))) =
           IF e + 1 <= Len(text) THEN Len(text) - (e + 1) + 1 ELSE 0
      /\ \A i \in 1..Len(text) - (e + 1) + 1 :
           SubSeq(text, e + 1, Len(text))[i] = text[(e + 1) + i - 1]
  BY <1>1, <1>2, SubSeqProperties
<1>5. Before(text, e) = SubSeq(text, 1, e - 1) /\ After(text, e) = SubSeq(text, e + 1, Len(text))
  BY <1>1 DEF Before, After
<1>6. Len(Before(text, e)) = e - 1 /\ \A k \in 1..e - 1 : Before(text, e)[k] = text[k]
  BY <1>1, <1>3, <1>5
<1>7. /\ Len(After(text, e)) = Len(text) - e
      /\ \A k \in 1..Len(text) - e : After(text, e)[k] = text[e + k]
  BY <1>1, <1>4, <1>5
<1> QED
  BY <1>3, <1>4, <1>5, <1>6, <1>7

(* A part of what is behind the "=" is a part of the line. *)
LEMMA PartOfLine ==
  ASSUME NEW T, NEW text \in Seq(T), NEW e \in 1..Len(text), NEW i \in Nat \ {0}, NEW j \in Nat,
         j <= Len(text) - e
  PROVE  SubSeq(After(text, e), i, j) = SubSeq(text, e + i, e + j)
<1> DEFINE after == After(text, e)
           a == SubSeq(after, i, j)
           b == SubSeq(text, e + i, e + j)
<1>1. /\ after \in Seq(T) /\ Len(after) = Len(text) - e /\ Len(text) \in Nat /\ e \in Nat
      /\ e <= Len(text) /\ \A k \in 1..Len(text) - e : after[k] = text[e + k]
  <2>1. Len(text) \in Nat /\ e \in Nat /\ e <= Len(text)
    OBVIOUS
  <2> QED
    BY <2>1, SidesOf, Zenon
<1> HIDE DEF after
<1>2. \A k \in i..j : after[k] \in T
  BY <1>1, ElementOfSeq
<1>3. /\ a \in Seq(T) /\ Len(a) = IF i <= j THEN j - i + 1 ELSE 0
      /\ \A k \in 1..j - i + 1 : a[k] = after[i + k - 1]
  BY <1>2, SubSeqProperties
<1>4. \A k \in e + i..e + j : text[k] \in T
  BY <1>1, ElementOfSeq
<1>5. e + i \in Int /\ e + j \in Int
  BY <1>1
<1>6. /\ b \in Seq(T) /\ Len(b) = IF e + i <= e + j THEN (e + j) - (e + i) + 1 ELSE 0
      /\ \A k \in 1..(e + j) - (e + i) + 1 : b[k] = text[(e + i) + k - 1]
  BY <1>4, <1>5, SubSeqProperties
<1> HIDE DEF a, b
<1>7. Len(a) = Len(b)
  BY <1>1, <1>3, <1>6
<1>8. ASSUME NEW k \in 1..Len(a) PROVE a[k] = b[k]
  <2>1. k \in 1..j - i + 1 /\ i + k - 1 \in 1..Len(text) - e
    BY <1>1, <1>3, <1>8
  <2>2. a[k] = text[e + (i + k - 1)]
    BY <1>1, <1>3, <2>1
  <2>4. e + (i + k - 1) = (e + i) + k - 1
    BY <1>1, <2>1
  <2>3. k \in 1..(e + j) - (e + i) + 1
    BY <1>1, <2>1
  <2> QED
    BY <1>6, <2>2, <2>3, <2>4
<1>9. a = b
  BY <1>3, <1>6, <1>7, <1>8, SeqEqual
<1> QED
  BY <1>9 DEF a, b, after

(* The value that is read is the one the line gives. *)
LEMMA ValueIsGiven ==
  ASSUME NEW T, NEW line \in Seq(T), NEW e \in 1..Len(line),
         NEW value \in Unquoted(Trim(After(line, e))), value # Undefined
  PROVE  GivesValue(line, e, value)
<1> DEFINE after == After(line, e)
<1>1. /\ after \in Seq(T) /\ Len(after) = Len(line) - e /\ Len(line) \in Nat /\ e \in Nat
      /\ \A k \in 1..Len(line) - e : after[k] = line[e + k]
  BY SidesOf
<1>2. ASSUME NEW k \in e + 1..Len(line)
      PROVE  k - e \in 1..Len(line) - e /\ line[k] = after[k - e]
  <2>1. k - e \in 1..Len(line) - e /\ e + (k - e) = k
    BY <1>1
  <2> QED
    BY <1>1, <2>1
<1>3. CASE Trim(after) = <<>> /\ \A k \in 1..Len(after) : after[k] \in Blanks
  <2>1. \A k \in e + 1..Len(line) : line[k] \in Blanks
    BY <1>1, <1>2, <1>3
  <2>2. value = <<>>
    BY <1>3 DEF Unquoted
  <2>3. PICK i, j : i = Len(line) + 1 /\ j = Len(line)
    OBVIOUS
  <2>4. i \in e + 1..Len(line) + 1 /\ j \in e..Len(line) /\ ~(i <= j) /\ i \in Int /\ j \in Int
    BY <1>1, <2>3
  <2>5. SubSeq(line, i, j) = <<>>
    BY <2>4, SubSeqEmpty
  <2> QED
    BY <2>1, <2>2, <2>4, <2>5 DEF GivesValue
<1>4. CASE \E i, j \in 1..Len(after) :
             /\ i <= j /\ after[i] \notin Blanks /\ after[j] \notin Blanks
             /\ \A k \in 1..Len(after) : k \in i..j \/ after[k] \in Blanks
             /\ Trim(after) = SubSeq(after, i, j)
  <2>1. PICK i, j \in 1..Len(after) :
             /\ i <= j /\ after[i] \notin Blanks /\ after[j] \notin Blanks
             /\ \A k \in 1..Len(after) : k \in i..j \/ after[k] \in Blanks
             /\ Trim(after) = SubSeq(after, i, j)
    BY <1>4
  <2>2. PICK p, q : p = e + i /\ q = e + j
    OBVIOUS
  <2>3. /\ p \in e + 1..Len(line) + 1 /\ q \in e..Len(line) /\ p <= q /\ i \in 1..Len(line) - e
        /\ j \in 1..Len(line) - e /\ p \in Nat \ {0} /\ q \in Nat
    BY <1>1, <2>1, <2>2
  <2>4. line[p] = after[i] /\ line[q] = after[j]
    BY <1>1, <2>2, <2>3
  <2>5. ASSUME NEW k \in e + 1..Len(line) PROVE k \in p..q \/ line[k] \in Blanks
    <3>1. k - e \in i..j \/ line[k] \in Blanks
      BY <1>1, <1>2, <2>1
    <3> QED
      BY <1>1, <2>2, <2>3, <3>1
  <2> DEFINE s == SubSeq(line, p, q)
  <2>6. Trim(after) = s
    <3>1. i \in Nat \ {0} /\ j \in Nat /\ j <= Len(line) - e
      BY <1>1, <2>3
    <3> QED
      BY <2>1, <2>2, <3>1, PartOfLine
  <2>7. s \in Seq(T) /\ Len(s) = q - p + 1 /\ \A k \in 1..q - p + 1 : s[k] = line[p + k - 1]
    <3>1. \A k \in p..q : line[k] \in T
      BY <1>1, <2>3, ElementOfSeq
    <3> QED
      BY <2>3, <3>1, SubSeqProperties
  <2> HIDE DEF s
  <2>8. s # <<>> /\ Head(s) = line[p] /\ Last(s) = line[q]
    <3>1. Len(s) \in Nat /\ Len(s) # 0 /\ 1 \in 1..q - p + 1 /\ Len(s) \in 1..q - p + 1
      BY <2>3, <2>7
    <3>2. s[1] = line[p + 1 - 1] /\ s[Len(s)] = line[p + Len(s) - 1]
      BY <2>7, <3>1
    <3>3. p + 1 - 1 = p /\ p + Len(s) - 1 = q
      BY <2>3, <2>7
    <3>4. s # <<>>
      BY <3>1
    <3> QED
      BY <2>7, <3>2, <3>3, <3>4 DEF Last
  <2>9. value = IF line[p] = line[q] /\ line[p] \in Quotes THEN SubSeq(s, 2, Len(s) - 1) ELSE s
    BY <2>6, <2>8 DEF Unquoted
  <2>10. SubSeq(s, 2, Len(s) - 1) = SubSeq(line, p + 1, q - 1)
    <3> DEFINE a == SubSeq(s, 2, Len(s) - 1)
               b == SubSeq(line, p + 1, q - 1)
    <3>1. Len(s) - 1 = q - p /\ q - p \in Nat
      BY <2>3, <2>7
    <3>2. \A k \in 2..q - p : s[k] \in T
      BY <2>3, <2>7, ElementOfSeq
    <3>3. /\ a \in Seq(T) /\ Len(a) = IF 2 <= q - p THEN (q - p) - 2 + 1 ELSE 0
          /\ \A k \in 1..(q - p) - 2 + 1 : a[k] = s[2 + k - 1]
      BY <3>1, <3>2, SubSeqProperties
    <3>4. \A k \in p + 1..q - 1 : line[k] \in T
      BY <1>1, <2>3, ElementOfSeq
    <3>5. p + 1 \in Int /\ q - 1 \in Int
      BY <2>3
    <3>6. /\ b \in Seq(T) /\ Len(b) = IF p + 1 <= q - 1 THEN (q - 1) - (p + 1) + 1 ELSE 0
          /\ \A k \in 1..(q - 1) - (p + 1) + 1 : b[k] = line[(p + 1) + k - 1]
      BY <3>4, <3>5, SubSeqProperties
    <3> HIDE DEF a, b
    <3>7. Len(a) = Len(b)
      BY <2>3, <3>3, <3>6
    <3>8. ASSUME NEW k \in 1..Len(a) PROVE a[k] = b[k]
      <4>1. p \in Nat /\ q \in Nat /\ Len(a) = IF 2 <= q - p THEN (q - p) - 2 + 1 ELSE 0
        BY <2>3, <3>3
      <4>2. k \in 1..(q - p) - 2 + 1
        BY <3>8, <4>1
      <4>3. k \in 1..(q - 1) - (p + 1) + 1 /\ 2 + k - 1 \in 1..q - p + 1 /\ k \in Nat
        BY <4>1, <4>2
      <4>4. a[k] = s[2 + k - 1] /\ s[2 + k - 1] = line[p + (2 + k - 1) - 1]
        BY <2>7, <3>3, <4>2, <4>3
      <4>5. p + (2 + k - 1) - 1 = (p + 1) + k - 1
        BY <4>1, <4>3
      <4> QED
        BY <3>6, <4>3, <4>4, <4>5
    <3>9. a = b
      BY <3>3, <3>6, <3>7, <3>8, SeqEqual
    <3> QED
      BY <3>9 DEF a, b
  <2>11. value = IF p <= q /\ line[p] = line[q] /\ line[p] \in Quotes
                 THEN SubSeq(line, p + 1, q - 1) ELSE SubSeq(line, p, q)
    BY <2>3, <2>9, <2>10 DEF s
  <2> QED
    BY <2>1, <2>3, <2>4, <2>5, <2>11 DEF GivesValue
<1>5. QED
  BY <1>1, <1>3, <1>4, Trimmed

(* The name in front of the first "=" is RABBITMQ_PASS just when the line  *)
(* sets it.                                                                *)
LEMMA NameIsOurs ==
  ASSUME NEW T, NEW line \in Seq(T), NEW e \in 1..Len(line),
         Trim(Before(line, e)) = <<"RABBITMQ_PASS">>
  PROVE  \E n \in DOMAIN line : n < e /\ line[n] = "RABBITMQ_PASS"
                                /\ \A k \in 1..e - 1 : k # n => line[k] \in Blanks
<1> DEFINE before == Before(line, e)
<1>1. /\ before \in Seq(T) /\ Len(before) = e - 1 /\ Len(line) \in Nat /\ e \in Nat
      /\ \A k \in 1..e - 1 : before[k] = line[k]
  BY SidesOf
<1>2. Len(<<"RABBITMQ_PASS">>) = 1 /\ <<"RABBITMQ_PASS">>[1] = "RABBITMQ_PASS"
      /\ <<"RABBITMQ_PASS">> # <<>>
  OBVIOUS
<1>3. PICK i, j \in 1..Len(before) :
             /\ i <= j /\ before[i] \notin Blanks /\ before[j] \notin Blanks
             /\ \A k \in 1..Len(before) : k \in i..j \/ before[k] \in Blanks
             /\ Trim(before) = SubSeq(before, i, j)
  BY <1>1, <1>2, Trimmed
<1>4. \A k \in i..j : before[k] \in T
  BY <1>1, ElementOfSeq
<1>5. /\ Len(SubSeq(before, i, j)) = j - i + 1
      /\ \A k \in 1..j - i + 1 : SubSeq(before, i, j)[k] = before[i + k - 1]
  BY <1>3, <1>4, SubSeqProperties
<1>6. j = i /\ before[i] = "RABBITMQ_PASS"
  <2>1. j - i + 1 = 1 /\ i \in Nat /\ j \in Nat
    <3>1. j - i + 1 = 1
      BY <1>2, <1>3, <1>5, Zenon
    <3> QED
      BY <1>1, <3>1
  <2>2. i + 1 - 1 = i /\ j = i
    BY <2>1
  <2>3. SubSeq(before, i, j)[1] = before[i + 1 - 1]
    BY <1>5, <2>1
  <2> QED
    BY <1>2, <1>3, <2>2, <2>3
<1>7. i \in DOMAIN line /\ i < e /\ line[i] = "RABBITMQ_PASS"
  BY <1>1, <1>3, <1>6
<1>8. \A k \in 1..e - 1 : k # i => line[k] \in Blanks
  BY <1>1, <1>3, <1>6
<1> QED
  BY <1>7, <1>8

LEMMA OursIsRead ==
  ASSUME NEW T, NEW line \in Seq(T), NEW n \in DOMAIN line, NEW e \in DOMAIN line,
         NamesPassword(line, n, e)
  PROVE  /\ Find(line, "=", 1) = e /\ e # 0 /\ Head(line) # "#" /\ line # <<>>
         /\ Trim(Before(line, e)) = <<"RABBITMQ_PASS">>
<1>1. /\ n \in 1..Len(line) /\ e \in 1..Len(line) /\ Len(line) \in Nat /\ n < e
      /\ line[n] = "RABBITMQ_PASS" /\ line[e] = "="
      /\ \A k \in 1..e - 1 : k # n => line[k] \in Blanks
  BY DEF NamesPassword
<1>2. "RABBITMQ_PASS" \notin Blanks /\ "=" \notin Blanks /\ "#" \notin Blanks
      /\ "RABBITMQ_PASS" # "=" /\ "RABBITMQ_PASS" # "#"
  BY DEF Blanks
<1>3. \A k \in 1..e - 1 : line[k] # "=" /\ line[k] # "#"
  BY <1>1, <1>2
<1>4. Find(line, "=", 1) = e
  <2>1. 1 \in 1..e
    BY <1>1
  <2> QED
    BY <1>1, <1>3, <2>1, FindIs
<1>5. line # <<>> /\ Head(line) # "#"
  <2>1. 1 \in 1..e - 1
    BY <1>1
  <2> QED
    BY <1>1, <1>3, <2>1
<1> DEFINE before == Before(line, e)
<1>6. /\ before \in Seq(T) /\ Len(before) = e - 1 /\ \A k \in 1..e - 1 : before[k] = line[k]
  BY <1>1, SidesOf
<1> HIDE DEF before
<1>7. n \in 1..Len(before) /\ before[n] = "RABBITMQ_PASS"
      /\ \A k \in 1..Len(before) : k # n => before[k] \in Blanks
  BY <1>1, <1>6
<1>8. PICK i, j \in 1..Len(before) :
             /\ i <= j /\ before[i] \notin Blanks /\ before[j] \notin Blanks
             /\ \A k \in 1..Len(before) : k \in i..j \/ before[k] \in Blanks
             /\ Trim(before) = SubSeq(before, i, j)
  BY <1>2, <1>6, <1>7, Trimmed
<1>9. i = n /\ j = n
  BY <1>7, <1>8
<1>10. Trim(before) = <<"RABBITMQ_PASS">>
  <2>1. \A k \in i..j : before[k] \in T
    BY <1>6, ElementOfSeq
  <2> DEFINE s == SubSeq(before, i, j)
  <2>2. i \in Int /\ j \in Int
    OBVIOUS
  <2>3. /\ s \in Seq(T) /\ Len(s) = IF i <= j THEN j - i + 1 ELSE 0
        /\ \A k \in 1..j - i + 1 : s[k] = before[i + k - 1]
    BY <2>1, <2>2, SubSeqProperties
  <2> HIDE DEF s
  <2>4. j - i + 1 = 1 /\ i + 1 - 1 = n
    BY <1>1, <1>9
  <2>5. Len(s) = 1
    BY <1>8, <2>3, <2>4, Zenon
  <2>7. \A k \in 1..1 : s[k] = before[i + k - 1]
    BY <2>3, <2>4, Zenon
  <2>8. s[1] = before[i + 1 - 1]
    BY <2>7
  <2>9. s[1] = "RABBITMQ_PASS"
    BY <1>7, <2>4, <2>8, Zenon
  <2>6. s = <<"RABBITMQ_PASS">>
    BY <2>3, <2>5, <2>9
  <2> QED
    BY <1>8, <2>6 DEF s
<1> QED
  BY <1>1, <1>4, <1>5, <1>10 DEF before

-----------------------------------------------------------------------------
(* The password the environment has is what the lines read so far say. *)
EnvInv == /\ lines \in Seq(EnvLines)
          /\ pc \in {"args", "env", "json", "connect", "loop"} => EnvironmentSays(pass)

LEMMA EnvInit == Init => EnvInv
BY DEF Init, EnvInv, EnvironmentSays

(* One more line that sets it, or does not. *)
LEMMA LineSays ==
  ASSUME lines \in Seq(EnvLines), EnvironmentSays(pass), NEW line \in EnvLines,
         lines' = Append(lines, line), inherited' = inherited,
         \/ ~SetsPassword(line) /\ pass' = pass
         \/ SetsPassword(line) /\ MeansPassword(line, pass')
  PROVE  EnvironmentSays(pass)'
<1>1. /\ Len(lines') = Len(lines) + 1 /\ Len(lines) \in Nat
      /\ DOMAIN lines = 1..Len(lines) /\ DOMAIN lines' = 1..Len(lines) + 1
      /\ lines'[Len(lines) + 1] = line /\ \A k \in 1..Len(lines) : lines'[k] = lines[k]
  OBVIOUS
<1>2. CASE ~SetsPassword(line) /\ pass' = pass
  <2>1. CASE \E k \in DOMAIN lines : SetsPassword(lines[k])
    <3>1. PICK k \in DOMAIN lines : /\ MeansPassword(lines[k], pass)
                                    /\ \A j \in k + 1..Len(lines) : ~SetsPassword(lines[j])
      BY <2>1 DEF EnvironmentSays
    <3>2. k \in DOMAIN lines' /\ lines'[k] = lines[k]
      BY <1>1
    <3>3. ASSUME NEW j \in k + 1..Len(lines') PROVE ~SetsPassword(lines'[j])
      <4>1. j \in k + 1..Len(lines) \/ j = Len(lines) + 1
        BY <1>1
      <4>2. CASE j \in k + 1..Len(lines)
        <5>1. j \in 1..Len(lines)
          BY <1>1, <4>2
        <5> QED
          BY <1>1, <3>1, <4>2, <5>1
      <4>3. CASE j = Len(lines) + 1
        BY <1>1, <1>2, <4>3
      <4> QED
        BY <4>1, <4>2, <4>3
    <3>4. \E i \in DOMAIN lines' : SetsPassword(lines'[i])
      <4>1. PICK i \in DOMAIN lines : SetsPassword(lines[i])
        BY <2>1
      <4> QED
        BY <1>1, <4>1
    <3> QED
      BY <1>2, <3>1, <3>2, <3>3, <3>4 DEF EnvironmentSays
  <2>2. CASE \A k \in DOMAIN lines : ~SetsPassword(lines[k])
    <3>1. \A k \in DOMAIN lines' : ~SetsPassword(lines'[k])
      BY <1>1, <1>2, <2>2
    <3> QED
      BY <1>2, <2>2, <3>1 DEF EnvironmentSays
  <2> QED
    BY <2>1, <2>2
<1>3. CASE SetsPassword(line) /\ MeansPassword(line, pass')
  <2>1. PICK k : k = Len(lines) + 1
    OBVIOUS
  <2>2. k \in DOMAIN lines' /\ lines'[k] = line /\ k + 1..Len(lines') = {}
    BY <1>1, <2>1
  <2> QED
    BY <1>3, <2>2 DEF EnvironmentSays
<1> QED
  BY <1>2, <1>3

LEMMA EnvStep ==
  ASSUME NEW CONSTANT Words, EnvLines \subseteq Seq(Words), EnvInv, [Next]_vars
  PROVE  EnvInv'
<1> USE DEF EnvInv
<1>1. CASE LoadEnvLine
  <2>1. PICK line \in EnvLines :
          LET equals  == Find(line, "=", 1)
              ignored == IF line = <<>> THEN TRUE ELSE Head(line) = "#"
              ours    == Trim(Before(line, equals)) = <<"RABBITMQ_PASS">>
          IN  /\ lines' = Append(lines, line)
              /\ \/ ignored /\ UNCHANGED <<pc, pass>>
                 \/ pc' = "exit1"
                 \/ /\ ~ignored /\ equals # 0
                    /\ \E value \in Unquoted(Trim(After(line, equals))) :
                         /\ pc' = IF value = Undefined THEN "crash" ELSE pc
                         /\ pass' = IF ours /\ value # Undefined THEN value ELSE pass
    BY <1>1, Zenon DEF LoadEnvLine
  <2>2. line \in Seq(Words) /\ inherited' = inherited /\ pc = "env" /\ EnvironmentSays(pass)
    BY <1>1 DEF LoadEnvLine
  <2>3. lines' = Append(lines, line) /\ lines' \in Seq(EnvLines)
    BY <2>1
  <2>4. ASSUME SetsPassword(line)
        PROVE  /\ Find(line, "=", 1) # 0 /\ line # <<>> /\ Head(line) # "#"
               /\ Trim(Before(line, Find(line, "=", 1))) = <<"RABBITMQ_PASS">>
    <3>1. PICK n, e \in DOMAIN line : NamesPassword(line, n, e)
      BY <2>4 DEF SetsPassword
    <3> QED
      BY <2>2, <3>1, OursIsRead
  <2>5. CASE pc' \in {"exit1", "crash"}
    BY <2>3, <2>5
  <2>6. CASE (line = <<>> \/ Head(line) = "#") /\ pass' = pass
    BY <2>2, <2>3, <2>4, <2>6, LineSays
  <2>7. CASE /\ Find(line, "=", 1) # 0
             /\ \E value \in Unquoted(Trim(After(line, Find(line, "=", 1)))) :
                  /\ value # Undefined
                  /\ pass' = IF Trim(Before(line, Find(line, "=", 1))) = <<"RABBITMQ_PASS">>
                             THEN value ELSE pass
    <3>1. PICK e : e = Find(line, "=", 1)
      OBVIOUS
    <3>2. e \in 1..Len(line) /\ line[e] = "=" /\ DOMAIN line = 1..Len(line)
      BY <2>2, <2>7, <3>1, FoundAt
    <3>3. PICK value \in Unquoted(Trim(After(line, e))) :
             /\ value # Undefined
             /\ pass' = IF Trim(Before(line, e)) = <<"RABBITMQ_PASS">> THEN value ELSE pass
      BY <2>7, <3>1
    <3>4. CASE Trim(Before(line, e)) = <<"RABBITMQ_PASS">>
      <4>1. PICK n \in DOMAIN line : NamesPassword(line, n, e)
        BY <2>2, <3>2, <3>4, NameIsOurs DEF NamesPassword
      <4>2. GivesValue(line, e, pass')
        BY <2>2, <3>2, <3>3, <3>4, ValueIsGiven
      <4>3. SetsPassword(line) /\ MeansPassword(line, pass')
        BY <3>2, <4>1, <4>2 DEF SetsPassword, MeansPassword
      <4> QED
        BY <2>2, <2>3, <4>3, LineSays
    <3>5. CASE Trim(Before(line, e)) # <<"RABBITMQ_PASS">>
      <4>1. ~SetsPassword(line) /\ pass' = pass
        BY <2>4, <3>1, <3>3, <3>5
      <4> QED
        BY <2>2, <2>3, <4>1, LineSays
    <3> QED
      BY <3>4, <3>5
  <2> QED
    BY <2>1, <2>5, <2>6, <2>7
<1>2. CASE ~LoadEnvLine /\ Next
  <2>1. UNCHANGED <<lines, inherited, pass>>
    BY <1>2 DEF Next, ParseArgument, ParsedArguments, LoadedEnv, LoadJson, Wire, texts
  <2>2. pc \in {"args", "env", "json", "connect"}
    BY <1>2 DEF Next, ParseArgument, ParsedArguments, LoadedEnv, LoadJson, Wire
  <2> QED
    BY <2>1, <2>2 DEF EnvironmentSays
<1>3. CASE UNCHANGED vars
  BY <1>3 DEF vars, texts, EnvironmentSays
<1> QED
  BY <1>1, <1>2, <1>3

(* What the broker reads is the user and the password of the document, or  *)
(* what the last line of .env means, or the environment when no line says  *)
(* it; for any texts that may stand in them, provided no user's name holds *)
(* a NUL.                                                                  *)
THEOREM CredentialsAreSent ==
  ASSUME NEW CONSTANT Words, Texts \ {Unset} \subseteq Seq(Words), EnvLines \subseteq Seq(Words),
         \A d \in Documents : d.user # Unset /\ \A k \in DOMAIN d.user : d.user[k] # "NUL"
  PROVE  ProcessSpec => []CredentialsArrive
<1>1. TypeOK /\ Accepted /\ EnvInv => CredentialsArrive
  <2> SUFFICES ASSUME TypeOK, Accepted, EnvInv, pc = "loop"
               PROVE  CredentialsArrive
    BY DEF CredentialsArrive
  <2>1. /\ document \in Documents /\ Password(document) # Unset
        /\ address.login = Login(document.user, Password(document))
    BY DEF Accepted, Complete, AppConfig, Address
  <2>2. {document.user, document.password, document.pass, pass} \subseteq Texts
    BY <2>1, DocumentsHoldTexts DEF TypeOK
  <2>3. document.user \in Seq(Words) /\ Password(document) \in Seq(Words)
    BY <2>1, <2>2 DEF Password
  <2>4. Authenticates(saslPlain(address.login)) = <<document.user, Password(document)>>
    BY <2>1, <2>3, ResponseIsRead
  <2>5. EnvironmentSays(pass)
    BY DEF EnvInv
  <2>6. QED
    BY <2>1, <2>4, <2>5 DEF CredentialsArrive, Password
<1>2. EnvInv /\ [Next]_vars => EnvInv'
  BY EnvStep
<1>3. QED
  BY <1>1, <1>2, TypeInit, TypeStep, AcceptedInit, AcceptedStep, EnvInit, ProcessBegins,
     ProcessFollows, PTL DEF ProcessSpec

-----------------------------------------------------------------------------
(* Texts that are put together in another order. *)
Groups(s, t, u) == s \o t \o u = s \o (t \o u)
GroupsThree(p, a, b, c) == p \o a \o b \o c = p \o (a \o b \o c)
GroupsFour(p, a, b, c, d) == p \o a \o b \o c \o d = p \o (a \o b \o c \o d)

LEMMA Grouped ==
  ASSUME NEW T
  PROVE  /\ \A s, t, u \in Seq(T) : Groups(s, t, u)
         /\ \A p, a, b, c \in Seq(T) : GroupsThree(p, a, b, c)
         /\ \A p, a, b, c, d \in Seq(T) : GroupsFour(p, a, b, c, d)
<1>1. \A s, t, u \in Seq(T) : Groups(s, t, u)
  BY ConcatAssociative DEF Groups
<1>2. ASSUME NEW p \in Seq(T), NEW a \in Seq(T), NEW b \in Seq(T), NEW c \in Seq(T),
             NEW d \in Seq(T)
      PROVE  GroupsThree(p, a, b, c) /\ GroupsFour(p, a, b, c, d)
  <2> DEFINE ab  == a \o b
             abc == ab \o c
  <2>1. ab \in Seq(T) /\ abc \in Seq(T)
    BY ConcatProperties
  <2> HIDE DEF abc
  <2>2. Groups(p, a, b) /\ Groups(p, abc, d)
    BY <1>1, <2>1
  <2> HIDE DEF ab
  <2>3. Groups(p, ab, c)
    BY <1>1, <2>1
  <2> QED
    BY <2>2, <2>3, Zenon DEF Groups, GroupsThree, GroupsFour, ab, abc
<1> QED
  BY <1>1, <1>2, Zenon

LEMMA Headed ==
  ASSUME NEW T, NEW c \in T, NEW t \in Seq(T)
  PROVE  Head(<<c>> \o t) = c /\ Tail(<<c>> \o t) = t
<1> DEFINE s == <<c>> \o t
<1>1. /\ s \in Seq(T) /\ Len(s) = 1 + Len(t) /\ Len(t) \in Nat /\ s[1] = c
      /\ \A k \in 1..Len(t) : s[k + 1] = t[k]
  OBVIOUS
<1> HIDE DEF s
<1>2. s # <<>> /\ Head(s) = c
  BY <1>1
<1>3. /\ Tail(s) \in Seq(T) /\ Len(Tail(s)) = Len(s) - 1
      /\ \A k \in 1..Len(Tail(s)) : Tail(s)[k] = s[k + 1]
  BY <1>1, <1>2, HeadTailProperties
<1>4. Tail(s) = t
  BY <1>1, <1>3, SeqEqual
<1> QED
  BY <1>2, <1>4 DEF s

(* The login, in front of the first "@". *)
LEMMA LoginIsRead ==
  ASSUME NEW T, NEW user \in Seq(T), NEW password \in Seq(T), NEW rest \in Seq(T),
         ":" \in T, "@" \in T,
         Lacks(user, {":", "@"}),
         Lacks(password, {"@"})
  PROVE  LET login == Cut(user, ":", password)
             text  == Cut(login, "@", rest)
         IN  /\ UrlLogin(text) = Login(user, password)
             /\ login \in Seq(T)
             /\ Find(text, "@", 1) # 0 /\ After(text, Find(text, "@", 1)) = rest
<1> USE DEF Lacks
<1> DEFINE login == Cut(user, ":", password)
           text  == Cut(login, "@", rest)
           colon == Len(user) + 1
           at    == Len(login) + 1
<1>1. login \in Seq(T)
  BY CutParts
<1>2. Len(user) \in Nat /\ Len(password) \in Nat
  OBVIOUS
<1>3. \A k \in 1..Len(user) : user[k] # ":"
  OBVIOUS
<1>4. Before(login, colon) = user /\ After(login, colon) = password
  BY CutParts
<1>5. Find(login, ":", 1) = colon
  BY <1>3, CutFound
<1>6. \A k \in 1..Len(login) : login[k] # "@"
  BY <1>2 DEF Cut
<1> HIDE DEF login
<1>7. Len(login) \in Nat
  BY <1>1, LenProperties
<1>8. Before(text, at) = login /\ After(text, at) = rest
  BY <1>1, CutParts
<1>9. Find(text, "@", 1) = at
  BY <1>1, <1>6, CutFound
<1>10. at # 0
  BY <1>7
<1> HIDE DEF text, at, colon
<1>11. UrlLogin(text) = Login(user, password)
  BY <1>4, <1>5, <1>8, <1>9, <1>10 DEF UrlLogin
<1> QED
  BY <1>1, <1>8, <1>9, <1>10, <1>11 DEF text, login

(* The option that a connection takes: the interval of its heartbeats. *)
Heartbeating == [name \in {<<"heartbeat">>} |-> <<"60">>]

(* What is written of the one option. *)
LEMMA OptionsWritten ==
  /\ OptionsText(<<>>) = <<>>
  /\ OptionsText(Heartbeating) = <<"?">> \o Cut(<<"heartbeat">>, "=", <<"60">>)
<1>1. OptionsText(<<>>) = <<>>
  BY Zenon DEF OptionsText
<1> DEFINE h == Heartbeating
           beat == <<"heartbeat">>
           D == {beat}
           q == Cut(beat, "=", <<"60">>)
           p == <<"&">> \o q
           Written(name, text) == <<"&">> \o name \o <<"=">> \o h[name] \o text
           Turn(f) == [names \in SUBSET D |->
                         IF names = {} THEN <<>>
                         ELSE LET name == CHOOSE n \in names : TRUE
                              IN  Written(name, f[names \ {name}])]
           text == CHOOSE f : f = Turn(f)
           S == {"&", "heartbeat", "=", "60"}
           done == [names \in SUBSET D |-> IF names = {} THEN <<>> ELSE p]
<1>2. DOMAIN h = D /\ h[beat] = <<"60">> /\ h # <<>>
  <2>1. DOMAIN h = D /\ h[beat] = <<"60">>
    BY DEF Heartbeating
  <2>2. DOMAIN <<>> = {}
    OBVIOUS
  <2> QED
    BY <2>1, <2>2
<1>3. OptionsText(h) = <<"?">> \o Tail(text[D])
  BY <1>2 DEF OptionsText
<1>4. Written(beat, <<>>) = p
  <2> DEFINE amp == <<"&">>
             eq == <<"=">>
             v == <<"60">>
  <2>1. amp \in Seq(S) /\ beat \in Seq(S) /\ eq \in Seq(S) /\ v \in Seq(S)
    OBVIOUS
  <2>2. Written(beat, <<>>) = amp \o beat \o eq \o v \o <<>>
    BY <1>2
  <2>3. p = amp \o (beat \o eq \o v)
    BY DEF Cut
  <2> HIDE DEF amp, beat, eq, v, S, p, Written
  <2>4. /\ amp \o beat \in Seq(S) /\ beat \o eq \in Seq(S) /\ amp \o beat \o eq \in Seq(S)
        /\ amp \o beat \o eq \o v \in Seq(S)
    BY <2>1, ConcatProperties
  <2>5. amp \o beat \o eq \o v \o <<>> = amp \o beat \o eq \o v
    BY <2>4, ConcatEmptySeq
  <2>6. amp \o beat \o eq = amp \o (beat \o eq)
    BY <2>1, ConcatAssociative, SMTT(30)
  <2>7. amp \o (beat \o eq) \o v = amp \o (beat \o eq \o v)
    BY <2>1, <2>4, ConcatAssociative, SMTT(30)
  <2> QED
    BY <2>2, <2>3, <2>5, <2>6, <2>7, Zenon
<1>5. (CHOOSE n \in D : TRUE) = beat /\ D \ {beat} = {} /\ SUBSET D = {{}, D}
  OBVIOUS
<1> HIDE DEF h, beat, p, q, Written
<1>6. done = Turn(done)
  BY <1>4, <1>5
<1>7. text = Turn(text)
  BY <1>6
<1> HIDE DEF text
<1>8. text[D] = p
  BY <1>4, <1>5, <1>7
<1>9. Tail(p) = q
  <2>1. q \in Seq(S)
    BY DEF q, beat, Cut
  <2>2. "&" \in S
    OBVIOUS
  <2> HIDE DEF S
  <2> QED
    BY <2>1, <2>2, Headed DEF p
<1> QED
  BY <1>1, <1>3, <1>8, <1>9 DEF h, beat, q

(* What is read of it. *)
LEMMA OptionsRead ==
  /\ Options(<<>>) = <<>>
  /\ Options(Cut(<<"heartbeat">>, "=", <<"60">>)) = Heartbeating
<1> DEFINE bars(t) == {0, Len(t) + 1} \cup {k \in DOMAIN t : t[k] = "&"}
           Piece(t, k) == SubSeq(t, k + 1, Min({b \in bars(t) : b > k}) - 1)
           Name(p) == Before(p, Find(p, "=", 1))
           pieces(t) == {Piece(t, k) : k \in bars(t) \ {Len(t) + 1}} \ {<<>>}
           Named(P) == [n \in {Name(p) : p \in P} |-> LET p == CHOOSE q \in P : Name(q) = n
                                                      IN  After(p, Find(p, "=", 1))]
<1>1. \A t : Options(t) = Named(pieces(t))
  BY Zenon DEF Options
<1>2. ASSUME NEW t, bars(t) \ {Len(t) + 1} = {0}
      PROVE  pieces(t) = {Piece(t, 0)} \ {<<>>}
  <2> HIDE DEF Piece, bars
  <2> QED
    BY <1>2
<1>3. ASSUME NEW m \in Nat PROVE Min({m}) = m
  BY DEF Min
<1>4. Options(<<>>) = <<>>
  <2>1. bars(<<>>) = {0, 1} /\ Len(<<>>) = 0
    OBVIOUS
  <2>2. bars(<<>>) \ {1} = {0} /\ {b \in bars(<<>>) : b > 0} = {1}
    BY <2>1
  <2>3. Piece(<<>>, 0) = SubSeq(<<>>, 1, 0)
    BY <1>3, <2>2
  <2>4. SubSeq(<<>>, 1, 0) = <<>>
    BY SubSeqEmpty
  <2>5. pieces(<<>>) = {}
    <3>1. bars(<<>>) \ {Len(<<>>) + 1} = {0}
      BY <2>1, <2>2
    <3> HIDE DEF pieces, Piece, bars
    <3> QED
      BY <1>2, <2>3, <2>4, <3>1
  <2>6. Named({}) = <<>>
    OBVIOUS
  <2> HIDE DEF Named, pieces
  <2> QED
    BY <1>1, <2>5, <2>6
<1> DEFINE t == Cut(<<"heartbeat">>, "=", <<"60">>)
           S == {"heartbeat", "=", "60"}
<1>5. /\ t \in Seq(S) /\ Len(t) = 3 /\ t[1] = "heartbeat" /\ t[2] = "=" /\ t[3] = "60"
      /\ Before(t, 2) = <<"heartbeat">> /\ After(t, 2) = <<"60">> /\ Find(t, "=", 1) = 2
  <2>1. t \in Seq(S) /\ Len(t) = 3 /\ t[1] = "heartbeat" /\ t[2] = "=" /\ t[3] = "60"
    BY DEF Cut
  <2>2. <<"heartbeat">> \in Seq(S) /\ <<"60">> \in Seq(S) /\ Len(<<"heartbeat">>) = 1
    OBVIOUS
  <2>3. Before(t, 2) = <<"heartbeat">> /\ After(t, 2) = <<"60">>
    <3> DEFINE s == <<"heartbeat">>
               v == <<"60">>
    <3>1. s \in Seq(S) /\ v \in Seq(S) /\ "=" \in S /\ Len(s) + 1 = 2 /\ t = Cut(s, "=", v)
      BY <2>2
    <3> HIDE DEF S, s, v, t
    <3>2. Before(Cut(s, "=", v), Len(s) + 1) = s /\ After(Cut(s, "=", v), Len(s) + 1) = v
      BY <3>1, CutParts
    <3> QED
      BY <3>1, <3>2 DEF s, v
  <2>4. Find(t, "=", 1) = 2
    BY <2>1, FindIs
  <2> QED
    BY <2>1, <2>3, <2>4
<1> HIDE DEF t
<1>6. pieces(t) = {t}
  <2>1. bars(t) = {0, 4}
    BY <1>5
  <2>2. bars(t) \ {4} = {0} /\ {b \in bars(t) : b > 0} = {4}
    BY <2>1
  <2>3. Piece(t, 0) = SubSeq(t, 1, 3)
    BY <1>3, <2>2
  <2>4. SubSeq(t, 1, 3) = t
    BY <1>5, SubSeqFull
  <2>5. t # <<>>
    BY <1>5
  <2>6. bars(t) \ {Len(t) + 1} = {0}
    BY <1>5, <2>2
  <2> HIDE DEF pieces, Piece, bars
  <2> QED
    BY <1>2, <2>3, <2>4, <2>5, <2>6
<1>7. Named({t}) = Heartbeating
  BY <1>5 DEF Heartbeating
<1> HIDE DEF pieces, Named
<1> QED
  BY <1>1, <1>4, <1>6, <1>7 DEF t

-----------------------------------------------------------------------------
LEMMA Remainder == ASSUME NEW n \in Nat, NEW d \in Nat \ {0}, n < d PROVE n % d = n
  OBVIOUS

(* What a number is written as tells it from the others and from the       *)
(* separators.                                                             *)
Digits ==
  \A n \in Numbers : /\ ToString(n) \notin {":", "/", "?", "@"}
                     /\ \A k \in Numbers : ToString(k) = ToString(n) => k = n

LEMMA NumberIsRead ==
  ASSUME Digits, NEW n \in Numbers, n \in 0..PortRange - 1
  PROVE  atoi(<<ToString(n)>>) = n
<1>1. \A k \in Numbers : <<ToString(n)>> = <<ToString(k)>> <=> k = n
  BY DEF Digits
<1>2. (CHOOSE k \in Numbers : <<ToString(n)>> = <<ToString(k)>>) = n
  BY <1>1
<1>3. n % PortRange = n
  BY NumbersAssumption, Remainder
<1> QED
  BY <1>2, <1>3 DEF atoi

(* The host in front of the "/", with the port if it is not 5672. *)
HostPart(host, n) == IF n # 5672 THEN Cut(host, ":", <<ToString(n)>>) ELSE host

WritesHost(host, n) ==
  host \o (IF n # 5672 THEN <<":", ToString(n)>> ELSE <<>>) = HostPart(host, n)

LEMMA HostWritten ==
  ASSUME NEW T, NEW host \in Seq(T), NEW n, ":" \in T, ToString(n) \in T
  PROVE  WritesHost(host, n)
<1> USE DEF WritesHost
<1> DEFINE d == ToString(n)
           c == <<":">>
<1>1. CASE n # 5672
  <2>1. d \in T
    OBVIOUS
  <2> HIDE DEF d
  <2>2. <<":", d>> = c \o <<d>> /\ c \in Seq(T) /\ <<d>> \in Seq(T)
    BY <2>1
  <2> HIDE DEF c
  <2>3. Groups(host, c, <<d>>)
    BY <2>2, Grouped
  <2> USE DEF c
  <2>4. HostPart(host, n) = host \o c \o <<d>>
    BY <1>1 DEF HostPart, Cut, d
  <2> HIDE DEF c
  <2> QED
    BY <1>1, <2>2, <2>3, <2>4 DEF Groups, d
<1>2. CASE n = 5672
  BY <1>2, ConcatEmptySeq DEF HostPart
<1> QED
  BY <1>1, <1>2

LEMMA HostIsRead ==
  ASSUME Digits, NEW T, NEW host \in Seq(T), NEW n \in Numbers, n \in 0..PortRange - 1,
         NEW more \in Seq(T), {":", "/", ToString(n)} \subseteq T,
         Lacks(host, {":", "/"}),
         NEW secure \in BOOLEAN, ~(secure /\ n = 5672)
  PROVE  LET part   == HostPart(host, n)
             rest   == Cut(part, "/", more)
             slash  == Find(rest, "/", 1)
             colon  == Find(rest, ":", 1)
             ported == colon # 0 /\ (slash = 0 \/ colon < slash)
         IN  /\ part \in Seq(T) /\ slash = Len(part) + 1
             /\ Before(rest, IF ported THEN colon ELSE slash) = host
             /\ n = IF ported THEN atoi(After(Before(rest, slash), colon)) ELSE defaultport(secure)
<1> USE DEF Lacks
<1> DEFINE part   == HostPart(host, n)
           rest   == Cut(part, "/", more)
           slash  == Find(rest, "/", 1)
           colon  == Find(rest, ":", 1)
           digits == <<ToString(n)>>
<1>1. /\ Len(host) \in Nat /\ ToString(n) # "/" /\ digits \in Seq(T) /\ Len(digits) = 1
      /\ \A k \in 1..Len(host) : host[k] # ":" /\ host[k] # "/"
  BY DEF Digits
<1>2. part \in Seq(T) /\ \A k \in 1..Len(part) : part[k] # "/"
  BY <1>1 DEF HostPart, Cut
<1>3. Len(part) \in Nat
  BY <1>2, LenProperties
<1> HIDE DEF part
<1>4. slash = Len(part) + 1
  BY <1>2, CutFound
<1>5. Before(rest, slash) = part
  BY <1>2, <1>4, CutParts
<1>6. CASE n # 5672
  <2>1. part = Cut(host, ":", digits)
    BY <1>6 DEF part, HostPart
  <2> DEFINE tail == digits \o <<"/">> \o more
  <2>2. tail \in Seq(T)
    BY <1>1
  <2>3. rest = Cut(host, ":", tail)
    BY <1>1, <2>1, SMTT(30) DEF Cut
  <2>4. Len(part) = Len(host) + 2
    BY <1>1, <2>1 DEF Cut
  <2> HIDE DEF rest, tail, digits
  <2>5. colon = Len(host) + 1
    BY <1>1, <2>2, <2>3, CutFound
  <2>6. Before(rest, colon) = host
    BY <2>2, <2>3, <2>5, CutParts
  <2>7. After(part, colon) = digits
    BY <1>1, <2>1, <2>5, CutParts
  <2>8. colon # 0 /\ colon < slash
    BY <1>1, <1>4, <2>4, <2>5
  <2>9. atoi(digits) = n
    BY NumberIsRead DEF digits
  <2> HIDE DEF slash, colon
  <2> QED
    BY <1>2, <1>4, <1>5, <2>6, <2>7, <2>8, <2>9 DEF part, rest, slash, colon
<1>7. CASE n = 5672
  <2>1. part = host
    BY <1>7 DEF part, HostPart
  <2> DEFINE m == Len(host) + 1
  <2>2. /\ rest \in Seq(T) /\ m \in 0..Len(rest) /\ rest[m] = "/"
        /\ \A k \in 1..Len(host) : rest[k] = host[k]
    BY <1>1, <2>1 DEF Cut
  <2>3. \A k \in 1..m : rest[k] # ":"
    <3>1. ASSUME NEW k \in 1..m PROVE k \in 1..Len(host) \/ k = m
      BY <1>1
    <3> QED
      BY <1>1, <2>2, <3>1
  <2> HIDE DEF rest, m
  <2>4. colon = 0 \/ (colon \in Nat /\ colon > m)
    BY <2>2, <2>3, FindBeyond
  <2>5. slash = m /\ m # 0 /\ m \in Nat
    BY <1>3, <1>4, <2>1 DEF m
  <2>6. ~(colon # 0 /\ (slash = 0 \/ colon < slash))
    <3> HIDE DEF slash, colon
    <3> QED
      BY <2>4, <2>5
  <2>7. defaultport(secure) = n
    BY <1>7 DEF defaultport
  <2> HIDE DEF slash, colon
  <2> QED
    BY <1>2, <1>4, <1>5, <2>1, <2>6, <2>7 DEF part, rest, slash, colon
<1> QED
  BY <1>6, <1>7

(* The vhost and the options, behind it. *)
VhostPart(vhost) == IF vhost # <<"/">> THEN vhost ELSE <<>>

LEMMA VhostIsRead ==
  ASSUME NEW T, NEW part \in Seq(T), NEW vhost \in Seq(T), NEW options \in {<<>>, Heartbeating},
         {"/", "?", "=", "heartbeat", "60"} \subseteq T,
         Lacks(vhost, {"?"}),
         vhost # IF options = <<>> THEN <<>> ELSE <<"/">>
  PROVE  LET more  == VhostPart(vhost) \o OptionsText(options)
             rest  == Cut(part, "/", more)
             slash == Len(part) + 1
             qm    == Find(rest, "?", slash)
         IN  /\ more \in Seq(T)
             /\ Options(After(rest, qm)) = options
             /\ vhost = IF slash = 0 \/ slash = Len(rest) THEN <<"/">>
                        ELSE After(Before(rest, qm), slash)
<1> USE DEF Lacks
<1> DEFINE V     == VhostPart(vhost)
           more  == V \o OptionsText(options)
           rest  == Cut(part, "/", more)
           slash == Len(part) + 1
           qm    == Find(rest, "?", slash)
           q     == Cut(<<"heartbeat">>, "=", <<"60">>)
<1>1. /\ V \in Seq(T) /\ \A k \in 1..Len(V) : V[k] # "?"
      /\ Len(part) \in Nat /\ Len(V) \in Nat /\ slash # 0
  BY DEF VhostPart
<1>2. Heartbeating # <<>>
  <2>1. DOMAIN Heartbeating = {<<"heartbeat">>}
    BY DEF Heartbeating
  <2>2. DOMAIN <<>> = {}
    OBVIOUS
  <2> QED
    BY <2>1, <2>2
<1>3. CASE options = <<>>
  <2>1. more = V
    <3>1. V \o <<>> = V
      BY <1>1, ConcatEmptySeq
    <3> QED
      BY <1>3, <3>1, OptionsWritten
  <2> HIDE DEF more
  <2>2. /\ rest \in Seq(T) /\ Len(rest) = slash + Len(V) /\ rest[slash] = "/"
        /\ \A k \in 1..Len(V) : rest[slash + k] = V[k]
    BY <1>1, <2>1 DEF Cut
  <2>3. After(rest, slash) = V
    BY <1>1, <2>1, CutParts
  <2> HIDE DEF rest, V
  <2>4. \A k \in slash..Len(rest) : rest[k] # "?"
    <3>1. ASSUME NEW k \in slash..Len(rest), k # slash PROVE rest[k] # "?"
      <4>1. k - slash \in 1..Len(V) /\ slash + (k - slash) = k
        BY <1>1, <2>2, <3>1
      <4> QED
        BY <1>1, <2>2, <4>1
    <3> QED
      BY <2>2, <3>1
  <2>5. qm = 0
    BY <2>4, FindNone
  <2>6. After(rest, qm) = <<>> /\ Before(rest, qm) = rest
    BY <2>5 DEF After, Before
  <2>7. vhost = IF slash = Len(rest) THEN <<"/">> ELSE V
    <3>1. vhost # <<>>
      BY <1>3
    <3>2. CASE vhost = <<"/">>
      <4>1. V = <<>>
        BY <3>2 DEF V, VhostPart
      <4> QED
        BY <1>1, <2>2, <3>2, <4>1
    <3>3. CASE vhost # <<"/">>
      <4>1. V = vhost /\ V # <<>>
        BY <3>1, <3>3 DEF V, VhostPart
      <4>2. Len(V) > 0
        BY <1>1, <4>1, EmptySeq
      <4> QED
        BY <1>1, <2>2, <4>1, <4>2
    <3> QED
      BY <3>2, <3>3
  <2>8. more \in Seq(T)
    BY <1>1, <2>1
  <2> HIDE DEF qm, slash
  <2> QED
    BY <1>1, <1>3, <2>3, <2>6, <2>7, <2>8, OptionsRead DEF rest, more, V, slash, qm
<1>4. CASE options = Heartbeating
  <2> DEFINE before == Cut(part, "/", V)
  <2>1. vhost = V
    BY <1>2, <1>4 DEF VhostPart
  <2>2. q \in Seq(T)
    BY DEF Cut
  <2>3. more = V \o (<<"?">> \o q)
    BY <1>4, OptionsWritten
  <2> HIDE DEF q, V
  <2> DEFINE mark == <<"?">>
             bar == <<"/">>
  <2>4. mark \in Seq(T) /\ bar \in Seq(T)
    OBVIOUS
  <2>5. /\ more \in Seq(T) /\ Len(more) = Len(V) + 1 + Len(q) /\ Len(q) \in Nat
        /\ before \in Seq(T) /\ Len(before) = slash + Len(V)
    BY <1>1, <2>2, <2>3 DEF Cut
  <2>6. rest = Cut(before, "?", q)
    <3>1. rest = part \o bar \o (V \o (mark \o q))
      BY <2>3 DEF Cut
    <3>2. Cut(before, "?", q) = part \o bar \o V \o mark \o q
      BY DEF Cut
    <3>3. part \o bar \in Seq(T)
      BY <2>4, ConcatProperties
    <3>4. V \in Seq(T) /\ mark \in Seq(T) /\ q \in Seq(T)
      BY <1>1, <2>2, <2>4
    <3> HIDE DEF rest, before, mark, bar
    <3>5. GroupsThree(part \o bar, V, mark, q) /\ Groups(V, mark, q)
      BY <3>3, <3>4, Grouped
    <3> QED
      BY <3>1, <3>2, <3>5, Zenon DEF GroupsThree, Groups
  <2>7. After(before, slash) = V
    BY <1>1, CutParts
  <2>8. \A k \in slash..Len(before) : before[k] # "?"
    <3>1. before[slash] = "/" /\ \A k \in 1..Len(V) : before[slash + k] = V[k]
      BY <1>1 DEF Cut
    <3> HIDE DEF before
    <3>2. ASSUME NEW k \in slash..Len(before), k # slash PROVE before[k] # "?"
      <4>1. k - slash \in 1..Len(V) /\ slash + (k - slash) = k
        BY <1>1, <2>5, <3>2
      <4> QED
        BY <1>1, <3>1, <4>1
    <3> QED
      BY <2>5, <3>1, <3>2
  <2> HIDE DEF before, more
  <2>9. slash \in 1..Len(before) + 1
    BY <1>1, <2>5
  <2>10. before \in Seq(T) /\ q \in Seq(T) /\ "?" \in T
    BY <2>2, <2>5
  <2>11. qm = Len(before) + 1
    <3> HIDE DEF slash
    <3>1. Find(Cut(before, "?", q), "?", slash) = Len(before) + 1
      BY <2>8, <2>9, <2>10, CutFoundFrom
    <3> HIDE DEF rest
    <3> QED
      BY <2>6, <3>1
  <2>12. Before(rest, qm) = before /\ After(rest, qm) = q
    <3>1. /\ Before(Cut(before, "?", q), Len(before) + 1) = before
          /\ After(Cut(before, "?", q), Len(before) + 1) = q
      BY <2>10, CutParts
    <3> HIDE DEF rest, qm
    <3> QED
      BY <2>6, <2>11, <3>1
  <2>13. Len(rest) # slash
    BY <1>1, <2>5 DEF Cut
  <2> HIDE DEF rest, qm, slash
  <2>14. Options(After(rest, qm)) = options
    BY <1>4, <2>12, OptionsRead DEF q
  <2>15. After(Before(rest, qm), slash) = vhost
    BY <2>1, <2>7, <2>12
  <2> QED
    BY <1>1, <2>5, <2>13, <2>14, <2>15 DEF rest, more, slash, qm, V
<1> QED
  BY <1>3, <1>4

-----------------------------------------------------------------------------
GroupsUrl(sch, user, c, password, at, host, P, sl, V, O) ==
  sch \o user \o c \o password \o at \o host \o P \o sl \o V \o O
    = sch \o (user \o c \o password \o at \o (host \o P \o sl \o (V \o O)))

LEMMA UrlGrouped ==
  ASSUME NEW T, NEW sch \in Seq(T), NEW user \in Seq(T), NEW c \in Seq(T),
         NEW password \in Seq(T), NEW at \in Seq(T), NEW host \in Seq(T), NEW P \in Seq(T),
         NEW sl \in Seq(T), NEW V \in Seq(T), NEW O \in Seq(T)
  PROVE  GroupsUrl(sch, user, c, password, at, host, P, sl, V, O)
<1> DEFINE K == user \o c \o password \o at
           H == host \o P \o sl
           M == K \o host \o P \o sl
           X == V \o O
<1>1. K \in Seq(T)
  BY ConcatProperties
<1>2. H \in Seq(T)
  BY ConcatProperties
<1>3. X \in Seq(T)
  BY ConcatProperties
<1> HIDE DEF K
<1>4. M \in Seq(T)
  BY <1>1, ConcatProperties
<1> HIDE DEF M, H, X
<1>5. GroupsFour(sch, user, c, password, at) /\ GroupsFour(sch, K, host, P, sl)
  BY <1>1, Grouped
<1>6. GroupsThree(K, host, P, sl) /\ GroupsThree(sch, M, V, O)
  BY <1>1, <1>4, Grouped
<1>7. Groups(M, V, O) /\ Groups(K, H, X)
  BY <1>1, <1>2, <1>3, <1>4, Grouped
<1> USE DEF Groups, GroupsThree, GroupsFour
<1>8. sch \o user \o c \o password \o at = sch \o K
  BY <1>5, Zenon DEF K
<1>9. sch \o K \o host \o P \o sl = sch \o M
  BY <1>5, Zenon DEF M
<1>10. M = K \o H
  BY <1>6, Zenon DEF M, H
<1>11. sch \o M \o V \o O = sch \o (M \o V \o O)
  BY <1>6, Zenon
<1>12. M \o V \o O = M \o X
  BY <1>7, Zenon DEF X
<1>13. K \o H \o X = K \o (H \o X)
  BY <1>7, Zenon
<1>14. sch \o user \o c \o password \o at \o host \o P \o sl \o V \o O = sch \o M \o V \o O
  BY <1>8, <1>9, Zenon
<1> QED
  BY <1>10, <1>11, <1>12, <1>13, <1>14, Zenon DEF K, H, X, GroupsUrl

(* A URL is read as the address it was written from. *)
UrlReads(secure, user, password, host, n, vhost, options) ==
  LET a == [secure |-> secure, login |-> Login(user, password), options |-> options,
            vhost |-> vhost, hostname |-> host, port |-> n]
  IN  Parse(ToUrl(a)) = a

LEMMA UrlIsRead ==
  ASSUME Digits, NEW T,
         {"amqps://", "amqp://", ":", "@", "/", "?", "=", "heartbeat", "60"} \subseteq T,
         NEW secure \in BOOLEAN, NEW options \in {<<>>, Heartbeating},
         NEW user \in Seq(T), NEW password \in Seq(T), NEW host \in Seq(T), NEW vhost \in Seq(T),
         NEW n \in Numbers, n \in 0..PortRange - 1, ToString(n) \in T,
         Lacks(user, {":", "@"}),
         Lacks(password, {"@"}),
         Lacks(host, {":", "/"}),
         Lacks(vhost, {"?"}),
         ~(secure /\ n = 5672), vhost # IF options = <<>> THEN <<>> ELSE <<"/">>
  PROVE  UrlReads(secure, user, password, host, n, vhost, options)
<1> DEFINE a == [secure |-> secure, login |-> Login(user, password), options |-> options,
                 vhost |-> vhost, hostname |-> host, port |-> n]
           login  == Cut(user, ":", password)
           part   == HostPart(host, n)
           more   == VhostPart(vhost) \o OptionsText(options)
           rest   == Cut(part, "/", more)
           text   == Cut(login, "@", rest)
           scheme == <<IF secure THEN "amqps://" ELSE "amqp://">>
           slash  == Find(rest, "/", 1)
           qm     == Find(rest, "?", slash)
           colon  == Find(rest, ":", 1)
           ported == colon # 0 /\ (slash = 0 \/ colon < slash)
<1>1. part \in Seq(T)
  BY DEF HostPart, Cut
<1>2. /\ more \in Seq(T)
      /\ LET s == Len(part) + 1
             q == Find(rest, "?", s)
         IN  /\ Options(After(rest, q)) = options
             /\ vhost = IF s = 0 \/ s = Len(rest) THEN <<"/">> ELSE After(Before(rest, q), s)
  <2>1. part \in Seq(T)
    BY <1>1
  <2> HIDE DEF part
  <2> QED
    BY <2>1, VhostIsRead, SMTT(30)
<1> HIDE DEF more
<1>3. /\ slash = Len(part) + 1
      /\ Before(rest, IF ported THEN colon ELSE slash) = host
      /\ n = IF ported THEN atoi(After(Before(rest, slash), colon)) ELSE defaultport(secure)
  BY <1>2, HostIsRead
<1> HIDE DEF part
<1>4. rest \in Seq(T)
  BY <1>1, <1>2, CutParts
<1> HIDE DEF rest
<1>5. /\ UrlLogin(text) = Login(user, password)
      /\ login \in Seq(T)
      /\ Find(text, "@", 1) # 0 /\ After(text, Find(text, "@", 1)) = rest
  BY <1>4, LoginIsRead
<1> HIDE DEF login
<1>6. text \in Seq(T)
  BY <1>4, <1>5, CutParts
<1> HIDE DEF text
<1>7. ToUrl(a) = scheme \o text
  <2> DEFINE P == IF n # 5672 THEN <<":", ToString(n)>> ELSE <<>>
             V == VhostPart(vhost)
             O == OptionsText(options)
             at == <<"@">>
             sl == <<"/">>
             c == <<":">>
  <2>1. P \in Seq(T) /\ V \in Seq(T) /\ at \in Seq(T) /\ sl \in Seq(T) /\ c \in Seq(T)
    BY DEF VhostPart
  <2>2. O \in Seq(T)
    <3>1. CASE options = <<>>
      <4>1. OptionsText(<<>>) = <<>>
        BY OptionsWritten, Zenon
      <4>2. <<>> \in Seq(T)
        OBVIOUS
      <4> QED
        BY <3>1, <4>1, <4>2, ZenonT(40)
    <3>2. CASE options = Heartbeating
      <4> DEFINE q == Cut(<<"heartbeat">>, "=", <<"60">>)
      <4>1. q \in Seq(T)
        BY DEF Cut
      <4> HIDE DEF q
      <4>2. <<"?">> \o q \in Seq(T)
        BY <4>1
      <4> QED
        BY <3>2, <4>2, OptionsWritten DEF q
    <3> QED
      BY <3>1, <3>2
  <2>3. login = user \o c \o password
    BY DEF login, Cut
  <2>4. host \o P = part
    <3>1. ":" \in T
      OBVIOUS
    <3>2. WritesHost(host, n)
      BY <3>1, HostWritten
    <3> QED
      BY <3>2, ZenonT(40) DEF WritesHost, part
  <2>5. scheme \in Seq(T)
    OBVIOUS
  <2>6. ToUrl(a) = scheme \o user \o c \o password \o at \o host \o P \o sl \o V \o O
    <3>1. /\ a.secure = secure /\ a.login.user = user /\ a.login.password = password
          /\ a.hostname = host /\ a.port = n /\ a.vhost = vhost /\ a.options = options
      BY DEF Login
    <3> DEFINE Written(sec, us, pw, h, m, v, o) ==
                 <<IF sec THEN "amqps://" ELSE "amqp://">>
                   \o us \o c \o pw \o at \o h \o (IF m # 5672 THEN <<":", ToString(m)>> ELSE <<>>)
                   \o sl \o VhostPart(v) \o OptionsText(o)
    <3> HIDE DEF a
    <3>2. ToUrl(a) = Written(a.secure, a.login.user, a.login.password, a.hostname, a.port, a.vhost,
                             a.options)
      BY ZenonT(40) DEF ToUrl, VhostPart
    <3>3. Written(secure, user, password, host, n, vhost, options)
            = scheme \o user \o c \o password \o at \o host \o P \o sl \o V \o O
      BY ZenonT(40)
    <3> HIDE DEF Written
    <3>4. ToUrl(a) = Written(secure, user, password, host, n, vhost, options)
      BY <3>1, <3>2
    <3> HIDE DEF scheme, P, V, O, at, sl, c
    <3> QED
      BY <3>3, <3>4
  <2> HIDE DEF scheme, P, V, O, at, sl, c
  <2>7. GroupsUrl(scheme, user, c, password, at, host, P, sl, V, O)
    BY <2>1, <2>2, <2>5, UrlGrouped
  <2>8. login \o at \o (part \o sl \o (V \o O)) = text
    BY Zenon DEF text, rest, more, Cut, at, sl, V, O
  <2> QED
    BY <2>3, <2>4, <2>6, <2>7, <2>8, Zenon DEF GroupsUrl
<1>8. /\ Head(ToUrl(a)) = IF secure THEN "amqps://" ELSE "amqp://"
      /\ Tail(ToUrl(a)) = text
  <2> DEFINE word == IF secure THEN "amqps://" ELSE "amqp://"
  <2>1. word \in T
    OBVIOUS
  <2> HIDE DEF word
  <2>2. Head(<<word>> \o text) = word /\ Tail(<<word>> \o text) = text
    BY <1>6, <2>1, Headed
  <2> QED
    BY <1>7, <2>2 DEF word
<1>9. (Head(ToUrl(a)) = "amqps://") = secure
  BY <1>8
<1> DEFINE url == ToUrl(a)
<1> HIDE DEF url, scheme, slash, qm, colon, ported
<1>10. Parse(url) = [secure   |-> secure, login |-> UrlLogin(text),
                     options  |-> Options(After(rest, qm)),
                     vhost    |-> IF slash = 0 \/ slash = Len(rest) THEN <<"/">>
                                  ELSE After(Before(rest, qm), slash),
                     hostname |-> Before(rest, IF ported THEN colon ELSE slash),
                     port     |-> IF ported THEN atoi(After(Before(rest, slash), colon))
                                  ELSE defaultport(secure)]
  <2> DEFINE At(t) == Find(t, "@", 1)
             Rest(t) == IF At(t) = 0 THEN t ELSE After(t, At(t))
             Slash(r) == Find(r, "/", 1)
             Qm(r) == Find(r, "?", IF Slash(r) = 0 THEN 1 ELSE Slash(r))
             Colon(r) == Find(r, ":", 1)
             Ported(r) == Colon(r) # 0 /\ (Slash(r) = 0 \/ Colon(r) < Slash(r))
             Result(h, t, r) ==
               [secure   |-> h = "amqps://", login |-> UrlLogin(t),
                options  |-> Options(After(r, Qm(r))),
                vhost    |-> IF Slash(r) = 0 \/ Slash(r) = Len(r) THEN <<"/">>
                             ELSE After(Before(r, Qm(r)), Slash(r)),
                hostname |-> Before(r, IF Ported(r) THEN Colon(r) ELSE Slash(r)),
                port     |-> IF Ported(r) THEN atoi(After(Before(r, Slash(r)), Colon(r)))
                             ELSE defaultport(h = "amqps://")]
             word == IF secure THEN "amqps://" ELSE "amqp://"
  <2>1. Head(url) = word /\ (word = "amqps://") = secure
    BY <1>8 DEF url
  <2>2. Rest(text) = rest
    BY <1>5
  <2>3. Tail(url) = text
    BY <1>8 DEF url
  <2>4. Parse(url) = Result(Head(url), Tail(url), Rest(Tail(url)))
    BY DEF Parse
  <2>5. Result(word, text, rest) = [secure   |-> secure, login |-> UrlLogin(text),
                     options  |-> Options(After(rest, qm)),
                     vhost    |-> IF slash = 0 \/ slash = Len(rest) THEN <<"/">>
                                  ELSE After(Before(rest, qm), slash),
                     hostname |-> Before(rest, IF ported THEN colon ELSE slash),
                     port     |-> IF ported THEN atoi(After(Before(rest, slash), colon))
                                  ELSE defaultport(secure)]
    <3>1. slash # 0
      BY <1>1, <1>3, LenProperties
    <3> HIDE DEF word
    <3> QED
      BY <2>1, <3>1 DEF slash, qm, colon, ported
  <2> HIDE DEF Result, Rest, word
  <2> QED
    BY <2>1, <2>2, <2>3, <2>4, <2>5, ZenonT(40)
<1>11. Parse(url) = a
  BY <1>2, <1>3, <1>5, <1>10 DEF slash, qm, colon, ported
<1> QED
  BY <1>11, Zenon DEF url, UrlReads

(* A document whose texts end where their separators are. *)
Separable(d) ==
  /\ d.user # Unset /\ Lacks(d.user, {":"})
  /\ d.vhost # Unset /\ Lacks(d.vhost, {"?"})
  /\ Lacks(d.host, {":", "/"})
  /\ d.port % PortRange \in Numbers

(* The address that the daemon connects to is read back from its URL: for  *)
(* any texts and numbers in the documents, the .env file and the           *)
(* environment, provided that no text holds an "@", no user's name a ":",  *)
(* no host a ":" or "/", and no vhost a "?".                               *)
THEOREM AddressIsReadBack ==
  ASSUME NEW CONSTANT Words, Digits,
         Texts \ {Unset} \subseteq Seq(Words), \A d \in Documents : d.host \in Seq(Words),
         \A t \in Texts \ {Unset} : Lacks(t, {"@"}),
         \A d \in Documents : Separable(d)
  PROVE  ProcessSpec => []AddressReadsBack
<1> DEFINE T == Words \cup {"amqps://", "amqp://", ":", "@", "/", "?", "=", "heartbeat", "60"}
                  \cup {ToString(n) : n \in Numbers}
<1>1. TypeOK /\ Accepted => AddressReadsBack
  <2> DEFINE With(s, o) == [address EXCEPT !.secure = s, !.options = o]
  <2> DEFINE Goal(s, o) ==
               /\ ~(s /\ With(s, o).port = 5672)
               /\ With(s, o).vhost # IF o = <<>> THEN <<>> ELSE <<"/">>
               => Parse(ToUrl(With(s, o))) = With(s, o)
  <2> SUFFICES ASSUME TypeOK, Accepted, pc = "loop",
                      NEW secure \in BOOLEAN, NEW options \in {<<>>, Heartbeating}
               PROVE  Goal(secure, options)
    <3>1. AddressReadsBack
            <=> (pc = "loop" => \A s \in BOOLEAN, o \in {<<>>, Heartbeating} : Goal(s, o))
      BY ZenonT(40) DEF AddressReadsBack, Heartbeating
    <3> HIDE DEF Goal
    <3> QED
      BY <3>1
  <2> SUFFICES ASSUME ~(secure /\ With(secure, options).port = 5672),
                      With(secure, options).vhost # IF options = <<>> THEN <<>> ELSE <<"/">>
               PROVE  Parse(ToUrl(With(secure, options))) = With(secure, options)
    OBVIOUS
  <2> DEFINE d == document
             n == d.port % PortRange
             p == Password(d)
             a == [secure |-> secure, login |-> Login(d.user, p), options |-> options,
                   vhost |-> d.vhost, hostname |-> d.host, port |-> n]
  <2>1. /\ d \in Documents /\ p # Unset
        /\ address = [secure |-> FALSE, login |-> Login(d.user, p), hostname |-> d.host,
                      port |-> n % PortRange, vhost |-> d.vhost, options |-> <<>>]
    BY DEF Accepted, Complete, AppConfig, Address
  <2>2. n \in 0..PortRange - 1 /\ n % PortRange = n
    <3>1. n \in Nat /\ n < PortRange /\ PortRange \in Nat \ {0}
      BY <2>1, NumbersAssumption
    <3> QED
      BY <3>1, Remainder
  <2>3. address = [secure |-> FALSE, login |-> Login(d.user, p), hostname |-> d.host,
                   port |-> n, vhost |-> d.vhost, options |-> <<>>]
    BY <2>1, <2>2, ZenonT(40)
  <2>4. With(secure, options) = a /\ a.port = n /\ a.vhost = d.vhost
    <3> DEFINE b == [secure |-> FALSE, login |-> Login(d.user, p), hostname |-> d.host,
                     port |-> n, vhost |-> d.vhost, options |-> <<>>]
    <3> HIDE DEF d, n, p
    <3> DEFINE c == [secure |-> secure, login |-> Login(d.user, p), hostname |-> d.host,
                     port |-> n, vhost |-> d.vhost, options |-> <<>>]
    <3>1. [b EXCEPT !.secure = secure] = c
      OBVIOUS
    <3>2. [c EXCEPT !.options = options] = a
      OBVIOUS
    <3>3. [b EXCEPT !.secure = secure, !.options = options]
            = [[b EXCEPT !.secure = secure] EXCEPT !.options = options]
      OBVIOUS
    <3> HIDE DEF a, b, c
    <3>4. [b EXCEPT !.secure = secure, !.options = options] = a
      BY <3>1, <3>2, <3>3, Zenon
    <3> USE DEF b, a
    <3>5. With(secure, options) = [b EXCEPT !.secure = secure, !.options = options]
      BY <2>3, ZenonT(40)
    <3> QED
      BY <3>4, <3>5
  <2>5. {d.user, d.vhost, d.password, d.pass, pass} \subseteq Texts
    BY <2>1, DocumentsHoldTexts DEF TypeOK
  <2>6. Separable(d) /\ d.host \in Seq(Words)
    BY <2>1
  <2>7. {d.user, d.vhost, p} \subseteq Texts \ {Unset}
    BY <2>1, <2>5, <2>6 DEF Password, Separable
  <2>8. Words \subseteq T
    OBVIOUS
  <2>9. /\ {"amqps://", "amqp://", ":", "@", "/", "?", "=", "heartbeat", "60"} \subseteq T
        /\ \A m \in Numbers : ToString(m) \in T
    OBVIOUS
  <2> HIDE DEF T, p, n, d, a
  <2>10. d.user \in Seq(T) /\ d.vhost \in Seq(T) /\ p \in Seq(T) /\ d.host \in Seq(T)
    <3>1. \A s \in Seq(Words) : s \in Seq(T)
      BY <2>8, SeqMonotonic
    <3> QED
      BY <2>6, <2>7, <3>1
  <2>11. Lacks(d.user, {":", "@"}) /\ Lacks(p, {"@"})
    BY <2>6, <2>7 DEF Separable, Lacks
  <2>12. n \in Numbers
    BY <2>6 DEF Separable, n
  <2>13. ~(secure /\ n = 5672) /\ d.vhost # IF options = <<>> THEN <<>> ELSE <<"/">>
    BY <2>4, ZenonT(40)
  <2>14. Lacks(d.host, {":", "/"}) /\ ToString(n) \in T
    BY <2>6, <2>9, <2>12 DEF Separable
  <2>15. Lacks(d.vhost, {"?"})
    BY <2>6 DEF Separable
  <2> HIDE DEF With
  <2>16. UrlReads(secure, d.user, p, d.host, n, d.vhost, options)
    BY <2>2, <2>9, <2>10, <2>11, <2>12, <2>13, <2>14, <2>15, UrlIsRead
  <2>17. Parse(ToUrl(a)) = a
    BY <2>16 DEF UrlReads, a
  <2> QED
    BY <2>4, <2>17
<1>2. QED
  BY <1>1, TypeInit, TypeStep, AcceptedInit, AcceptedStep, ProcessBegins, ProcessFollows,
     PTL DEF ProcessSpec
=============================================================================
