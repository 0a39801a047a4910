------------------------------- MODULE Address -------------------------------
(***************************************************************************)
(* AMQP::Address and AMQP::Login: what the broker is reached by, its form  *)
(* as a URL, and how a URL is read (src/tmp_install/include/amqpcpp/       *)
(* address.h and login.h).  A text is a sequence of tokens: the separators *)
(* ":" "@" "/" "?" "=" "&", the two schemes, and words without them.       *)
(***************************************************************************)
EXTENDS Naturals, Sequences, SequencesExt, FiniteSetsExt, TLC

CONSTANTS
  PortRange,   \* 2^16
  Numbers      \* the port numbers that URLs are written with

Login(user, password) == [user |-> user, password |-> password]

(* What a login is sent as; NUL ends the empty authorisation identity.     *)
saslPlain(login) == <<"NUL">> \o login.user \o <<"NUL">> \o login.password

defaultport(secure) == IF secure THEN 5671 ELSE 5672

(* The constructor main() uses. *)
Address(host, port, login, vhost) ==
  [secure |-> FALSE, login |-> login, hostname |-> host, port |-> port % PortRange,
   vhost |-> vhost, options |-> <<>>]

-----------------------------------------------------------------------------
(* memchr(): the first c in text from position i on, or 0. *)
Find(text, c, i) ==
  LET found == {k \in i..Len(text) : text[k] = c} IN IF found = {} THEN 0 ELSE Min(found)

Before(text, k) == IF k = 0 THEN text ELSE SubSeq(text, 1, k - 1)
After(text, k)  == IF k = 0 THEN <<>> ELSE SubSeq(text, k + 1, Len(text))

(* atoi() of the port, whose digits are one word. *)
atoi(word) == (CHOOSE n \in Numbers : word = <<ToString(n)>>) % PortRange

(* The options a URL may have, "name=value" with "&" in between; one     *)
(* without "=" does not occur.                                             *)
Options(text) ==
  LET bars  == {0, Len(text) + 1} \cup {k \in DOMAIN text : text[k] = "&"}
      Piece(k) == SubSeq(text, k + 1, Min({b \in bars : b > k}) - 1)
      Name(p)  == Before(p, Find(p, "=", 1))
      pieces   == {Piece(k) : k \in bars \ {Len(text) + 1}} \ {<<>>}
  IN  [n \in {Name(p) : p \in pieces} |-> LET p == CHOOSE q \in pieces : Name(q) = n
                                          IN  After(p, Find(p, "=", 1))]

(* The login in front of "@"; Login() is guest's. *)
UrlLogin(text) ==
  LET at == Find(text, "@", 1)
      who == Before(text, at)
      colon == Find(who, ":", 1)
  IN  IF at = 0 THEN Login(<<"guest">>, <<"guest">>) ELSE Login(Before(who, colon), After(who, colon))

(* Reading a URL that begins with one of the two schemes. *)
Parse(url) ==
  LET secure == Head(url) = "amqps://"
      at     == Find(Tail(url), "@", 1)
      rest   == IF at = 0 THEN Tail(url) ELSE After(Tail(url), at)
      slash  == Find(rest, "/", 1)
      qm     == Find(rest, "?", IF slash = 0 THEN 1 ELSE slash)
      colon  == Find(rest, ":", 1)
      ported == colon # 0 /\ (slash = 0 \/ colon < slash)
  IN  [secure   |-> secure,
       login    |-> UrlLogin(Tail(url)),
       options  |-> Options(After(rest, qm)),
       vhost    |-> IF slash = 0 \/ slash = Len(rest) THEN <<"/">>
                    ELSE After(Before(rest, qm), slash),
       hostname |-> Before(rest, IF ported THEN colon ELSE slash),
       port     |-> IF ported THEN atoi(After(Before(rest, slash), colon))
                    ELSE defaultport(secure)]

(* What follows the vhost: "?", and the options with "&" in between. *)
OptionsText(options) ==
  LET Text[names \in SUBSET DOMAIN options] ==
        IF names = {} THEN <<>>
        ELSE LET name == CHOOSE n \in names : TRUE
             IN  <<"&">> \o name \o <<"=">> \o options[name] \o Text[names \ {name}]
  IN  IF options = <<>> THEN <<>> ELSE <<"?">> \o Tail(Text[DOMAIN options])

(* Mutant: the port is left out when it is that of the other scheme. *)
ToUrlSwapped(a) ==
  <<IF a.secure THEN "amqps://" ELSE "amqp://">>
    \o a.login.user \o <<":">> \o a.login.password \o <<"@">> \o a.hostname
    \o (IF a.port # 5671 THEN <<":", ToString(a.port)>> ELSE <<>>)
    \o <<"/">> \o (IF a.vhost # <<"/">> THEN a.vhost ELSE <<>>) \o OptionsText(a.options)

(* operator std::string. *)
ToUrl(a) ==
  <<IF a.secure THEN "amqps://" ELSE "amqp://">>
    \o a.login.user \o <<":">> \o a.login.password \o <<"@">> \o a.hostname
    \o (IF a.port # 5672 THEN <<":", ToString(a.port)>> ELSE <<>>)
    \o <<"/">> \o (IF a.vhost # <<"/">> THEN a.vhost ELSE <<>>) \o OptionsText(a.options)
=============================================================================
