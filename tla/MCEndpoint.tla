---------------------------- MODULE MCEndpoint ----------------------------
(* Instances of Endpoint for TLC. *)
EXTENDS Endpoint

CONSTANTS MaxText, MaxPort

Tcp(s) == [scheme |-> "tcp://", rest |-> s]
Unix(s) == [scheme |-> "unix:", rest |-> s]
Abstract(s) == [scheme |-> "unix-abstract:", rest |-> s]

(* Every text over the characters the parser looks for, short ports with   *)
(* and without blanks, signs and prefixes, hosts of up to nine groups, and *)
(* every path up to one longer than sun_path has room for.                 *)
Paths == BoundedSeq({"/", "NUL"}, SunPath)

Ports ==
  BoundedSeq({"0", "1", "9", "x", "-"}, MaxPort)
  \cup BoundedSeq({"+", " ", "-", "1", "0"}, 3)
  \cup {b \o <<m>> \o n : b \in {<<>>, <<" ">>}, m \in {"+", "-"},
                         n \in BoundedSeq({"0", "1", "9"}, 4) \cup {<<"0", "x", "9">>}}

LongHosts ==
  LET groups(n) == [i \in 1..(2 * n) |-> IF i % 2 = 1 THEN "1" ELSE ":"]
      lasts == {<<"1">>, <<"v4">>, <<":">>, <<"0", "0", "0", "1">>, <<"0", "0", "0", "0", "1">>}
  IN  {groups(n) \o e : n \in 6..8, e \in lasts}
      \cup {groups(n) \o <<":">> \o groups(k) \o e : n \in 5..6, k \in 0..1, e \in lasts}

AllStrings ==
  {Tcp(s) : s \in BoundedSeq({"[", "]", ":", "*", "1", "v4"}, MaxText)}
  \cup {Tcp(<<"v4", ":">> \o p) : p \in Ports}
  \cup {Tcp(s) : s \in BoundedSeq({":", "1", "v4", "NUL"}, MaxText)}
  \cup {Tcp(<<"[", ":", ":", "1", "]">> \o t) : t \in BoundedSeq({":", "0", "1", "]", "NUL"}, 4)}
  \cup {Tcp(h) : h \in LongHosts} \cup {Tcp(<<"[">> \o h \o <<"]", ":", "1">>) : h \in LongHosts}
  \cup {Unix(s) : s \in Paths} \cup {Abstract(s) : s \in Paths}

Hosts == {<<"v4">>, <<"[", ":", ":", "1", "]">>, <<"*">>}
SomeTcp == {Tcp(h \o <<":">> \o p) : h \in Hosts, p \in {<<>>, <<"1">>, <<"9">>}}
SomeUnix ==
  {Unix(s) : s \in BoundedSeq({"/", "NUL"}, SunPath - 1)}
  \cup {Abstract(s) : s \in BoundedSeq({"/", "NUL"}, SunPath - 2)}

(* What daemons are configured with, and what the client asks for instead: *)
(* the other names, and, of a daemon that does not start, every string.    *)
SomeStrings == SomeTcp \cup SomeUnix \cup {Tcp(<<"v4">>), Tcp(<<"1">>)}
NotAnAddress == [scheme |-> "udp://", rest |-> <<"v4">>]
SomePairs ==
  (SomeTcp \X SomeTcp) \cup (SomeUnix \X SomeUnix) \cup (SomeTcp \X {Unix(<<"/">>)})
  \cup ({NotAnAddress} \X AllStrings)

=============================================================================
