--------------------------- MODULE SocketAddress ---------------------------
(***************************************************************************)
(* Socket addresses and the connection strings they are parsed from        *)
(* (io::SocketAddress).  A connection string is a scheme and the rest, a   *)
(* sequence of tokens: the characters that matter to the parser, digits,   *)
(* "v4" for a dotted IPv4 literal that no other digit fits on, " " for a   *)
(* blank and NUL for a null byte, which the std::string may hold and the C *)
(* functions stop at.  The sizes of sun_path, of a port number and of what *)
(* strtoull returns are constants.                                         *)
(***************************************************************************)
EXTENDS Integers, Sequences, FiniteSets, SequencesExt

CONSTANTS Tokens,    \* what texts are made of
          SunPath,   \* sizeof(sockaddr_un::sun_path)
          PortMax,   \* numeric_limits<std::uint16_t>::max()
          Word       \* numeric_limits<std::uint64_t>::max() + 1

ASSUME TokensAssumption == {"[", "]", ":", "*", "NUL"} \subseteq Tokens
ASSUME SunPathAssumption == SunPath \in Nat /\ SunPath > 1
ASSUME PortMaxAssumption == PortMax \in Nat
ASSUME WordAssumption == Word \in Nat /\ Word > PortMax + 1

NUL == "NUL"
EINVAL == [family |-> "error"]
Failed(r) == r = EINVAL
---------------------------------------------------------------------------
(* The C library.                                                          *)

PositionsOf(s, t) == {i \in 1..Len(s) : s[i] = t}

(* Up to the first null byte, the one at the end if there is no other.     *)
CString(s) == SubSeq(s, 1, Min(PositionsOf(s \o <<NUL>>, NUL)) - 1)

Digits == [d \in {"0", "1", "9"} |-> CASE d = "0" -> 0 [] d = "1" -> 1 [] OTHER -> 9]

(* strtoull with base 0: blanks, a sign, and digits in the base that the   *)
(* prefix says.  What is too large becomes the largest number, whatever    *)
(* the sign; otherwise a minus negates modulo 2^64.  A text that is not a  *)
(* number to its last character leaves *end_ptr at what follows; nothing   *)
(* at all (a null byte first) is 0.                                        *)
NotANumber == -1

Number(s, base) ==
  IF s # <<>> /\ \A i \in 1..Len(s) : s[i] \in DOMAIN Digits /\ Digits[s[i]] < base
  THEN FoldLeft(LAMBDA v, d : v * base + Digits[d], 0, s)
  ELSE NotANumber

MutAlwaysDecimal(t) == Number(t, 10)  \* mutant: strtoull with base 10

Magnitude(t) ==
  LET prefix == IF Len(t) > 2 /\ t[1] = "0" /\ t[2] = "x" THEN 2
                ELSE IF Len(t) > 1 /\ t[1] = "0" THEN 1 ELSE 0
      base == CASE prefix = 2 -> 16 [] prefix = 1 -> 8 [] OTHER -> 10
  IN  Number(SubSeq(t, prefix + 1, Len(t)), base)

WithoutBlanks(t) == SubSeq(t, 1 + Max({n \in 0..Len(t) : \A i \in 1..n : t[i] = " "}), Len(t))
Signed(t) == t # <<>> /\ t[1] \in {"+", "-"}
Negated(t) == t # <<>> /\ t[1] = "-"

Converted(t) ==
  LET m == Magnitude(IF Signed(t) THEN Tail(t) ELSE t)
  IN  IF m = NotANumber THEN NotANumber
      ELSE IF m >= Word THEN Word - 1
      ELSE IF Negated(t) THEN (-m) % Word
      ELSE m

Strtoull(s) ==
  LET t == CString(s) IN IF t = <<>> THEN 0 ELSE Converted(WithoutBlanks(t))

(* inet_pton.  An IPv6 literal has eight groups of at most four digits, or *)
(* fewer and one "::"; a dotted part can only be last, for two groups.     *)
Is4(h) == h = <<"v4">>

Dotted(h) == IF "v4" \in ToSet(h) THEN 1 ELSE 0
Colons(h) == {i \in 1..Len(h) : h[i] = ":"}
Gaps(h) == {i \in 1..(Len(h) - 1) : h[i] = ":" /\ h[i + 1] = ":"}
Groups(h) == {i \in 1..Len(h) : h[i] # ":" /\ (i = 1 \/ h[i - 1] = ":")}

Is6(h) ==
  /\ ToSet(h) \subseteq {":", "0", "1", "9", "v4"}
  /\ \A i \in 1..Len(h) : h[i] = "v4" => i = Len(h) /\ i > 1 /\ h[i - 1] = ":"
  /\ \A i \in 1..(Len(h) - 4) : \E j \in i..(i + 4) : h[j] = ":"
  /\ \/ /\ Cardinality(Gaps(h)) = 1
        /\ Cardinality(Groups(h)) + Dotted(h) <= 7
        /\ h[1] = ":" => h[2] = ":"
        /\ h[Len(h)] = ":" => h[Len(h) - 1] = ":"
     \/ /\ Gaps(h) = {}
        /\ Cardinality(Colons(h)) + Dotted(h) = 7
        /\ h[1] # ":" /\ h[Len(h)] # ":"

InetPton(family, h) == IF family = "inet6" THEN Is6(h) ELSE Is4(h)
---------------------------------------------------------------------------
(* extractFamilyHostAndPort: a bracket first means IPv6; otherwise one     *)
(* colon separates an IPv4 host and a port, and more make it an IPv6       *)
(* address without one.                                                    *)

Unspec == [family |-> "unspec"]

MutBracketedAnySuffix(s) ==  \* mutant: what follows the bracket is not checked
  LET ends == PositionsOf(s, "]")
      end  == Max(ends)
  IN  IF ends = {} THEN Unspec
      ELSE [family |-> "inet6", host |-> SubSeq(s, 2, end - 1), port |-> SubSeq(s, end + 2, Len(s))]

Bracketed(s) ==
  LET ends == PositionsOf(s, "]")
      end  == Max(ends)
  IN  CASE ends = {} -> Unspec
        [] ends # {} /\ Len(s) > end /\ s[end + 1] # ":" -> Unspec
        [] OTHER -> [family |-> "inet6", host |-> SubSeq(s, 2, end - 1),
                     port |-> SubSeq(s, end + 2, Len(s))]

Unbracketed(s) ==
  LET colons == PositionsOf(s, ":")
      colon  == Min(colons)
  IN  CASE colons = {} -> [family |-> "inet", host |-> s, port |-> <<>>]
        [] Cardinality(colons) = 1 -> [family |-> "inet", host |-> SubSeq(s, 1, colon - 1),
                                       port |-> SubSeq(s, colon + 1, Len(s))]
        [] OTHER -> [family |-> "inet6", host |-> s, port |-> <<>>]

(* An empty port leaves the hint.                                          *)
PortOf(port_part, hint) == IF port_part = <<>> THEN hint ELSE Strtoull(port_part)

ExtractFamilyHostAndPort(s, hint) ==
  LET split == IF s # <<>> /\ s[1] = "[" THEN Bracketed(s) ELSE Unbracketed(s)
      port  == PortOf(split.port, hint)
  IN  IF split = Unspec THEN Unspec
      ELSE IF port \notin 0..PortMax THEN Unspec
      ELSE [split EXCEPT !.port = port]

Inet(family, host, port, wildcard) ==
  [family |-> family, host |-> host, port |-> port, is_wildcard |-> wildcard]

(* "*" listens on both families.                                           *)
TryParseAsWildcard(port) == Inet("inet6", <<":", ":">>, port, TRUE)

TryParseAsTcpAddress(s, hint) ==
  LET ex == ExtractFamilyHostAndPort(s, hint)
      host == CString(ex.host)
  IN  IF ex = Unspec THEN EINVAL
      ELSE IF ex.host = <<"*">> THEN TryParseAsWildcard(ex.port)
      ELSE IF InetPton(ex.family, host) THEN Inet(ex.family, host, ex.port, FALSE)
      ELSE EINVAL

(* sun_path is filled up with null bytes; addr_len counts from its start.  *)
Padded(s) == [i \in 1..SunPath |-> IF i <= Len(s) THEN s[i] ELSE NUL]

TryParseAsUnixDomain(path) ==
  IF Len(path) + 1 > SunPath THEN EINVAL
  ELSE [family |-> "unix", sun_path |-> Padded(CString(path)), addr_len |-> Len(path) + 1]

MutAbstractLength(path) ==  \* mutant: addr_len without the first null
  IF Len(path) + 1 > SunPath - 1 THEN EINVAL
  ELSE [family |-> "unix", sun_path |-> Padded(<<NUL>> \o path), addr_len |-> Len(path)]

TryParseAsAbstractUnixDomain(path) ==
  IF Len(path) + 1 > SunPath - 1 THEN EINVAL
  ELSE [family |-> "unix", sun_path |-> Padded(<<NUL>> \o path), addr_len |-> Len(path) + 1]

Parse(str, hint) ==
  CASE str.scheme = "unix:" -> TryParseAsUnixDomain(str.rest)
    [] str.scheme = "unix-abstract:" -> TryParseAsAbstractUnixDomain(str.rest)
    [] str.scheme = "tcp://" -> TryParseAsTcpAddress(str.rest, hint)
    [] OTHER -> EINVAL

IsAnyInet(a) == a.family \in {"inet", "inet6"}
---------------------------------------------------------------------------
(* What connection strings mean, said the other way around: the texts that *)
(* name a host and a port.                                                 *)

(* A text that is split into a host and a port by its only colon, or by    *)
(* brackets, the closing one being the last.                               *)
Bare(s, h, p) ==
  /\ ":" \notin ToSet(h) \cup ToSet(p)
  /\ s = h \o <<":">> \o p \/ (s = h /\ p = <<>>)

Boxed(s, h, p) ==
  /\ "]" \notin ToSet(p)
  /\ LET box == <<"[">> \o h \o <<"]">>
     IN  s = box \o <<":">> \o p \/ (s = box /\ p = <<>>)

IsPort(p) == p = <<>> \/ Strtoull(p) \in 0..PortMax

(* host, host:port, [host] and [host]:port, with an IPv6 host bare or in   *)
(* brackets (only there with a port), an IPv4 host bare, and "*" either;   *)
(* ports gives the texts that are a port their numbers.                    *)
Readings(s, ports) ==
  LET hosts4 == {h \in SubSeqs(s) : Is4(CString(h))}
      hosts6 == {h \in SubSeqs(s) : Is6(CString(h))}
      four == {x \in hosts4 \X DOMAIN ports : Bare(s, x[1], x[2])}
      six == {x \in hosts6 \X DOMAIN ports : Boxed(s, x[1], x[2]) \/ (s = x[1] /\ x[2] = <<>>)}
      any == {x \in {<<"*">>} \X DOMAIN ports : Bare(s, x[1], x[2]) \/ Boxed(s, x[1], x[2])}
  IN  {Inet("inet", CString(x[1]), ports[x[2]], FALSE) : x \in four}
      \cup {Inet("inet6", CString(x[1]), ports[x[2]], FALSE) : x \in six}
      \cup {TryParseAsWildcard(ports[x[2]]) : x \in any}

(* The ports of a text as the scanner takes them.                          *)
ScannedPorts(s, hint) == [p \in {q \in Suffixes(s) : IsPort(q)} |-> PortOf(p, hint)]

(* The ports of a text by the grammar of numbers in C: blanks, a sign, and *)
(* a numeral, worth what its digits are worth at their places.             *)
Numeral(ds, base) ==
  LET from == CASE base = 16 -> 3 [] base = 8 -> 2 [] OTHER -> 1
  IN  /\ Len(ds) >= from
      /\ base = 10 => ds[1] # "0" \/ Len(ds) = 1
      /\ base # 10 => ds[1] = "0"
      /\ base = 16 => ds[2] = "x"
      /\ \A i \in from..Len(ds) : ds[i] \in DOMAIN Digits /\ Digits[ds[i]] < base

Worth(ds, base) ==
  MapThenSumSet(LAMBDA i : (IF ds[i] = "x" THEN 0 ELSE Digits[ds[i]]) * base^(Len(ds) - i),
                1..Len(ds))

Numbers(t) ==
  LET blanks == {b \in Prefixes(t) : ToSet(b) \subseteq {" "}}
      parts == {x \in blanks \X {<<>>, <<"+">>, <<"-">>} \X Suffixes(t) : t = x[1] \o x[2] \o x[3]}
      numerals == {x \in parts \X {8, 10, 16} : Numeral(x[1][3], x[2])}
  IN  {[sign |-> x[1][2], worth |-> Worth(x[1][3], x[2])] : x \in numerals}

(* Numbers are of 64 bits, and the negative of one is taken modulo 2^64.   *)
PortsIn(p) ==
  LET numbers == {x \in Numbers(CString(p)) : x.worth < Word}
  IN  IF CString(p) = <<>> THEN {0}
      ELSE {n \in 0..PortMax : \E x \in numbers :
              IF x.sign = <<"-">> THEN n + x.worth \in {0, Word} ELSE n = x.worth}

GrammarPorts(s, hint) ==
  [p \in {q \in Suffixes(s) : q = <<>> \/ PortsIn(q) # {}} |->
     IF p = <<>> THEN hint ELSE CHOOSE n \in PortsIn(p) : TRUE]

=============================================================================
