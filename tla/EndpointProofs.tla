--------------------------- MODULE EndpointProofs ---------------------------
(***************************************************************************)
(* Proofs about the splitting of connection strings of any length and any  *)
(* tokens, and about the daemons and clients that use the addresses.  What *)
(* strtoull and inet_pton accept is the kernel's and the C library's: the  *)
(* proofs take it as it is defined in SocketAddress.                       *)
(***************************************************************************)
EXTENDS Endpoint, SequenceTheorems, FiniteSetTheorems, WellFoundedInduction, TLAPS

---------------------------------------------------------------------------
(* The first and the last of some positions of a text.                     *)

(* A set of natural numbers that is not empty has a least element.         *)
LEMMA LeastNatural ==
  ASSUME NEW T, T \subseteq Nat, T # {}
  PROVE  Min(T) \in T /\ \A k \in T : Min(T) <= k
<1> DEFINE R == {ss \in Nat \X Nat : ss[1] < ss[2]}
<1>1. IsWellFoundedOn(R, Nat)
  BY NatLessThanWellFounded DEF OpToRel
<1>2. \A x, y \in Nat : (<<y, x>> \in R) <=> y < x
  OBVIOUS
<1> HIDE DEF R
<1>3. PICK x \in T : \A y \in T : ~ (<<y, x>> \in R)
  BY <1>1, WFMin
<1>4. \A k \in T : x <= k
  <2> TAKE k \in T
  <2>1. x \in Nat /\ k \in Nat
    OBVIOUS
  <2>2. ~(k < x)
    BY <1>3, <1>2, <2>1
  <2> QED
    BY <2>1, <2>2
<1> QED
  BY <1>4 DEF Min

(* A set of positions that is not empty has a greatest one.                *)
LEMMA GreatestPosition ==
  ASSUME NEW n \in Nat, NEW T, T \subseteq 1..n, T # {}
  PROVE  Max(T) \in T /\ \A k \in T : k <= Max(T)
<1> DEFINE U == {k \in Nat : n - k \in T}
<1>1. U \subseteq Nat /\ U # {}
  <2>1. PICK t \in T : TRUE
    OBVIOUS
  <2>2. t \in 1..n
    BY <2>1
  <2>3. n - t \in Nat /\ n - (n - t) = t
    BY <2>2
  <2> QED
    BY <2>1, <2>3
<1>2. PICK m \in U : \A k \in U : m <= k
  BY <1>1, LeastNatural
<1>3. n - m \in T
  BY <1>2
<1>4. \A k \in T : k <= n - m
  <2> TAKE k \in T
  <2>1. k \in 1..n /\ m \in Nat
    BY <1>2
  <2>2. n - k \in Nat /\ n - (n - k) = k
    BY <2>1
  <2>3. n - k \in U
    BY <2>2
  <2>4. m <= n - k
    BY <2>3, <1>2
  <2> QED
    BY <2>1, <2>4
<1>5. \A y \in T : n - m >= y
  <2> TAKE y \in T
  <2>1. y \in 1..n /\ m \in Nat /\ y <= n - m
    BY <1>2, <1>4
  <2> QED
    BY <2>1
<1>6. Max(T) \in T /\ \A y \in T : Max(T) >= y
  BY <1>3, <1>5 DEF Max
<1> QED
  <2> SUFFICES ASSUME NEW k \in T
               PROVE  k <= Max(T)
    BY <1>6
  <2>1. k \in 1..n /\ Max(T) \in 1..n /\ Max(T) >= k
    BY <1>6
  <2> QED
    BY <2>1

(* What a C function sees of a text: the tokens before the first null byte.*)
LEMMA CStringIsPrefix ==
  ASSUME NEW s \in Seq(Tokens)
  PROVE  /\ CString(s) \in Seq(Tokens)
         /\ Len(CString(s)) <= Len(s)
         /\ \A i \in 1..Len(CString(s)) : CString(s)[i] = s[i] /\ s[i] # NUL
         /\ Len(CString(s)) < Len(s) => s[Len(CString(s)) + 1] = NUL
<1> DEFINE t == s \o <<NUL>>
           I == {i \in 1..Len(t) : t[i] = NUL}
<1>0. <<NUL>> \in Seq(Tokens) /\ Len(<<NUL>>) = 1 /\ <<NUL>>[1] = NUL
  <2>1. NUL \in Tokens
    BY TokensAssumption DEF NUL
  <2> QED
    BY <2>1
<1>1. /\ t \in Seq(Tokens) /\ Len(t) = Len(s) + 1 /\ t[Len(s) + 1] = NUL
      /\ \A i \in 1..Len(s) : t[i] = s[i]
  <2>1. t \in Seq(Tokens) /\ Len(t) = Len(s) + 1
    BY <1>0
  <2>2. \A i \in 1..(Len(s) + 1) : t[i] = IF i <= Len(s) THEN s[i] ELSE <<NUL>>[i - Len(s)]
    BY <1>0, ConcatProperties
  <2>3. Len(s) + 1 \in 1..(Len(s) + 1) /\ ~(Len(s) + 1 <= Len(s)) /\ (Len(s) + 1) - Len(s) = 1
    OBVIOUS
  <2> QED
    BY <2>1, <2>2, <2>3, <1>0
<1>2. I \subseteq Nat /\ Len(s) + 1 \in I
  BY <1>1
<1>3. Min(I) \in I /\ \A k \in I : Min(I) <= k
  BY <1>2, LeastNatural
<1>4. PositionsOf(t, NUL) = I
  BY DEF PositionsOf
<1>5. CString(s) = SubSeq(s, 1, Min(I) - 1)
  BY <1>4 DEF CString
<1>6. \A k \in I : k \in 1..(Len(s) + 1) /\ t[k] = NUL
  BY <1>1
<1>7. \A i \in 1..Len(s) : s[i] = NUL => i \in I
  BY <1>1
<1> DEFINE m == Min(I)
<1> HIDE DEF m, t, I
<1>8. m \in 1..(Len(s) + 1) /\ t[m] = NUL
  BY <1>6, <1>3 DEF m
<1>9. \A i \in 1..(m - 1) : s[i] # NUL
  <2> SUFFICES ASSUME NEW i \in 1..(m - 1), s[i] = NUL
               PROVE  FALSE
    OBVIOUS
  <2>1. i \in 1..Len(s)
    BY <1>8
  <2>2. m <= i
    BY <2>1, <1>7, <1>3 DEF m
  <2> QED
    BY <2>2, <1>8
<1>10. /\ CString(s) \in Seq(Tokens) /\ Len(CString(s)) = m - 1
       /\ \A i \in 1..(m - 1) : CString(s)[i] = s[i]
  BY <1>5, <1>8 DEF m
<1>11. m <= Len(s) => s[m] = NUL
  BY <1>8, <1>1
<1> QED
  BY <1>8, <1>9, <1>10, <1>11

(* A text without null bytes is seen as it is.                             *)
LEMMA CStringOfText ==
  ASSUME NEW s \in Seq(Tokens), NUL \notin ToSet(s)
  PROVE  CString(s) = s
<1>1. \A i \in 1..Len(s) : s[i] # NUL
  BY DEF ToSet
<1>2. Len(CString(s)) = Len(s)
  BY <1>1, CStringIsPrefix
<1> QED
  BY <1>2, CStringIsPrefix

---------------------------------------------------------------------------
(* Unix domain addresses.                                                  *)

(* A path that is not empty and holds no null byte is the kernel's name    *)
(* for the socket.                                                         *)
LEMMA PathIsName ==
  ASSUME NEW path \in Seq(Tokens), path # <<>>, NUL \notin ToSet(path),
         NEW a, a = TryParseAsUnixDomain(path), ~Failed(a)
  PROVE  IsPath(a) /\ UnixName(a) = path
<1>1. Len(path) \in Nat /\ Len(path) > 0 /\ Len(path) + 1 <= SunPath
  <2>1. ~(Len(path) + 1 > SunPath)
    BY DEF Failed, TryParseAsUnixDomain
  <2> QED
    BY <2>1, SunPathAssumption
<1>2. CString(path) = path
  BY CStringOfText
<1> DEFINE sun == Padded(path)
<1>3. a = [family |-> "unix", sun_path |-> sun, addr_len |-> Len(path) + 1]
  BY <1>1, <1>2, SunPathAssumption DEF TryParseAsUnixDomain
<1>4. /\ sun \in Seq(Tokens) /\ Len(sun) = SunPath
      /\ \A i \in 1..Len(path) : sun[i] = path[i]
      /\ sun[Len(path) + 1] = NUL
  <2>1. NUL \in Tokens
    BY TokensAssumption DEF NUL
  <2> QED
    BY <1>1, <2>1, SunPathAssumption DEF Padded
<1> HIDE DEF sun
<1>5. \A i \in 1..Len(path) : path[i] # NUL
  BY DEF ToSet
<1>6. Len(CString(sun)) = Len(path)
  <2>1. /\ Len(CString(sun)) \in Nat
        /\ \A i \in 1..Len(CString(sun)) : sun[i] # NUL
        /\ Len(CString(sun)) < SunPath => sun[Len(CString(sun)) + 1] = NUL
        /\ Len(CString(sun)) <= SunPath
    BY <1>4, CStringIsPrefix
  <2>2. CASE Len(CString(sun)) < Len(path)
    <3>1. Len(CString(sun)) + 1 \in 1..Len(path)
      BY <2>1, <2>2, <1>1
    <3> QED
      BY <3>1, <2>1, <2>2, <1>1, <1>4, <1>5, SunPathAssumption
  <2>3. CASE Len(CString(sun)) > Len(path)
    <3>1. Len(path) + 1 \in 1..Len(CString(sun))
      BY <2>1, <2>3, <1>1
    <3> QED
      BY <3>1, <2>1, <1>4
  <2> QED
    BY <2>1, <2>2, <2>3, <1>1
<1>7. CString(sun) = path
  <2>1. CString(sun) \in Seq(Tokens) /\ \A i \in 1..Len(CString(sun)) : CString(sun)[i] = sun[i]
    BY <1>4, CStringIsPrefix
  <2> QED
    BY <2>1, <1>4, <1>6, SeqEqual
<1>8. sun[1] # NUL
  <2>1. 1 \in 1..Len(path)
    BY <1>1
  <2> QED
    BY <2>1, <1>4, <1>5
<1>9. IsPath(a)
  BY <1>3, <1>8 DEF IsPath
<1> QED
  BY <1>3, <1>7, <1>9 DEF UnixName

(* An abstract name is the null byte with every byte after it.             *)
LEMMA AbstractIsName ==
  ASSUME NEW path \in Seq(Tokens),
         NEW a, a = TryParseAsAbstractUnixDomain(path), ~Failed(a)
  PROVE  ~IsPath(a) /\ UnixName(a) = <<NUL>> \o path
<1>1. Len(path) \in Nat /\ Len(path) + 2 <= SunPath
  <2>1. ~(Len(path) + 1 > SunPath - 1)
    BY DEF Failed, TryParseAsAbstractUnixDomain
  <2> QED
    BY <2>1, SunPathAssumption
<1> DEFINE name == <<NUL>> \o path
           sun == Padded(name)
<1>2. /\ name \in Seq(Tokens) /\ Len(name) = Len(path) + 1 /\ name[1] = NUL
  <2>1. NUL \in Tokens
    BY TokensAssumption DEF NUL
  <2> QED
    BY <2>1
<1>3. a = [family |-> "unix", sun_path |-> sun, addr_len |-> Len(path) + 1]
  BY <1>1, SunPathAssumption DEF TryParseAsAbstractUnixDomain
<1> HIDE DEF name
<1>4. /\ sun \in Seq(Tokens) /\ Len(sun) = SunPath
      /\ \A i \in 1..Len(name) : sun[i] = name[i]
  <2>1. NUL \in Tokens
    BY TokensAssumption DEF NUL
  <2> QED
    BY <1>1, <1>2, <2>1, SunPathAssumption DEF Padded
<1> HIDE DEF sun
<1>5. sun[1] = NUL
  BY <1>1, <1>2, <1>4
<1>6. ~IsPath(a)
  BY <1>3, <1>5 DEF IsPath
<1>7. SubSeq(sun, 1, Len(path) + 1) = name
  BY <1>1, <1>2, <1>4, SunPathAssumption
<1>8. UnixName(a) = name
  BY <1>3, <1>6, <1>7 DEF UnixName
<1> QED
  BY <1>6, <1>8 DEF name

(* Different strings name different Unix sockets, unless one is a path     *)
(* that is empty or holds a null byte.                                     *)
LEMMA UnixNamesDiffer ==
  ASSUME NEW s \in ConnectionStrings, NEW t \in ConnectionStrings,
         s.scheme \in {"unix:", "unix-abstract:"}, t.scheme \in {"unix:", "unix-abstract:"},
         ~Failed(Parse(s, PortHint)), ~Failed(Parse(t, PortHint)),
         \A u \in {s, t} : u.scheme = "unix:" => u.rest # <<>> /\ NUL \notin ToSet(u.rest),
         IsPath(Parse(s, PortHint)) = IsPath(Parse(t, PortHint)),
         UnixName(Parse(s, PortHint)) = UnixName(Parse(t, PortHint))
  PROVE  s = t
<1>1. /\ s = [scheme |-> s.scheme, rest |-> s.rest] /\ s.rest \in Seq(Tokens)
      /\ t = [scheme |-> t.scheme, rest |-> t.rest] /\ t.rest \in Seq(Tokens)
  BY DEF ConnectionStrings
<1>2. ASSUME NEW u \in {s, t}
      PROVE  /\ u.scheme = "unix:" =>
                   IsPath(Parse(u, PortHint)) /\ UnixName(Parse(u, PortHint)) = u.rest
             /\ u.scheme = "unix-abstract:" =>
                   ~IsPath(Parse(u, PortHint)) /\ UnixName(Parse(u, PortHint)) = <<NUL>> \o u.rest
  <2>1. u.rest \in Seq(Tokens) /\ ~Failed(Parse(u, PortHint))
    BY <1>1
  <2>2. u.scheme = "unix:" => Parse(u, PortHint) = TryParseAsUnixDomain(u.rest)
    BY DEF Parse
  <2>3. u.scheme = "unix-abstract:" => Parse(u, PortHint) = TryParseAsAbstractUnixDomain(u.rest)
    BY DEF Parse
  <2> QED
    BY <2>1, <2>2, <2>3, PathIsName, AbstractIsName
<1>3. s.scheme = t.scheme
  BY <1>2
<1>4. s.rest = t.rest
  <2>1. CASE s.scheme = "unix:"
    BY <2>1, <1>2, <1>3
  <2>2. CASE s.scheme = "unix-abstract:"
    <3>1. <<NUL>> \o s.rest = <<NUL>> \o t.rest
      BY <2>2, <1>2, <1>3
    <3>2. <<NUL>> \in Seq(Tokens)
      <4>1. NUL \in Tokens
        BY TokensAssumption DEF NUL
      <4> QED
        BY <4>1
    <3> QED
      BY <3>1, <3>2, <1>1, ConcatSimplifications
  <2> QED
    BY <2>1, <2>2
<1> QED
  BY <1>1, <1>3, <1>4

---------------------------------------------------------------------------
(* TCP addresses: how a text is split.                                     *)

(* A text that is put together, and its two parts.                         *)
Joined(head, p) == head \o p

HasParts(s, head, p) ==
  /\ s \in Seq(Tokens) /\ Len(s) = Len(head) + Len(p)
  /\ \A i \in 1..Len(head) : s[i] = head[i]
  /\ \A i \in 1..Len(p) : s[Len(head) + i] = p[i]

LEMMA TwoParts ==
  ASSUME NEW head \in Seq(Tokens), NEW p \in Seq(Tokens)
  PROVE  HasParts(Joined(head, p), head, p)
<1> SUFFICES ASSUME NEW s, s = Joined(head, p)
             PROVE  HasParts(s, head, p)
  BY Zenon
<1>1. /\ s \in Seq(Tokens) /\ Len(s) = Len(head) + Len(p)
      /\ \A i \in 1..(Len(head) + Len(p)) :
           s[i] = IF i <= Len(head) THEN head[i] ELSE p[i - Len(head)]
  BY ConcatProperties DEF Joined
<1>2. \A i \in 1..Len(head) : s[i] = head[i]
  BY <1>1
<1>3. ASSUME NEW i \in 1..Len(p)
      PROVE  s[Len(head) + i] = p[i]
  <2>1. /\ Len(head) + i \in 1..(Len(head) + Len(p)) /\ ~(Len(head) + i <= Len(head))
        /\ (Len(head) + i) - Len(head) = i
    OBVIOUS
  <2> QED
    BY <2>1, <1>1
<1> QED
  BY <1>1, <1>2, <1>3 DEF HasParts

(* Brackets split a text just as the grammar says.                         *)
LEMMA BracketsSplit ==
  ASSUME NEW s \in Seq(Tokens), s # <<>>, s[1] = "[",
         NEW h \in Seq(Tokens), NEW p \in Seq(Tokens)
  PROVE  Boxed(s, h, p) <=> Bracketed(s) = [family |-> "inet6", host |-> h, port |-> p]
<1> DEFINE ends == PositionsOf(s, "]")
           end == Max(ends)
<1>1. ends \subseteq 1..Len(s) /\ \A i \in 1..Len(s) : i \in ends <=> s[i] = "]"
  BY DEF PositionsOf
<1>2. ends # {} => end \in ends /\ \A k \in ends : k <= end
  BY <1>1, GreatestPosition
<1>3. Bracketed(s) = IF ends = {} \/ (Len(s) > end /\ s[end + 1] # ":") THEN Unspec
                     ELSE [family |-> "inet6", host |-> SubSeq(s, 2, end - 1),
                           port |-> SubSeq(s, end + 2, Len(s))]
  BY DEF Bracketed
<1>4. <<"[">> \in Seq(Tokens) /\ <<"]">> \in Seq(Tokens) /\ <<":">> \in Seq(Tokens)
  BY TokensAssumption
<1> DEFINE box == <<"[">> \o h \o <<"]">>
<1>5. /\ box \in Seq(Tokens) /\ Len(box) = Len(h) + 2 /\ box[1] = "[" /\ box[Len(h) + 2] = "]"
      /\ \A i \in 1..Len(h) : box[i + 1] = h[i]
  BY <1>4
<1> DEFINE long == box \o <<":">> \o p
<1> HIDE DEF box
<1>6. /\ long \in Seq(Tokens) /\ Len(long) = Len(h) + 3 + Len(p)
      /\ \A i \in 1..(Len(h) + 2) : long[i] = box[i]
      /\ long[Len(h) + 3] = ":"
      /\ \A i \in 1..Len(p) : long[Len(h) + 3 + i] = p[i]
  <2> DEFINE head == box \o <<":">>
  <2>1. /\ head \in Seq(Tokens) /\ Len(head) = Len(h) + 3 /\ head[Len(h) + 3] = ":"
        /\ \A i \in 1..(Len(h) + 2) : head[i] = box[i]
    BY <1>4, <1>5
  <2> HIDE DEF head
  <2>2. long = Joined(head, p)
    BY DEF head, Joined
  <2> HIDE DEF long
  <2>3. /\ long \in Seq(Tokens) /\ Len(long) = Len(head) + Len(p)
        /\ \A i \in 1..Len(head) : long[i] = head[i]
        /\ \A i \in 1..Len(p) : long[Len(head) + i] = p[i]
    <3>1. HasParts(long, head, p)
      BY <2>1, <2>2, TwoParts, Zenon
    <3> QED
      BY <3>1 DEF HasParts
  <2> QED
    BY <2>1, <2>3
<1>7. Boxed(s, h, p) <=> "]" \notin ToSet(p) /\ (s = long \/ (s = box /\ p = <<>>))
  BY DEF Boxed, box
<1> HIDE DEF long, ends, end
<1>8. ASSUME Boxed(s, h, p)
      PROVE  Bracketed(s) = [family |-> "inet6", host |-> h, port |-> p]
  <2>1. \A i \in 1..Len(p) : p[i] # "]"
    BY <1>7, <1>8 DEF ToSet
  <2>2. Len(h) + 2 <= Len(s) /\ s[Len(h) + 2] = "]"
    BY <1>5, <1>6, <1>7, <1>8
  <2>3. \A i \in 1..Len(s) : i > Len(h) + 2 => s[i] # "]"
    <3> SUFFICES ASSUME NEW i \in 1..Len(s), i > Len(h) + 2
                 PROVE  s[i] # "]"
      OBVIOUS
    <3>1. s = long
      BY <1>5, <1>7, <1>8
    <3>2. CASE i = Len(h) + 3
      BY <3>1, <3>2, <1>6
    <3>3. CASE i > Len(h) + 3
      <4>1. i - (Len(h) + 3) \in 1..Len(p) /\ Len(h) + 3 + (i - (Len(h) + 3)) = i
        BY <3>1, <3>3, <1>6
      <4> QED
        BY <4>1, <3>1, <2>1, <1>6
    <3> QED
      BY <3>2, <3>3
  <2>4. end = Len(h) + 2 /\ ends # {}
    <3>1. Len(h) + 2 \in ends
      BY <2>2, <1>1
    <3>2. end \in 1..Len(s) /\ s[end] = "]" /\ Len(h) + 2 <= end
      BY <3>1, <1>1, <1>2
    <3> QED
      BY <3>1, <3>2, <2>3
  <2>5. ~(Len(s) > end /\ s[end + 1] # ":")
    BY <2>4, <1>5, <1>6, <1>7, <1>8
  <2>6. SubSeq(s, 2, end - 1) = h
    <3>1. \A i \in 1..Len(h) : s[i + 1] = h[i]
      BY <1>5, <1>6, <1>7, <1>8
    <3> QED
      BY <3>1, <2>2, <2>4
  <2>7. SubSeq(s, end + 2, Len(s)) = p
    <3>1. CASE s = long
      <4>1. end + 2 = Len(h) + 4 /\ Len(s) = Len(h) + 3 + Len(p) /\ Len(h) \in Nat /\ Len(p) \in Nat
        BY <3>1, <1>6, <2>4
      <4>2. /\ SubSeq(s, Len(h) + 4, Len(s)) \in Seq(Tokens)
            /\ Len(SubSeq(s, Len(h) + 4, Len(s))) = Len(p)
            /\ \A i \in 1..Len(p) : SubSeq(s, Len(h) + 4, Len(s))[i] = s[Len(h) + 3 + i]
        BY <4>1
      <4> QED
        BY <4>1, <4>2, <3>1, <1>6, SeqEqual
    <3>2. CASE s = box /\ p = <<>>
      BY <3>2, <1>5, <2>4
    <3> QED
      BY <3>1, <3>2, <1>7, <1>8
  <2> QED
    BY <2>4, <2>5, <2>6, <2>7, <1>3
<1>9. ASSUME Bracketed(s) = [family |-> "inet6", host |-> h, port |-> p]
      PROVE  Boxed(s, h, p)
  <2>1. Unspec # [family |-> "inet6", host |-> h, port |-> p]
    BY DEF Unspec
  <2>2. /\ ends # {} /\ ~(Len(s) > end /\ s[end + 1] # ":")
        /\ h = SubSeq(s, 2, end - 1) /\ p = SubSeq(s, end + 2, Len(s))
    BY <2>1, <1>3, <1>9
  <2>3. end \in 1..Len(s) /\ s[end] = "]" /\ end # 1
    BY <2>2, <1>1, <1>2
  <2>4. Len(h) = end - 2 /\ \A i \in 1..Len(h) : h[i] = s[i + 1]
    BY <2>2, <2>3
  <2>5. /\ Len(p) = (IF end + 2 <= Len(s) THEN Len(s) - (end + 1) ELSE 0)
        /\ \A i \in 1..Len(p) : p[i] = s[end + 1 + i]
    BY <2>2, <2>3
  <2>6. "]" \notin ToSet(p)
    <3> SUFFICES ASSUME NEW i \in 1..Len(p), p[i] = "]"
                 PROVE  FALSE
      BY DEF ToSet
    <3>1. end + 1 + i \in 1..Len(s) /\ s[end + 1 + i] = "]"
      BY <2>3, <2>5
    <3>2. end + 1 + i <= end
      BY <3>1, <2>2, <1>1, <1>2
    <3> QED
      BY <3>2, <2>3
  <2>7. \A i \in 1..end : box[i] = s[i]
    <3> SUFFICES ASSUME NEW i \in 1..end
                 PROVE  box[i] = s[i]
      OBVIOUS
    <3>1. CASE i = 1
      BY <3>1, <1>5
    <3>2. CASE i = end
      BY <3>2, <1>5, <2>3, <2>4
    <3>3. CASE i # 1 /\ i # end
      <4>1. i - 1 \in 1..Len(h) /\ (i - 1) + 1 = i
        BY <3>3, <2>3, <2>4
      <4> QED
        BY <4>1, <1>5, <2>4
    <3> QED
      BY <3>1, <3>2, <3>3
  <2>8. CASE Len(s) = end
    <3>1. s = box
      BY <2>8, <2>3, <2>4, <2>7, <1>5, SeqEqual
    <3>2. p = <<>>
      BY <2>8, <2>5
    <3> QED
      BY <3>1, <3>2, <2>6, <1>7
  <2>9. CASE Len(s) > end
    <3>1. s[end + 1] = ":"
      BY <2>2, <2>9
    <3>2. Len(long) = Len(s)
      <4>1. Len(long) = end + 1 + Len(p)
        BY <2>3, <2>4, <1>6
      <4>2. CASE end + 2 <= Len(s)
        <5>1. Len(p) = Len(s) - (end + 1)
          BY <4>2, <2>5
        <5> QED
          BY <5>1, <4>1, <2>3
      <4>3. CASE ~(end + 2 <= Len(s))
        <5>1. Len(p) = 0 /\ Len(s) = end + 1
          BY <4>3, <2>3, <2>5, <2>9
        <5> QED
          BY <5>1, <4>1, <2>3
      <4> QED
        BY <4>2, <4>3
    <3>3. \A i \in 1..Len(s) : long[i] = s[i]
      <4> SUFFICES ASSUME NEW i \in 1..Len(s)
                   PROVE  long[i] = s[i]
        OBVIOUS
      <4>1. CASE i <= end
        BY <4>1, <2>3, <2>4, <2>7, <1>6
      <4>2. CASE i = end + 1
        BY <4>2, <3>1, <2>3, <2>4, <1>6
      <4>3. CASE i > end + 1
        <5>1. i - (end + 1) \in 1..Len(p) /\ end + 1 + (i - (end + 1)) = i
          BY <4>3, <2>3, <2>5
        <5>2. Len(h) + 3 = end + 1
          BY <2>3, <2>4
        <5> QED
          BY <5>1, <5>2, <2>5, <1>6
      <4> QED
        BY <4>1, <4>2, <4>3, <2>3
    <3>4. s = long
      BY <3>2, <3>3, <1>6, SeqEqual
    <3> QED
      BY <3>4, <2>6, <1>7
  <2> QED
    BY <2>3, <2>8, <2>9
<1> QED
  BY <1>8, <1>9

(* A text with one colon at most is split there, just as the grammar says. *)
LEMMA ColonSplits ==
  ASSUME NEW s \in Seq(Tokens), NEW h \in Seq(Tokens), NEW p \in Seq(Tokens)
  PROVE  Bare(s, h, p) <=> Unbracketed(s) = [family |-> "inet", host |-> h, port |-> p]
<1> DEFINE colons == PositionsOf(s, ":")
           colon == Min(colons)
<1>1. colons \subseteq 1..Len(s) /\ \A i \in 1..Len(s) : i \in colons <=> s[i] = ":"
  BY DEF PositionsOf
<1>2. IsFiniteSet(colons)
  <2>1. IsFiniteSet(1..Len(s))
    BY FS_Interval
  <2> HIDE DEF colons
  <2> QED
    BY <2>1, <1>1, FS_Subset
<1>3. Cardinality(colons) = 1 <=> \E x : colons = {x}
  BY <1>2, FS_Singleton
<1>4. Unbracketed(s) = IF colons = {} THEN [family |-> "inet", host |-> s, port |-> <<>>]
                       ELSE IF Cardinality(colons) = 1
                       THEN [family |-> "inet", host |-> SubSeq(s, 1, colon - 1),
                             port |-> SubSeq(s, colon + 1, Len(s))]
                       ELSE [family |-> "inet6", host |-> s, port |-> <<>>]
  <2>1. ~(colons = {} /\ Cardinality(colons) = 1)
    BY <1>3
  <2> QED
    BY <2>1 DEF Unbracketed
<1>5. \A x : colons = {x} => colon = x /\ x \in 1..Len(s) /\ s[x] = ":"
  <2> SUFFICES ASSUME NEW x, colons = {x}
               PROVE  colon = x /\ x \in 1..Len(s) /\ s[x] = ":"
    OBVIOUS
  <2>1. colons \subseteq Nat
    BY <1>1
  <2>2. colon \in colons
    BY <2>1, LeastNatural
  <2> QED
    BY <2>2, <1>1
<1> DEFINE long == h \o <<":">> \o p
<1>6. /\ long \in Seq(Tokens) /\ Len(long) = Len(h) + 1 + Len(p)
      /\ \A i \in 1..Len(h) : long[i] = h[i]
      /\ long[Len(h) + 1] = ":"
      /\ \A i \in 1..Len(p) : long[Len(h) + 1 + i] = p[i]
  <2> DEFINE head == h \o <<":">>
  <2>1. /\ head \in Seq(Tokens) /\ Len(head) = Len(h) + 1 /\ head[Len(h) + 1] = ":"
        /\ \A i \in 1..Len(h) : head[i] = h[i]
    BY TokensAssumption
  <2>2. long = Joined(head, p)
    BY DEF Joined
  <2> HIDE DEF head, long
  <2>3. /\ long \in Seq(Tokens) /\ Len(long) = Len(head) + Len(p)
        /\ \A i \in 1..Len(head) : long[i] = head[i]
        /\ \A i \in 1..Len(p) : long[Len(head) + i] = p[i]
    <3>1. HasParts(long, head, p)
      BY <2>1, <2>2, TwoParts, Zenon
    <3> QED
      BY <3>1 DEF HasParts
  <2> QED
    BY <2>1, <2>3
<1>7. Bare(s, h, p) <=> /\ ":" \notin ToSet(h) \cup ToSet(p)
                        /\ s = long \/ (s = h /\ p = <<>>)
  BY DEF Bare
<1>8. ":" \notin ToSet(h) \cup ToSet(p) <=> /\ \A i \in 1..Len(h) : h[i] # ":"
                                            /\ \A i \in 1..Len(p) : p[i] # ":"
  <2>1. DOMAIN h = 1..Len(h) /\ DOMAIN p = 1..Len(p)
    OBVIOUS
  <2>2. /\ ":" \in ToSet(h) <=> \E i \in 1..Len(h) : h[i] = ":"
        /\ ":" \in ToSet(p) <=> \E i \in 1..Len(p) : p[i] = ":"
    BY <2>1 DEF ToSet
  <2> QED
    BY <2>2
<1> HIDE DEF long, colons, colon
<1>9. ASSUME Bare(s, h, p)
      PROVE  Unbracketed(s) = [family |-> "inet", host |-> h, port |-> p]
  <2>1. CASE s = h /\ p = <<>>
    <3>1. colons = {}
      BY <2>1, <1>1, <1>7, <1>8, <1>9
    <3> QED
      BY <3>1, <2>1, <1>4
  <2>2. CASE s = long
    <3>1. colons = {Len(h) + 1}
      <4>1. Len(h) + 1 \in colons
        BY <2>2, <1>1, <1>6
      <4>2. ASSUME NEW i \in colons, i # Len(h) + 1
            PROVE  FALSE
        <5>1. i \in 1..Len(s) /\ long[i] = ":"
          BY <2>2, <1>1
        <5>2. CASE i <= Len(h)
          BY <5>1, <5>2, <1>6, <1>7, <1>8, <1>9
        <5>3. CASE i > Len(h) + 1
          <6>1. i - (Len(h) + 1) \in 1..Len(p) /\ Len(h) + 1 + (i - (Len(h) + 1)) = i
            BY <5>1, <5>3, <2>2, <1>6
          <6> QED
            BY <6>1, <5>1, <1>6, <1>7, <1>8, <1>9
        <5> QED
          BY <5>1, <5>2, <5>3, <4>2
      <4> QED
        BY <4>1, <4>2
    <3>2. colon = Len(h) + 1 /\ colons # {} /\ Cardinality(colons) = 1
      BY <3>1, <1>3, <1>5
    <3>3. SubSeq(s, 1, colon - 1) = h
      BY <3>2, <2>2, <1>6
    <3>4. SubSeq(s, colon + 1, Len(s)) = p
      <4>0. colon + 1 = Len(h) + 2 /\ Len(s) = Len(h) + 1 + Len(p) /\ Len(h) \in Nat /\ Len(p) \in Nat
        BY <3>2, <2>2, <1>6
      <4>1. /\ SubSeq(s, Len(h) + 2, Len(s)) \in Seq(Tokens)
            /\ Len(SubSeq(s, Len(h) + 2, Len(s))) = Len(p)
            /\ \A i \in 1..Len(p) : SubSeq(s, Len(h) + 2, Len(s))[i] = s[Len(h) + 1 + i]
        BY <4>0
      <4> QED
        BY <4>0, <4>1, <2>2, <1>6, SeqEqual
    <3> QED
      BY <3>2, <3>3, <3>4, <1>4
  <2> QED
    BY <2>1, <2>2, <1>7, <1>9
<1>10. ASSUME Unbracketed(s) = [family |-> "inet", host |-> h, port |-> p]
       PROVE  Bare(s, h, p)
  <2>1. CASE colons = {}
    <3>1. h = s /\ p = <<>>
      BY <2>1, <1>4, <1>10
    <3>2. \A i \in 1..Len(h) : h[i] # ":"
      BY <3>1, <2>1, <1>1
    <3>3. \A i \in 1..Len(p) : p[i] # ":"
      BY <3>1
    <3> QED
      BY <3>1, <3>2, <3>3, <1>7, <1>8
  <2>2. CASE colons # {}
    <3>1. /\ Cardinality(colons) = 1
          /\ h = SubSeq(s, 1, colon - 1) /\ p = SubSeq(s, colon + 1, Len(s))
      BY <2>2, <1>4, <1>10
    <3>2. colons = {colon} /\ colon \in 1..Len(s) /\ s[colon] = ":"
      BY <3>1, <1>3, <1>5
    <3>3. Len(h) = colon - 1 /\ \A i \in 1..Len(h) : h[i] = s[i]
      BY <3>1, <3>2
    <3>4. Len(p) = Len(s) - colon /\ \A i \in 1..Len(p) : p[i] = s[colon + i]
      BY <3>1, <3>2
    <3>5. \A i \in 1..Len(s) : i # colon => s[i] # ":"
      BY <3>2, <1>1
    <3>6. \A i \in 1..Len(h) : h[i] # ":"
      BY <3>2, <3>3, <3>5
    <3>7. \A i \in 1..Len(p) : p[i] # ":"
      <4> SUFFICES ASSUME NEW i \in 1..Len(p)
                   PROVE  p[i] # ":"
        OBVIOUS
      <4>1. colon + i \in 1..Len(s) /\ colon + i # colon
        BY <3>2, <3>4
      <4> QED
        BY <4>1, <3>4, <3>5
    <3>8. \A i \in 1..Len(s) : long[i] = s[i]
      <4> SUFFICES ASSUME NEW i \in 1..Len(s)
                   PROVE  long[i] = s[i]
        OBVIOUS
      <4>1. CASE i < colon
        BY <4>1, <3>2, <3>3, <1>6
      <4>2. CASE i = colon
        BY <4>2, <3>2, <3>3, <1>6
      <4>3. CASE i > colon
        <5>1. i - colon \in 1..Len(p) /\ colon + (i - colon) = i /\ Len(h) + 1 = colon
          BY <4>3, <3>2, <3>3, <3>4
        <5> QED
          BY <5>1, <3>4, <1>6
      <4> QED
        BY <4>1, <4>2, <4>3, <3>2
    <3>9. Len(long) = Len(s)
      BY <3>2, <3>3, <3>4, <1>6
    <3>10. s = long
      BY <3>8, <3>9, <1>6, SeqEqual
    <3> QED
      BY <3>6, <3>7, <3>10, <1>7, <1>8
  <2> QED
    BY <2>1, <2>2
<1> QED
  BY <1>9, <1>10

(* The three cases of a text without a bracket first.                      *)
LEMMA UnbracketedIs ==
  ASSUME NEW s \in Seq(Tokens), NEW colons, colons = PositionsOf(s, ":")
  PROVE  Unbracketed(s) = IF colons = {} THEN [family |-> "inet", host |-> s, port |-> <<>>]
                          ELSE IF Cardinality(colons) = 1
                          THEN [family |-> "inet", host |-> SubSeq(s, 1, Min(colons) - 1),
                                port |-> SubSeq(s, Min(colons) + 1, Len(s))]
                          ELSE [family |-> "inet6", host |-> s, port |-> <<>>]
<1>1. ~(colons = {} /\ Cardinality(colons) = 1)
  <2> SUFFICES ASSUME colons = {}
               PROVE  Cardinality(colons) # 1
    OBVIOUS
  <2>1. Cardinality(colons) = 0
    BY FS_EmptySet, Zenon
  <2> QED
    BY <2>1
<1> QED
  BY <1>1 DEF Unbracketed

(* A text with two colons is the whole host.                               *)
LEMMA ColonsMakeHost ==
  ASSUME NEW s \in Seq(Tokens), NEW i \in 1..Len(s), NEW j \in 1..Len(s), i # j,
         s[i] = ":", s[j] = ":"
  PROVE  Unbracketed(s) = [family |-> "inet6", host |-> s, port |-> <<>>]
<1> DEFINE colons == PositionsOf(s, ":")
<1>1. i \in colons /\ j \in colons /\ colons \subseteq 1..Len(s)
  BY DEF PositionsOf
<1>2. IsFiniteSet(colons)
  <2>1. IsFiniteSet(1..Len(s))
    BY FS_Interval
  <2> HIDE DEF colons
  <2> QED
    BY <2>1, <1>1, FS_Subset
<1>3. Cardinality(colons) # 1 /\ colons # {}
  BY <1>1, <1>2, FS_Singleton
<1> HIDE DEF colons
<1> QED
  BY <1>3, UnbracketedIs DEF colons

(* What becomes of a text without a bracket first: a host with or without  *)
(* a port, or all of it a host.                                            *)
LEMMA UnbracketedCases ==
  ASSUME NEW s \in Seq(Tokens)
  PROVE  \/ \E h, p \in Seq(Tokens) : Unbracketed(s) = [family |-> "inet", host |-> h, port |-> p]
         \/ Unbracketed(s) = [family |-> "inet6", host |-> s, port |-> <<>>]
<1> DEFINE colons == PositionsOf(s, ":")
           colon == Min(colons)
<1>1. colons \subseteq 1..Len(s)
  BY DEF PositionsOf
<1>2. CASE colons = {}
  <2>1. Unbracketed(s) = [family |-> "inet", host |-> s, port |-> <<>>]
    BY <1>2, UnbracketedIs
  <2>2. <<>> \in Seq(Tokens)
    OBVIOUS
  <2> QED
    BY <2>1, <2>2
<1>3. CASE colons # {} /\ Cardinality(colons) = 1
  <2>1. colons \subseteq Nat
    BY <1>1
  <2>2. colon \in colons
    BY <2>1, <1>3, LeastNatural
  <2>3. colon \in 1..Len(s)
    BY <2>2, <1>1
  <2>4. Unbracketed(s) = [family |-> "inet", host |-> SubSeq(s, 1, colon - 1),
                          port |-> SubSeq(s, colon + 1, Len(s))]
    BY <1>3, UnbracketedIs
  <2> HIDE DEF colon
  <2>5. SubSeq(s, 1, colon - 1) \in Seq(Tokens) /\ SubSeq(s, colon + 1, Len(s)) \in Seq(Tokens)
    BY <2>3
  <2> QED
    BY <2>4, <2>5
<1>4. CASE colons # {} /\ Cardinality(colons) # 1
  BY <1>4, UnbracketedIs
<1> QED
  BY <1>2, <1>3, <1>4

(* What becomes of a text with a bracket first: a host with or without a   *)
(* port, or nothing.                                                       *)
LEMMA BracketedCases ==
  ASSUME NEW s \in Seq(Tokens)
  PROVE  \/ Bracketed(s) = Unspec
         \/ \E h, p \in Seq(Tokens) : Bracketed(s) = [family |-> "inet6", host |-> h, port |-> p]
<1> DEFINE ends == PositionsOf(s, "]")
           end == Max(ends)
<1>1. ends \subseteq 1..Len(s)
  BY DEF PositionsOf
<1>2. Bracketed(s) = Unspec \/
        (ends # {} /\ Bracketed(s) = [family |-> "inet6", host |-> SubSeq(s, 2, end - 1),
                                      port |-> SubSeq(s, end + 2, Len(s))])
  BY DEF Bracketed
<1>3. ends # {} => end \in 1..Len(s)
  BY <1>1, GreatestPosition
<1> HIDE DEF ends, end
<1>4. ends # {} => /\ SubSeq(s, 2, end - 1) \in Seq(Tokens)
                   /\ SubSeq(s, end + 2, Len(s)) \in Seq(Tokens)
  BY <1>3
<1> QED
  BY <1>2, <1>4

(* A run of tokens of a text is one of its subsequences, and a suffix if   *)
(* it goes to the end.                                                     *)
LEMMA RunIsSubSeq ==
  ASSUME NEW s \in Seq(Tokens), NEW i \in 0..Len(s), NEW j \in i..Len(s),
         NEW h \in Seq(Tokens), Len(h) = j - i, \A k \in 1..Len(h) : h[k] = s[i + k]
  PROVE  h \in SubSeqs(s) /\ (j = Len(s) => h \in Suffixes(s))
<1>1. /\ SubSeq(s, i + 1, j) \in Seq(Tokens) /\ Len(SubSeq(s, i + 1, j)) = j - i
      /\ \A k \in 1..(j - i) : SubSeq(s, i + 1, j)[k] = s[i + k]
  <2>1. \A k \in (i + 1)..j : s[k] \in Tokens
    OBVIOUS
  <2>2. /\ SubSeq(s, i + 1, j) \in Seq(Tokens)
        /\ Len(SubSeq(s, i + 1, j)) = IF i + 1 <= j THEN j - (i + 1) + 1 ELSE 0
        /\ \A k \in 1..(j - (i + 1) + 1) : SubSeq(s, i + 1, j)[k] = s[(i + 1) + k - 1]
    BY <2>1, SubSeqProperties
  <2> QED
    BY <2>2
<1>2. h = SubSeq(s, i + 1, j)
  BY <1>1, SeqEqual
<1>3. h \in SubSeqs(s)
  <2>1. i \in 0..Len(s) /\ j \in 0..Len(s)
    OBVIOUS
  <2>2. \E a, b \in 0..Len(s) : h = SubSeq(s, a + 1, b)
    BY <1>2, <2>1
  <2> QED
    BY <2>2, SMT DEF SubSeqs
<1>4. ASSUME j = Len(s)
      PROVE  h \in Suffixes(s)
  <2>1. CASE i = Len(s)
    <3>1. h = <<>>
      BY <2>1, <1>4
    <3> QED
      BY <3>1 DEF Suffixes
  <2>2. CASE i # Len(s)
    <3>1. i + 1 \in 1..Len(s)
      BY <2>2
    <3> QED
      BY <3>1, <1>2, <1>4 DEF Suffixes
  <2> QED
    BY <2>1, <2>2
<1> QED
  BY <1>3, <1>4

(* The parts of a text that is split are found in it.                      *)
LEMMA PartsOfBare ==
  ASSUME NEW s \in Seq(Tokens), NEW h \in Seq(Tokens), NEW p \in Seq(Tokens), Bare(s, h, p)
  PROVE  /\ h \in SubSeqs(s) /\ p \in Suffixes(s)
         /\ h # <<>> => s # <<>> /\ s[1] = h[1]
<1>1. CASE s = h /\ p = <<>>
  <2>1. h \in SubSeqs(s)
    <3>1. 0 \in 0..Len(s) /\ Len(s) \in 0..Len(s) /\ Len(h) = Len(s) - 0
      BY <1>1
    <3>2. \A k \in 1..Len(h) : h[k] = s[0 + k]
      BY <1>1
    <3> QED
      BY <3>1, <3>2, RunIsSubSeq
  <2> QED
    BY <1>1, <2>1 DEF Suffixes
<1>2. CASE s = h \o <<":">> \o p
  <2> DEFINE head == h \o <<":">>
  <2>1. /\ head \in Seq(Tokens) /\ Len(head) = Len(h) + 1 /\ \A i \in 1..Len(h) : head[i] = h[i]
    BY TokensAssumption
  <2>2. s = Joined(head, p)
    BY <1>2 DEF Joined
  <2> HIDE DEF head
  <2>3. /\ Len(s) = Len(head) + Len(p)
        /\ \A i \in 1..Len(head) : s[i] = head[i]
        /\ \A i \in 1..Len(p) : s[Len(head) + i] = p[i]
    <3>1. HasParts(s, head, p)
      BY <2>1, <2>2, TwoParts, Zenon
    <3> QED
      BY <3>1 DEF HasParts
  <2>4. \A i \in 1..Len(h) : h[i] = s[0 + i]
    BY <2>1, <2>3
  <2>5. h \in SubSeqs(s)
    <3>1. 0 \in 0..Len(s) /\ Len(h) \in 0..Len(s) /\ Len(h) = Len(h) - 0
      BY <2>1, <2>3
    <3> QED
      BY <2>4, <3>1, RunIsSubSeq
  <2>6. p \in Suffixes(s)
    <3>1. Len(head) \in 0..Len(s) /\ Len(s) \in Len(head)..Len(s) /\ Len(p) = Len(s) - Len(head)
      BY <2>1, <2>3
    <3> QED
      BY <3>1, <2>3, RunIsSubSeq
  <2>7. h # <<>> => s # <<>> /\ s[1] = h[1]
    <3> SUFFICES ASSUME h # <<>>
                 PROVE  s # <<>> /\ s[1] = h[1]
      OBVIOUS
    <3>1. 1 \in 1..Len(h) /\ 0 + 1 = 1
      OBVIOUS
    <3> QED
      BY <3>1, <2>1, <2>3, <2>4
  <2> QED
    BY <2>5, <2>6, <2>7
<1> QED
  BY <1>1, <1>2 DEF Bare

LEMMA PartsOfBoxed ==
  ASSUME NEW s \in Seq(Tokens), NEW h \in Seq(Tokens), NEW p \in Seq(Tokens), Boxed(s, h, p)
  PROVE  h \in SubSeqs(s) /\ p \in Suffixes(s) /\ s # <<>> /\ s[1] = "["
<1> DEFINE box == <<"[">> \o h \o <<"]">>
<1>1. <<"[">> \in Seq(Tokens) /\ <<"]">> \in Seq(Tokens) /\ <<":">> \in Seq(Tokens)
  BY TokensAssumption
<1>2. /\ box \in Seq(Tokens) /\ Len(box) = Len(h) + 2 /\ box[1] = "["
      /\ \A i \in 1..Len(h) : box[i + 1] = h[i]
  BY <1>1
<1>3. s = box \o <<":">> \o p \/ (s = box /\ p = <<>>)
  BY DEF Boxed
<1> HIDE DEF box
<1>4. ASSUME NEW n \in Nat, NEW j \in Nat, Len(s) = n + Len(p), j = Len(h) + 1, j < n,
             s[1] = "[",
             \A i \in 1..Len(h) : h[i] = s[1 + i],
             \A i \in 1..Len(p) : p[i] = s[n + i]
      PROVE  h \in SubSeqs(s) /\ p \in Suffixes(s) /\ s # <<>> /\ s[1] = "["
  <2>1. h \in SubSeqs(s)
    <3>1. 1 \in 0..Len(s) /\ j \in 1..Len(s) /\ Len(h) = j - 1
      BY <1>4
    <3> QED
      BY <3>1, <1>4, RunIsSubSeq
  <2>2. p \in Suffixes(s)
    <3>1. n \in 0..Len(s) /\ Len(s) \in n..Len(s) /\ Len(p) = Len(s) - n
      BY <1>4
    <3> QED
      BY <3>1, <1>4, RunIsSubSeq
  <2> QED
    BY <2>1, <2>2, <1>4
<1>5. CASE s = box /\ p = <<>>
  <2>1. Len(s) = Len(box) + Len(p) /\ Len(box) \in Nat /\ Len(h) + 1 \in Nat /\ Len(h) + 1 < Len(box)
    BY <1>2, <1>5
  <2>2. \A i \in 1..Len(h) : h[i] = s[1 + i]
    BY <1>2, <1>5
  <2>3. \A i \in 1..Len(p) : p[i] = s[Len(box) + i]
    BY <1>5
  <2> QED
    BY <2>1, <2>2, <2>3, <1>2, <1>4, <1>5
<1>6. CASE s = box \o <<":">> \o p
  <2> DEFINE head == box \o <<":">>
  <2>1. /\ head \in Seq(Tokens) /\ Len(head) = Len(h) + 3
        /\ \A i \in 1..(Len(h) + 2) : head[i] = box[i]
    BY <1>1, <1>2
  <2>2. s = Joined(head, p)
    BY <1>6 DEF Joined
  <2> HIDE DEF head
  <2>3. /\ Len(s) = Len(head) + Len(p)
        /\ \A i \in 1..Len(head) : s[i] = head[i]
        /\ \A i \in 1..Len(p) : s[Len(head) + i] = p[i]
    <3>1. HasParts(s, head, p)
      BY <2>1, <2>2, TwoParts, Zenon
    <3> QED
      BY <3>1 DEF HasParts
  <2>4. Len(head) \in Nat /\ Len(h) + 1 \in Nat /\ Len(h) + 1 < Len(head)
    BY <2>1
  <2>5. \A i \in 1..(Len(h) + 2) : s[i] = box[i]
    BY <2>1, <2>3
  <2>6. ASSUME NEW i \in 1..Len(h)
        PROVE  h[i] = s[1 + i]
    <3>1. 1 + i \in 1..(Len(h) + 2) /\ 1 + i = i + 1
      OBVIOUS
    <3> QED
      BY <2>5, <1>2, <3>1
  <2>8. s[1] = "["
    BY <2>5, <1>2
  <2> QED
    BY <2>3, <2>4, <2>6, <2>8, <1>4
<1> QED
  BY <1>3, <1>5, <1>6

(* What inet_pton takes for a host: an IPv4 one begins with its literal,   *)
(* an IPv6 one with a digit or a colon, and it has two colons at least.    *)
LEMMA FourHost ==
  ASSUME NEW h \in Seq(Tokens), Is4(CString(h))
  PROVE  h # <<>> /\ h[1] = "v4" /\ h # <<"*">>
<1>1. CString(h) = <<"v4">>
  BY DEF Is4
<1>2. Len(CString(h)) = 1 /\ CString(h)[1] = "v4"
  BY <1>1
<1>3. 1 <= Len(h) /\ h[1] = "v4"
  BY <1>2, CStringIsPrefix
<1> QED
  BY <1>3

LEMMA SixHost ==
  ASSUME NEW h \in Seq(Tokens), Is6(CString(h))
  PROVE  /\ h # <<>> /\ h[1] \in {":", "0", "1", "9", "v4"} /\ h # <<"*">>
         /\ \E i, j \in 1..Len(h) : i # j /\ h[i] = ":" /\ h[j] = ":"
<1> DEFINE c == CString(h)
           gaps == {i \in 1..(Len(c) - 1) : c[i] = ":" /\ c[i + 1] = ":"}
           colons == {i \in 1..Len(c) : c[i] = ":"}
<1>1. /\ c \in Seq(Tokens) /\ Len(c) <= Len(h) /\ Len(c) \in Nat /\ Len(h) \in Nat
      /\ \A i \in 1..Len(c) : c[i] = h[i]
  BY CStringIsPrefix
<1>2. /\ \A i \in 1..Len(c) : c[i] \in {":", "0", "1", "9", "v4"}
      /\ Cardinality(gaps) = 1 \/ Cardinality(colons) + Dotted(c) = 7
  <2>1. ToSet(c) \subseteq {":", "0", "1", "9", "v4"}
    BY Zenon DEF Is6
  <2>2. Cardinality(Gaps(c)) = 1 \/ Cardinality(Colons(c)) + Dotted(c) = 7
    BY Zenon DEF Is6
  <2>3. Gaps(c) = gaps /\ Colons(c) = colons
    BY Zenon DEF Gaps, Colons
  <2>4. \A i \in 1..Len(c) : c[i] \in ToSet(c)
    BY <1>1 DEF ToSet
  <2> QED
    BY <2>1, <2>2, <2>3, <2>4, Zenon
<1>3. \E i, j \in 1..Len(c) : i # j /\ c[i] = ":" /\ c[j] = ":"
  <2>1. CASE Cardinality(gaps) = 1
    <3>1. gaps # {}
      <4> SUFFICES ASSUME gaps = {}
                   PROVE  Cardinality(gaps) # 1
        BY <2>1
      <4> HIDE DEF gaps
      <4>1. Cardinality(gaps) = 0
        BY FS_EmptySet, Zenon
      <4> QED
        BY <4>1
    <3>2. PICK i \in 1..(Len(c) - 1) : c[i] = ":" /\ c[i + 1] = ":"
      BY <3>1
    <3>3. i \in 1..Len(c) /\ i + 1 \in 1..Len(c) /\ i # i + 1
      BY <1>1, <3>2
    <3> HIDE DEF c
    <3> QED
      BY <3>2, <3>3
  <2>2. CASE Cardinality(colons) + Dotted(c) = 7
    <3>1. IsFiniteSet(colons)
      <4>1. IsFiniteSet(1..Len(c)) /\ colons \subseteq 1..Len(c)
        BY <1>1, FS_Interval
      <4> HIDE DEF colons
      <4> QED
        BY <4>1, FS_Subset
    <3>2. Cardinality(colons) # 0 /\ Cardinality(colons) # 1
      <4>1. Dotted(c) \in {0, 1}
        BY DEF Dotted
      <4>2. Cardinality(colons) \in Nat
        <5> HIDE DEF colons
        <5> QED
          BY <3>1, FS_CardinalityType
      <4> HIDE DEF colons
      <4> QED
        BY <2>2, <4>1, <4>2
    <3> HIDE DEF colons
    <3>3. PICK i \in colons : TRUE
      BY <3>1, <3>2, FS_EmptySet
    <3>4. colons # {i}
      BY <3>2, FS_Singleton
    <3>5. PICK j \in colons : j # i
      BY <3>3, <3>4
    <3> QED
      BY <3>3, <3>5 DEF colons
  <2> QED
    BY <1>2, <2>1, <2>2
<1> HIDE DEF c
<1>4. PICK i, j \in 1..Len(c) : i # j /\ c[i] = ":" /\ c[j] = ":"
  BY <1>3
<1>5. i \in 1..Len(h) /\ j \in 1..Len(h) /\ 1 \in 1..Len(c) /\ 1 \in 1..Len(h)
  BY <1>1
<1>6. h[i] = ":" /\ h[j] = ":" /\ h[1] \in {":", "0", "1", "9", "v4"}
  BY <1>1, <1>2, <1>4, <1>5
<1> QED
  BY <1>4, <1>5, <1>6

---------------------------------------------------------------------------
(* The scanner and the grammar.                                            *)

SplitOf(s) == IF s # <<>> /\ s[1] = "[" THEN Bracketed(s) ELSE Unbracketed(s)

Split(family, h, p) == [family |-> family, host |-> h, port |-> p]

(* An IPv4 host is read where the scanner finds one.                       *)
LEMMA FourIsSplit ==
  ASSUME NEW s \in Seq(Tokens), NEW h \in Seq(Tokens), NEW p \in Seq(Tokens), Is4(CString(h))
  PROVE  Bare(s, h, p) <=> SplitOf(s) = Split("inet", h, p)
<1>1. ASSUME Bare(s, h, p)
      PROVE  SplitOf(s) = Split("inet", h, p)
  <2>1. s # <<>> /\ s[1] = "v4"
    BY <1>1, FourHost, PartsOfBare
  <2>2. SplitOf(s) = Unbracketed(s)
    BY <2>1 DEF SplitOf
  <2> QED
    BY <1>1, <2>2, ColonSplits DEF Split
<1>2. ASSUME SplitOf(s) = Split("inet", h, p)
      PROVE  Bare(s, h, p)
  <2>1. CASE s # <<>> /\ s[1] = "["
    <3>1. Bracketed(s) = [family |-> "inet", host |-> h, port |-> p]
      BY <1>2, <2>1 DEF SplitOf, Split
    <3> QED
      BY <3>1, BracketedCases DEF Unspec
  <2>2. CASE ~(s # <<>> /\ s[1] = "[")
    <3>1. Unbracketed(s) = [family |-> "inet", host |-> h, port |-> p]
      BY <1>2, <2>2 DEF SplitOf, Split
    <3> QED
      BY <3>1, ColonSplits
  <2> QED
    BY <2>1, <2>2
<1> QED
  BY <1>1, <1>2

(* An IPv6 host is read where the scanner finds one.                       *)
LEMMA SixIsSplit ==
  ASSUME NEW s \in Seq(Tokens), NEW h \in Seq(Tokens), NEW p \in Seq(Tokens), Is6(CString(h))
  PROVE  (Boxed(s, h, p) \/ (s = h /\ p = <<>>)) <=> SplitOf(s) = Split("inet6", h, p)
<1>1. ASSUME Boxed(s, h, p)
      PROVE  SplitOf(s) = Split("inet6", h, p)
  <2>1. s # <<>> /\ s[1] = "["
    BY <1>1, PartsOfBoxed
  <2>2. SplitOf(s) = Bracketed(s)
    BY <2>1 DEF SplitOf
  <2> QED
    BY <1>1, <2>1, <2>2, BracketsSplit DEF Split
<1>2. ASSUME s = h, p = <<>>
      PROVE  SplitOf(s) = Split("inet6", h, p)
  <2>1. s # <<>> /\ s[1] # "["
    <3>1. s[1] \in {":", "0", "1", "9", "v4"} /\ s # <<>>
      BY <1>2, SixHost
    <3> QED
      BY <3>1
  <2>2. SplitOf(s) = Unbracketed(s)
    BY <2>1 DEF SplitOf
  <2>3. PICK i, j \in 1..Len(s) : i # j /\ s[i] = ":" /\ s[j] = ":"
    BY <1>2, SixHost
  <2> QED
    BY <1>2, <2>2, <2>3, ColonsMakeHost DEF Split
<1>3. ASSUME SplitOf(s) = Split("inet6", h, p)
      PROVE  Boxed(s, h, p) \/ (s = h /\ p = <<>>)
  <2>1. CASE s # <<>> /\ s[1] = "["
    <3>1. Bracketed(s) = [family |-> "inet6", host |-> h, port |-> p]
      BY <1>3, <2>1 DEF SplitOf, Split
    <3> QED
      BY <3>1, <2>1, BracketsSplit
  <2>2. CASE ~(s # <<>> /\ s[1] = "[")
    <3>1. Unbracketed(s) = [family |-> "inet6", host |-> h, port |-> p]
      BY <1>3, <2>2 DEF SplitOf, Split
    <3> QED
      BY <3>1, UnbracketedCases
  <2> QED
    BY <2>1, <2>2
<1> QED
  BY <1>1, <1>2, <1>3

(* "*" is read where the scanner finds it, for either family.              *)
LEMMA AnyIsSplit ==
  ASSUME NEW s \in Seq(Tokens), NEW p \in Seq(Tokens), NEW h, h = <<"*">>
  PROVE  (Bare(s, h, p) \/ Boxed(s, h, p)) <=>
           SplitOf(s) = Split("inet", h, p) \/ SplitOf(s) = Split("inet6", h, p)
<1>0. h \in Seq(Tokens) /\ h # <<>> /\ h[1] = "*" /\ ToSet(h) = {"*"}
  BY TokensAssumption DEF ToSet
<1>1. ASSUME Bare(s, h, p)
      PROVE  SplitOf(s) = Split("inet", h, p)
  <2>1. s # <<>> /\ s[1] = "*"
    BY <1>0, <1>1, PartsOfBare
  <2>2. SplitOf(s) = Unbracketed(s)
    BY <2>1 DEF SplitOf
  <2> QED
    BY <1>0, <1>1, <2>2, ColonSplits DEF Split
<1>2. ASSUME Boxed(s, h, p)
      PROVE  SplitOf(s) = Split("inet6", h, p)
  <2>1. s # <<>> /\ s[1] = "["
    BY <1>0, <1>2, PartsOfBoxed
  <2>2. SplitOf(s) = Bracketed(s)
    BY <2>1 DEF SplitOf
  <2> QED
    BY <1>0, <1>2, <2>1, <2>2, BracketsSplit DEF Split
<1>3. ASSUME SplitOf(s) = Split("inet", h, p) \/ SplitOf(s) = Split("inet6", h, p)
      PROVE  Bare(s, h, p) \/ Boxed(s, h, p)
  <2>1. CASE s # <<>> /\ s[1] = "["
    <3>1. Bracketed(s) = [family |-> "inet6", host |-> h, port |-> p]
      BY <1>3, <2>1, BracketedCases DEF SplitOf, Split, Unspec
    <3> QED
      BY <1>0, <3>1, <2>1, BracketsSplit
  <2>2. CASE ~(s # <<>> /\ s[1] = "[")
    <3>1. \/ Unbracketed(s) = [family |-> "inet", host |-> h, port |-> p]
          \/ Unbracketed(s) = [family |-> "inet6", host |-> h, port |-> p]
      BY <1>3, <2>2 DEF SplitOf, Split
    <3>2. CASE Unbracketed(s) = [family |-> "inet", host |-> h, port |-> p]
      BY <1>0, <3>2, ColonSplits
    <3>3. CASE Unbracketed(s) = [family |-> "inet6", host |-> h, port |-> p]
      <4>1. s = h /\ p = <<>>
        BY <3>3, UnbracketedCases
      <4>2. ":" \notin ToSet(h) \cup ToSet(p)
        BY <1>0, <4>1 DEF ToSet
      <4> QED
        BY <4>1, <4>2 DEF Bare
    <3> QED
      BY <3>1, <3>2, <3>3
  <2> QED
    BY <2>1, <2>2
<1> QED
  BY <1>1, <1>2, <1>3

(* The two ways to read a text: what the grammar calls a reading of it...  *)
IsReading(s, h, p, x) ==
  /\ IsPort(p)
  /\ \/ /\ Is4(CString(h)) /\ Bare(s, h, p)
        /\ x = Inet("inet", CString(h), PortOf(p, PortHint), FALSE)
     \/ /\ Is6(CString(h)) /\ (Boxed(s, h, p) \/ (s = h /\ p = <<>>))
        /\ x = Inet("inet6", CString(h), PortOf(p, PortHint), FALSE)
     \/ /\ h = <<"*">> /\ (Bare(s, h, p) \/ Boxed(s, h, p))
        /\ x = TryParseAsWildcard(PortOf(p, PortHint))

(* ... and what becomes of the scanner's parts.                            *)
AddressOf(family, h, p) ==
  IF ~IsPort(p) THEN EINVAL
  ELSE IF h = <<"*">> THEN TryParseAsWildcard(PortOf(p, PortHint))
  ELSE IF InetPton(family, CString(h))
  THEN Inet(family, CString(h), PortOf(p, PortHint), FALSE)
  ELSE EINVAL

LEMMA ReadingsAre ==
  ASSUME NEW s \in Seq(Tokens), NEW x
  PROVE  x \in Readings(s, ScannedPorts(s, PortHint)) <=>
           \E h, p \in Seq(Tokens) : IsReading(s, h, p, x)
<1> DEFINE ports == {p \in Suffixes(s) : IsPort(p)}
           values == ScannedPorts(s, PortHint)
           hosts4 == {h \in SubSeqs(s) : Is4(CString(h))}
           hosts6 == {h \in SubSeqs(s) : Is6(CString(h))}
           four == {y \in hosts4 \X ports : Bare(s, y[1], y[2])}
           six == {y \in hosts6 \X ports : Boxed(s, y[1], y[2]) \/ (s = y[1] /\ y[2] = <<>>)}
           any == {y \in {<<"*">>} \X ports : Bare(s, y[1], y[2]) \/ Boxed(s, y[1], y[2])}
           F4(y) == Inet("inet", CString(y[1]), PortOf(y[2], PortHint), FALSE)
           F6(y) == Inet("inet6", CString(y[1]), PortOf(y[2], PortHint), FALSE)
           FA(y) == TryParseAsWildcard(PortOf(y[2], PortHint))
<1>0. DOMAIN values = ports /\ \A p \in ports : values[p] = PortOf(p, PortHint)
  BY DEF ScannedPorts
<1>1. x \in Readings(s, values) <=>
        (\E y \in four : x = F4(y)) \/ (\E y \in six : x = F6(y)) \/ (\E y \in any : x = FA(y))
  <2> DEFINE V4(y) == Inet("inet", CString(y[1]), values[y[2]], FALSE)
             V6(y) == Inet("inet6", CString(y[1]), values[y[2]], FALSE)
             VA(y) == TryParseAsWildcard(values[y[2]])
  <2> HIDE DEF values, ports, hosts4, hosts6
  <2>1. x \in Readings(s, values) <=>
          (\E y \in four : x = V4(y)) \/ (\E y \in six : x = V6(y)) \/ (\E y \in any : x = VA(y))
    <3> USE <1>0
    <3> QED
      BY DEF Readings, hosts4, hosts6
  <2>2. \A y \in four \cup six \cup any : y[2] \in ports /\ values[y[2]] = PortOf(y[2], PortHint)
    BY <1>0
  <2>3. /\ \A y \in four : V4(y) = F4(y)
        /\ \A y \in six : V6(y) = F6(y)
        /\ \A y \in any : VA(y) = FA(y)
    BY <2>2
  <2> HIDE DEF V4, V6, VA, F4, F6, FA, four, six, any
  <2> QED
    BY <2>1, <2>3
<1> HIDE DEF values
<1>2. ASSUME NEW h \in Seq(Tokens), NEW p \in Seq(Tokens), IsReading(s, h, p, x)
      PROVE  h \in SubSeqs(s) /\ p \in Suffixes(s)
  <2>1. CASE s = h /\ p = <<>>
    <3>1. 0 \in 0..Len(s) /\ Len(s) \in 0..Len(s) /\ Len(h) = Len(s) - 0
      BY <2>1
    <3>2. \A k \in 1..Len(h) : h[k] = s[0 + k]
      BY <2>1
    <3>3. h \in SubSeqs(s)
      BY <3>1, <3>2, RunIsSubSeq
    <3> QED
      BY <2>1, <3>3 DEF Suffixes
  <2>2. CASE Bare(s, h, p)
    BY <2>2, PartsOfBare
  <2>3. CASE Boxed(s, h, p)
    BY <2>3, PartsOfBoxed
  <2> QED
    BY <1>2, <2>1, <2>2, <2>3 DEF IsReading
<1>3. SubSeqs(s) \subseteq Seq(Tokens) /\ Suffixes(s) \subseteq Seq(Tokens)
  <2>1. ASSUME NEW i \in Nat, NEW j \in 0..Len(s), i >= 1
        PROVE  SubSeq(s, i, j) \in Seq(Tokens)
    <3>1. \A k \in i..j : s[k] \in Tokens
      BY <2>1
    <3> QED
      BY <3>1, <2>1, SubSeqProperties
  <2>2. ASSUME NEW i \in 0..Len(s), NEW j \in 0..Len(s)
        PROVE  SubSeq(s, i + 1, j) \in Seq(Tokens)
    BY <2>1
  <2>3. ASSUME NEW i \in 1..Len(s)
        PROVE  SubSeq(s, i, Len(s)) \in Seq(Tokens)
    BY <2>1
  <2> DEFINE Part(i, j) == SubSeq(s, i + 1, j)
             End(i) == SubSeq(s, i, Len(s))
  <2>4. SubSeqs(s) \subseteq Seq(Tokens)
    <3>1. SubSeqs(s) = {Part(i, j) : i, j \in 0..Len(s)}
      BY DEF SubSeqs
    <3>2. \A i, j \in 0..Len(s) : Part(i, j) \in Seq(Tokens)
      BY <2>2
    <3> HIDE DEF Part
    <3> QED
      BY <3>1, <3>2, SMT
  <2>5. Suffixes(s) \subseteq Seq(Tokens)
    <3>1. Suffixes(s) = {End(i) : i \in 1..Len(s)} \cup {<<>>}
      BY Zenon DEF Suffixes
    <3>2. \A i \in 1..Len(s) : End(i) \in Seq(Tokens)
      BY <2>3
    <3>3. <<>> \in Seq(Tokens)
      OBVIOUS
    <3> HIDE DEF End
    <3> QED
      BY <3>1, <3>2, <3>3, Zenon
  <2> QED
    BY <2>4, <2>5
<1>4. ASSUME NEW h \in Seq(Tokens), NEW p \in Seq(Tokens), IsReading(s, h, p, x)
      PROVE  x \in Readings(s, values)
  <2> DEFINE y == <<h, p>>
  <2>1. /\ y[1] = h /\ y[2] = p /\ p \in ports
        /\ Is4(CString(h)) => y \in hosts4 \X ports
        /\ Is6(CString(h)) => y \in hosts6 \X ports
        /\ h = <<"*">> => y \in {<<"*">>} \X ports
    BY <1>2, <1>4 DEF IsReading
  <2> HIDE DEF y, ports, hosts4, hosts6
  <2>2. \/ y \in four /\ x = F4(y)
        \/ y \in six /\ x = F6(y)
        \/ y \in any /\ x = FA(y)
    BY <1>4, <2>1 DEF IsReading
  <2> HIDE DEF four, six, any, F4, F6, FA
  <2> QED
    BY <1>1, <2>2
<1>5. ASSUME x \in Readings(s, values)
      PROVE  \E h, p \in Seq(Tokens) : IsReading(s, h, p, x)
  <2>1. PICK y : \/ y \in four /\ x = F4(y)
                 \/ y \in six /\ x = F6(y)
                 \/ y \in any /\ x = FA(y)
    BY <1>1, <1>5
  <2>2. y[1] \in Seq(Tokens) /\ y[2] \in Seq(Tokens) /\ IsPort(y[2])
    <3>1. <<"*">> \in Seq(Tokens)
      BY TokensAssumption
    <3> QED
      BY <1>3, <2>1, <3>1
  <2>3. IsReading(s, y[1], y[2], x)
    BY <2>1, <2>2 DEF IsReading
  <2> QED
    BY <2>2, <2>3
<1> QED
  BY <1>4, <1>5 DEF values

(* What the scanner's parts become.                                        *)
LEMMA ParseOfSplit ==
  ASSUME NEW s \in Seq(Tokens)
  PROVE  /\ SplitOf(s) = Unspec => TryParseAsTcpAddress(s, PortHint) = EINVAL
         /\ \A h, p \in Seq(Tokens), family \in {"inet", "inet6"} :
              SplitOf(s) = Split(family, h, p) =>
                TryParseAsTcpAddress(s, PortHint) = AddressOf(family, h, p)
<1> DEFINE ex == ExtractFamilyHostAndPort(s, PortHint)
<1>0. TryParseAsTcpAddress(s, PortHint) =
        IF ex = Unspec THEN EINVAL
        ELSE IF ex.host = <<"*">> THEN TryParseAsWildcard(ex.port)
        ELSE IF InetPton(ex.family, CString(ex.host))
        THEN Inet(ex.family, CString(ex.host), ex.port, FALSE)
        ELSE EINVAL
  BY DEF TryParseAsTcpAddress
<1>1. ASSUME SplitOf(s) = Unspec
      PROVE  TryParseAsTcpAddress(s, PortHint) = EINVAL
  <2>1. ex = Unspec
    BY <1>1 DEF ExtractFamilyHostAndPort, SplitOf
  <2> QED
    BY <1>0, <2>1
<1>2. ASSUME NEW h \in Seq(Tokens), NEW p \in Seq(Tokens), NEW family \in {"inet", "inet6"},
             SplitOf(s) = Split(family, h, p)
      PROVE  TryParseAsTcpAddress(s, PortHint) = AddressOf(family, h, p)
  <2> DEFINE port == PortOf(p, PortHint)
  <2>1. Split(family, h, p) # Unspec
    BY DEF Split, Unspec
  <2>2. ex = IF port \notin 0..PortMax THEN Unspec ELSE [Split(family, h, p) EXCEPT !.port = port]
    <3>1. Split(family, h, p).port = p
      BY DEF Split
    <3> QED
      BY <1>2, <2>1, <3>1 DEF ExtractFamilyHostAndPort, SplitOf
  <2>3. IsPort(p) <=> port \in 0..PortMax
    BY PortMaxAssumption DEF IsPort, PortOf, PortHint
  <2> HIDE DEF port
  <2>4. [Split(family, h, p) EXCEPT !.port = port] = Split(family, h, port)
    BY DEF Split
  <2>5. Split(family, h, port) # Unspec
    BY DEF Split, Unspec
  <2>6. /\ Split(family, h, port).host = h /\ Split(family, h, port).family = family
        /\ Split(family, h, port).port = port
    BY DEF Split
  <2> HIDE DEF ex
  <2>7. CASE IsPort(p)
    <3>1. ex = Split(family, h, port)
      BY <2>2, <2>3, <2>4, <2>7
    <3> QED
      BY <1>0, <3>1, <2>5, <2>6, <2>7 DEF AddressOf, port
  <2>8. CASE ~IsPort(p)
    BY <1>0, <2>2, <2>3, <2>8 DEF AddressOf
  <2> QED
    BY <2>7, <2>8
<1> QED
  BY <1>1, <1>2

LEMMA AddressesAreNoErrors ==
  ASSUME NEW family, NEW host, NEW port, NEW wildcard
  PROVE  ~Failed(Inet(family, host, port, wildcard)) /\ ~Failed(TryParseAsWildcard(port))
BY DEF Failed, EINVAL, Inet, TryParseAsWildcard

(* The address of a TCP text is its only reading.                          *)
LEMMA ScannerMatchesGrammar ==
  ASSUME NEW s \in Seq(Tokens), NEW a, a = TryParseAsTcpAddress(s, PortHint)
  PROVE  Readings(s, ScannedPorts(s, PortHint)) = IF Failed(a) THEN {} ELSE {a}
<1>1. ASSUME NEW h \in Seq(Tokens), NEW p \in Seq(Tokens), NEW x, IsReading(s, h, p, x)
      PROVE  ~Failed(a) /\ x = a
  <2>1. CASE /\ Is4(CString(h)) /\ Bare(s, h, p)
             /\ x = Inet("inet", CString(h), PortOf(p, PortHint), FALSE)
    <3>1. a = AddressOf("inet", h, p)
      BY <2>1, FourIsSplit, ParseOfSplit
    <3>2. h # <<"*">>
      BY <2>1, FourHost
    <3>3. a = x
      BY <1>1, <2>1, <3>1, <3>2 DEF AddressOf, InetPton, IsReading
    <3> QED
      BY <2>1, <3>3, AddressesAreNoErrors
  <2>2. CASE /\ Is6(CString(h)) /\ (Boxed(s, h, p) \/ (s = h /\ p = <<>>))
             /\ x = Inet("inet6", CString(h), PortOf(p, PortHint), FALSE)
    <3>1. a = AddressOf("inet6", h, p)
      BY <2>2, SixIsSplit, ParseOfSplit
    <3>2. h # <<"*">>
      BY <2>2, SixHost
    <3>3. a = x
      BY <1>1, <2>2, <3>1, <3>2 DEF AddressOf, InetPton, IsReading
    <3> QED
      BY <2>2, <3>3, AddressesAreNoErrors
  <2>3. CASE /\ h = <<"*">> /\ (Bare(s, h, p) \/ Boxed(s, h, p))
             /\ x = TryParseAsWildcard(PortOf(p, PortHint))
    <3>1. SplitOf(s) = Split("inet", h, p) \/ SplitOf(s) = Split("inet6", h, p)
      BY <2>3, AnyIsSplit
    <3>2. a = AddressOf("inet", h, p) \/ a = AddressOf("inet6", h, p)
      BY <3>1, ParseOfSplit
    <3>3. a = x
      BY <1>1, <2>3, <3>2 DEF AddressOf, IsReading
    <3> QED
      BY <2>3, <3>3, AddressesAreNoErrors
  <2> QED
    BY <1>1, <2>1, <2>2, <2>3 DEF IsReading
<1>2. ASSUME ~Failed(a)
      PROVE  \E h, p \in Seq(Tokens) : IsReading(s, h, p, a)
  <2>1. SplitOf(s) # Unspec
    BY <1>2, ParseOfSplit DEF Failed
  <2>2. PICK family \in {"inet", "inet6"}, h \in Seq(Tokens), p \in Seq(Tokens) :
          SplitOf(s) = Split(family, h, p)
    <3>1. CASE s # <<>> /\ s[1] = "["
      <4>1. SplitOf(s) = Bracketed(s)
        BY <3>1 DEF SplitOf
      <4>2. PICK h \in Seq(Tokens), p \in Seq(Tokens) : SplitOf(s) = Split("inet6", h, p)
        BY <2>1, <4>1, BracketedCases DEF Split
      <4> QED
        BY <4>2
    <3>2. CASE ~(s # <<>> /\ s[1] = "[")
      <4>1. SplitOf(s) = Unbracketed(s)
        BY <3>2 DEF SplitOf
      <4>2. \/ \E h, p \in Seq(Tokens) : SplitOf(s) = Split("inet", h, p)
            \/ SplitOf(s) = Split("inet6", s, <<>>)
        BY <4>1, UnbracketedCases DEF Split
      <4>3. <<>> \in Seq(Tokens)
        OBVIOUS
      <4> QED
        BY <4>2, <4>3, Zenon
    <3> QED
      BY <3>1, <3>2
  <2>3. a = AddressOf(family, h, p)
    BY <2>2, ParseOfSplit
  <2>4. IsPort(p) /\ (h = <<"*">> \/ InetPton(family, CString(h)))
    BY <1>2, <2>3 DEF AddressOf, Failed
  <2>5. CASE h = <<"*">>
    <3>1. a = TryParseAsWildcard(PortOf(p, PortHint))
      BY <2>3, <2>4, <2>5 DEF AddressOf
    <3>2. Bare(s, h, p) \/ Boxed(s, h, p)
      BY <2>2, <2>5, AnyIsSplit
    <3> QED
      BY <2>4, <2>5, <3>1, <3>2 DEF IsReading
  <2>6. CASE h # <<"*">> /\ family = "inet"
    <3>1. Is4(CString(h)) /\ a = Inet("inet", CString(h), PortOf(p, PortHint), FALSE)
      BY <2>3, <2>4, <2>6 DEF AddressOf, InetPton
    <3>2. Bare(s, h, p)
      BY <2>2, <2>6, <3>1, FourIsSplit
    <3> QED
      BY <2>4, <3>1, <3>2 DEF IsReading
  <2>7. CASE h # <<"*">> /\ family = "inet6"
    <3>1. Is6(CString(h)) /\ a = Inet("inet6", CString(h), PortOf(p, PortHint), FALSE)
      BY <2>3, <2>4, <2>7 DEF AddressOf, InetPton
    <3>2. Boxed(s, h, p) \/ (s = h /\ p = <<>>)
      BY <2>2, <2>7, <3>1, SixIsSplit
    <3> QED
      BY <2>4, <3>1, <3>2 DEF IsReading
  <2> QED
    BY <2>2, <2>5, <2>6, <2>7
<1>3. \A x : x \in Readings(s, ScannedPorts(s, PortHint)) <=> ~Failed(a) /\ x = a
  BY <1>1, <1>2, ReadingsAre
<1> QED
  BY <1>3

---------------------------------------------------------------------------
(* What a connection string can become.                                    *)

LEMMA TcpAddressIsInet ==
  ASSUME NEW s \in Seq(Tokens), ~Failed(TryParseAsTcpAddress(s, PortHint))
  PROVE  /\ IsAnyInet(TryParseAsTcpAddress(s, PortHint))
         /\ TryParseAsTcpAddress(s, PortHint).family # "unix"
<1>1. PICK a : a = TryParseAsTcpAddress(s, PortHint)
  OBVIOUS
<1>2. a \in Readings(s, ScannedPorts(s, PortHint))
  BY <1>1, ScannerMatchesGrammar
<1>3. PICK h \in Seq(Tokens), p \in Seq(Tokens) : IsReading(s, h, p, a)
  BY <1>2, ReadingsAre
<1>4. a.family = "inet" \/ a.family = "inet6"
  BY <1>3 DEF IsReading, Inet, TryParseAsWildcard
<1> QED
  BY <1>1, <1>4 DEF IsAnyInet

LEMMA SchemeAndFamily ==
  ASSUME NEW s \in ConnectionStrings, ~Failed(Parse(s, PortHint))
  PROVE  \/ /\ s.scheme \in {"unix:", "unix-abstract:"} /\ Parse(s, PortHint).family = "unix"
            /\ ~IsAnyInet(Parse(s, PortHint))
         \/ /\ s.scheme = "tcp://" /\ Parse(s, PortHint) = TryParseAsTcpAddress(s.rest, PortHint)
            /\ IsAnyInet(Parse(s, PortHint)) /\ Parse(s, PortHint).family # "unix"
<1>0. s.rest \in Seq(Tokens)
  BY DEF ConnectionStrings
<1>1. CASE s.scheme = "unix:"
  <2>1. Parse(s, PortHint) = TryParseAsUnixDomain(s.rest)
    BY <1>1 DEF Parse
  <2>2. Parse(s, PortHint).family = "unix"
    BY <2>1 DEF TryParseAsUnixDomain, Failed
  <2> QED
    BY <1>1, <2>2 DEF IsAnyInet
<1>2. CASE s.scheme = "unix-abstract:"
  <2>1. Parse(s, PortHint) = TryParseAsAbstractUnixDomain(s.rest)
    BY <1>2 DEF Parse
  <2>2. Parse(s, PortHint).family = "unix"
    BY <2>1 DEF TryParseAsAbstractUnixDomain, Failed
  <2> QED
    BY <1>2, <2>2 DEF IsAnyInet
<1>3. CASE s.scheme = "tcp://"
  <2>1. Parse(s, PortHint) = TryParseAsTcpAddress(s.rest, PortHint)
    BY <1>3 DEF Parse
  <2> QED
    BY <1>0, <1>3, <2>1, TcpAddressIsInet
<1>4. CASE s.scheme \notin {"unix:", "unix-abstract:", "tcp://"}
  BY <1>4 DEF Parse, Failed
<1> QED
  BY <1>1, <1>2, <1>3, <1>4
---------------------------------------------------------------------------
(* The daemons and the client.                                             *)

(* No two daemons have the address as far as its kind forbids it: a path   *)
(* or an abstract name from bind on, a TCP address from listen on.         *)
Exclusive ==
  ~Ephemeral(ServerAddress) =>
    /\ \A d, e \in listening : d = e
    /\ ~IsAnyInet(ServerAddress) => \A d, e \in Holders : d = e

(* Whoever has a path has its file, and a file has a daemon or had one.    *)
FilesHaveDaemons ==
  /\ IsPath(ServerAddress) /\ Holders # {} => ServerAddress \in files
  /\ files # {} => IsPath(ServerAddress) /\ (Holders # {} \/ ended)

(* Whoever has an address has one; a client that is connected was told so  *)
(* for an address that reaches the daemon's, one that missed it for one    *)
(* that does not.                                                          *)
EndpointInv ==
  /\ text \in ConnectionStrings /\ asked \in ConnectionStrings
  /\ ended \in BOOLEAN
  /\ bound \cap listening = {}
  /\ Holders # {} => ~Failed(ServerAddress)
  /\ Exclusive /\ FilesHaveDaemons
  /\ client \in {"connected", "missed"} =>
       /\ ~Failed(ServerAddress) /\ ~Failed(ClientAddress)
       /\ client = "connected" <=> Reaches(ClientAddress, ServerAddress)
  /\ RefusedBindHasHolder

LEMMA EndpointInvInit == Init => EndpointInv
<1> SUFFICES ASSUME Init
             PROVE  EndpointInv
  OBVIOUS
<1> DEFINE same == {<<s, s>> : s \in Strings}
<1>0. PICK p \in same \cup Pairs : text = p[1] /\ asked = p[2]
  BY DEF Init
<1>1. text \in ConnectionStrings /\ asked \in ConnectionStrings
  <2>1. CASE p \in same
    BY <1>0, <2>1, StringsAssumption
  <2>2. CASE p \in Pairs
    BY <1>0, <2>2, PairsAssumption
  <2> QED
    BY <2>1, <2>2
<1>2. /\ bound = {} /\ listening = {} /\ files = {} /\ ended = FALSE
      /\ client = "none" /\ ~refusal.refused
  BY DEF Init, NoRefusal
<1>3. Holders = {}
  BY <1>2 DEF Holders
<1>4. Exclusive /\ FilesHaveDaemons
  BY <1>2, <1>3 DEF Exclusive, FilesHaveDaemons
<1> QED
  BY <1>1, <1>2, <1>3, <1>4 DEF EndpointInv, RefusedBindHasHolder

LEMMA EndpointInvNext == EndpointInv /\ [Next]_vars => EndpointInv'
<1> SUFFICES ASSUME EndpointInv, [Next]_vars
             PROVE  EndpointInv'
  OBVIOUS
<1> USE DEF kernel
<1>1. text' = text /\ asked' = asked
  BY DEF Next, vars, Bind, BindFails, Refused, Listen, ListenFails, StopServer, TimeWaitEnds,
         StartClient, StartClientFails
<1>2. ServerAddress' = ServerAddress /\ ClientAddress' = ClientAddress
  BY <1>1 DEF ServerAddress, ClientAddress
<1>3. Reaches(ClientAddress, ServerAddress)' = Reaches(ClientAddress, ServerAddress)
  BY <1>2 DEF Reaches
<1>4. /\ Failed(ServerAddress)' = Failed(ServerAddress)
      /\ Failed(ClientAddress)' = Failed(ClientAddress)
      /\ Ephemeral(ServerAddress)' = Ephemeral(ServerAddress)
      /\ IsAnyInet(ServerAddress)' = IsAnyInet(ServerAddress)
      /\ IsPath(ServerAddress)' = IsPath(ServerAddress)
  BY <1>2 DEF Failed, Ephemeral, IsAnyInet, IsPath
<1>5. IsPath(ServerAddress) => ~IsAnyInet(ServerAddress) /\ ~Ephemeral(ServerAddress)
  BY DEF IsPath, IsAnyInet, Ephemeral
<1>6. Ephemeral(ServerAddress) => IsAnyInet(ServerAddress)
  BY DEF Ephemeral
<1> DEFINE S == ServerAddress
(* Everything but the client's and the daemons' own parts.                 *)
<1>7. ASSUME client' = client, refusal' = refusal, ended' \in BOOLEAN, bound' \cap listening' = {},
             Holders' # {} => ~Failed(ServerAddress), Exclusive', FilesHaveDaemons'
      PROVE  EndpointInv'
  BY <1>1, <1>3, <1>4, <1>7 DEF EndpointInv, RefusedBindHasHolder
(* Fewer daemons, and the files as they were.                              *)
<1>8. ASSUME bound' \subseteq bound, listening' \subseteq listening, files' = files,
             ended' = TRUE
      PROVE  /\ Exclusive' /\ FilesHaveDaemons' /\ (Holders' # {} => ~Failed(ServerAddress))
             /\ bound' \cap listening' = {}
  <2>1. Holders' \subseteq Holders
    BY <1>8 DEF Holders
  <2>2. Exclusive'
    BY <1>4, <1>8, <2>1 DEF EndpointInv, Exclusive
  <2>3. FilesHaveDaemons'
    BY <1>2, <1>4, <1>8, <2>1 DEF EndpointInv, FilesHaveDaemons
  <2> QED
    BY <1>8, <2>1, <2>2, <2>3 DEF EndpointInv
(* A daemon that is refused leaves the reason.                             *)
<1>9. ASSUME NEW d, Refused(d), (Holders \ {d} # {}) \/ (ended /\ IsPath(ServerAddress))
      PROVE  RefusedBindHasHolder'
  BY <1>9 DEF Refused, RefusedBindHasHolder, EndpointInv
<1>10. ASSUME NEW d \in Daemons, Bind(d)
       PROVE  EndpointInv'
  <2>1. /\ d \notin Holders /\ ~Failed(ServerAddress) /\ ~AddressInUse(ServerAddress)
        /\ bound' = bound \cup {d} /\ listening' = listening /\ ended' = ended
        /\ files' = files \cup (IF IsPath(ServerAddress) THEN {ServerAddress} ELSE {})
        /\ client' = client /\ refusal' = refusal
    BY <1>10 DEF Bind
  <2>2. Holders' = Holders \cup {d}
    BY <2>1 DEF Holders
  <2>3. ~IsAnyInet(ServerAddress) => Holders = {}
    BY <2>1 DEF AddressInUse, EndpointInv, FilesHaveDaemons
  <2>4. Exclusive'
    BY <1>4, <2>1, <2>2, <2>3 DEF EndpointInv, Exclusive
  <2>5. FilesHaveDaemons'
    BY <1>2, <1>4, <2>1, <2>2 DEF EndpointInv, FilesHaveDaemons
  <2>6. ended' \in BOOLEAN /\ bound' \cap listening' = {}
    BY <2>1 DEF EndpointInv, Holders
  <2> QED
    BY <1>7, <2>1, <2>4, <2>5, <2>6
<1>11. ASSUME NEW d \in Daemons, BindFails(d)
       PROVE  EndpointInv'
  <2>1. /\ d \notin Holders /\ AddressInUse(ServerAddress) /\ Refused(d)
        /\ bound' = bound /\ ended' = ended /\ listening' = listening /\ files' = files
        /\ client' = client
    BY <1>11 DEF BindFails, Refused
  <2>2. Holders # {} \/ (ended /\ IsPath(ServerAddress))
    BY <2>1 DEF AddressInUse, EndpointInv, FilesHaveDaemons, Holders
  <2>3. RefusedBindHasHolder'
    BY <1>9, <2>1, <2>2
  <2>4. Exclusive' /\ FilesHaveDaemons' /\ Holders' = Holders
    BY <1>2, <1>4, <2>1 DEF EndpointInv, Exclusive, FilesHaveDaemons, Holders
  <2> QED
    BY <1>1, <1>3, <1>4, <2>1, <2>3, <2>4 DEF EndpointInv
<1>12. ASSUME NEW d \in Daemons, Listen(d)
       PROVE  EndpointInv'
  <2>1. /\ d \in bound /\ ~ListenRefused
        /\ bound' = bound \ {d} /\ listening' = listening \cup {d} /\ ended' = ended
        /\ files' = files /\ client' = client /\ refusal' = refusal
    BY <1>12 DEF Listen
  <2>2. Holders' = Holders /\ d \in Holders /\ listening \subseteq Holders
    BY <2>1 DEF Holders
  <2>3. IsAnyInet(ServerAddress) /\ ~Ephemeral(ServerAddress) => listening = {}
    BY <2>1 DEF ListenRefused
  <2>4. Exclusive'
    BY <1>4, <2>1, <2>2, <2>3 DEF EndpointInv, Exclusive
  <2>5. /\ FilesHaveDaemons' /\ (Holders' # {} => ~Failed(ServerAddress)) /\ ended' \in BOOLEAN
        /\ bound' \cap listening' = {}
    BY <1>2, <1>4, <2>1, <2>2 DEF EndpointInv, FilesHaveDaemons
  <2> QED
    BY <1>7, <2>1, <2>4, <2>5
<1>13. ASSUME NEW d \in Daemons, ListenFails(d)
       PROVE  EndpointInv'
  <2>1. /\ bound' = bound \ {d} /\ listening' = listening /\ files' = files /\ ended' = TRUE
        /\ client' = client /\ d \in bound
    BY <1>13 DEF ListenFails, Refused
  <2>2. /\ Exclusive' /\ FilesHaveDaemons' /\ (Holders' # {} => ~Failed(ServerAddress))
        /\ bound' \cap listening' = {}
    BY <1>8, <2>1
  <2>3. CASE ListenRefused /\ Refused(d)
    <3>1. Holders \ {d} # {}
      <4>1. IsAnyInet(ServerAddress) /\ listening # {}
        BY <2>3 DEF ListenRefused
      <4>2. PICK e \in listening : TRUE
        BY <4>1
      <4>3. e # d
        BY <2>1, <4>2 DEF EndpointInv
      <4> QED
        BY <4>2, <4>3 DEF Holders
    <3>2. RefusedBindHasHolder'
      BY <1>9, <2>3, <3>1
    <3> QED
      BY <1>1, <1>3, <1>4, <2>1, <2>2, <3>2 DEF EndpointInv
  <2>4. CASE refusal' = refusal
    BY <1>7, <2>1, <2>2, <2>4
  <2> QED
    BY <1>13, <2>3, <2>4 DEF ListenFails
<1>14. ASSUME NEW d \in Daemons, StopServer(d)
       PROVE  EndpointInv'
  <2>1. /\ bound' \subseteq bound /\ listening' \subseteq listening /\ files' = files
        /\ ended' = TRUE /\ client' = client /\ refusal' = refusal
    BY <1>14 DEF StopServer
  <2> QED
    BY <1>7, <1>8, <2>1
<1>15. CASE TimeWaitEnds
  <2>1. /\ bound' = bound /\ listening' = listening /\ files' = files /\ ended' = ended
        /\ client' = client /\ refusal' = refusal
    BY <1>15 DEF TimeWaitEnds
  <2>2. Exclusive' /\ FilesHaveDaemons' /\ Holders' = Holders /\ ended' \in BOOLEAN
    BY <1>2, <1>4, <2>1 DEF EndpointInv, Exclusive, FilesHaveDaemons, Holders
  <2>3. bound' \cap listening' = {} /\ (Holders' # {} => ~Failed(ServerAddress))
    BY <2>1, <2>2 DEF EndpointInv
  <2> QED
    BY <1>7, <2>1, <2>2, <2>3
<1>16. ASSUME bound' = bound, listening' = listening, files' = files, ended' = ended,
              refusal' = refusal,
              client' \in {"connected", "missed"} =>
                /\ ~Failed(ServerAddress) /\ ~Failed(ClientAddress)
                /\ client' = "connected" <=> Reaches(ClientAddress, ServerAddress)
       PROVE  EndpointInv'
  <2>1. Exclusive' /\ FilesHaveDaemons' /\ Holders' = Holders /\ RefusedBindHasHolder'
    BY <1>2, <1>4, <1>16 DEF EndpointInv, Exclusive, FilesHaveDaemons, Holders, RefusedBindHasHolder
  <2> QED
    BY <1>1, <1>3, <1>4, <1>16, <2>1 DEF EndpointInv
<1>17. CASE StartClient
  <2>1. client' = Outcome /\ listening' = listening /\ bound' = bound /\ refusal' = refusal
        /\ files' = files /\ ended' = ended
    BY <1>17 DEF StartClient
  <2>2. Outcome \in {"connected", "missed"} =>
          /\ ~Failed(ServerAddress) /\ ~Failed(ClientAddress)
          /\ Outcome = "connected" <=> Reaches(ClientAddress, ServerAddress)
    BY DEF Outcome, EndpointInv, Holders
  <2> QED
    BY <1>16, <2>1, <2>2
<1>18. CASE StartClientFails
  BY <1>16, <1>18 DEF StartClientFails
<1>19. CASE UNCHANGED vars
  BY <1>16, <1>19 DEF vars, EndpointInv
<1> QED
  BY <1>10, <1>11, <1>12, <1>13, <1>14, <1>15, <1>17, <1>18, <1>19 DEF Next

LEMMA EndpointInvHolds == Spec => []EndpointInv
BY EndpointInvInit, EndpointInvNext, PTL DEF Spec

(* However inet_pton and strtoull take the parts, texts of any length and *)
(* any set of tokens are split into host and port just as the grammar says:*)
(* a text has one reading at most, and that is its address.                *)
THEOREM SplittingMatchesGrammar == Spec => []SplitMatchesGrammar
<1>1. EndpointInv => SplitMatchesGrammar
  <2> SUFFICES ASSUME EndpointInv, NEW s \in {text, asked}, s.scheme = "tcp://"
               PROVE  Readings(s.rest, ScannedPorts(s.rest, PortHint)) = Parsed(s)
    BY DEF SplitMatchesGrammar
  <2>1. s.rest \in Seq(Tokens)
    BY DEF EndpointInv, ConnectionStrings
  <2>2. Parse(s, PortHint) = TryParseAsTcpAddress(s.rest, PortHint)
    BY DEF Parse
  <2> QED
    BY <2>1, <2>2, ScannerMatchesGrammar DEF Parsed
<1> QED
  BY <1>1, EndpointInvHolds, PTL

(* A client is connected only to a daemon that its connection string       *)
(* names: no two Unix names are confused, with abstract names and null     *)
(* bytes of any place and length up to sun_path.                           *)
THEOREM ConnectedToTheNamed == Spec => []OnlyTheNamedIsReached
<1>1. EndpointInv => OnlyTheNamedIsReached
  <2> SUFFICES ASSUME EndpointInv, client = "connected", text # asked,
                      ~\E s \in {text, asked} : /\ s.scheme = "unix:"
                                                /\ s.rest = <<>> \/ NUL \in ToSet(s.rest)
               PROVE  /\ text.scheme = "tcp://" /\ asked.scheme = "tcp://"
                      /\ ServerAddress.port = ClientAddress.port
                      /\ AnyHost(ServerAddress) \/ ServerAddress.host = ClientAddress.host
    BY DEF OnlyTheNamedIsReached
  <2>1. /\ text \in ConnectionStrings /\ asked \in ConnectionStrings
        /\ ~Failed(ServerAddress) /\ ~Failed(ClientAddress)
        /\ Reaches(ClientAddress, ServerAddress)
    BY DEF EndpointInv
  <2>2. CASE /\ ServerAddress.family = "unix" /\ ClientAddress.family = "unix"
             /\ IsPath(ServerAddress) = IsPath(ClientAddress)
             /\ UnixName(ServerAddress) = UnixName(ClientAddress)
    <3>1. text.scheme \in {"unix:", "unix-abstract:"} /\ asked.scheme \in {"unix:", "unix-abstract:"}
      BY <2>1, <2>2, SchemeAndFamily DEF ServerAddress, ClientAddress
    <3>2. text = asked
      BY <2>1, <2>2, <3>1, UnixNamesDiffer DEF ServerAddress, ClientAddress
    <3> QED
      BY <3>2
  <2>3. CASE /\ IsAnyInet(ServerAddress) /\ IsAnyInet(ClientAddress)
             /\ ServerAddress.port = ClientAddress.port
             /\ AnyHost(ServerAddress) \/ ServerAddress.host = ClientAddress.host
    BY <2>1, <2>3, SchemeAndFamily DEF ServerAddress, ClientAddress
  <2> QED
    BY <2>1, <2>2, <2>3 DEF Reaches, TakesIPv4
<1> QED
  BY <1>1, EndpointInvHolds, PTL

(* A bind or a listen that was refused had a reason: another daemon that  *)
(* has the address, or the socket file of one that ended.                  *)
THEOREM RefusedBindAlwaysHasHolder == Spec => []RefusedBindHasHolder
<1>1. EndpointInv => RefusedBindHasHolder
  BY DEF EndpointInv
<1> QED
  BY <1>1, EndpointInvHolds, PTL

(* Two daemons with one string never listen at once, however their binds   *)
(* and listens interleave and whatever files earlier ones left.            *)
THEOREM OneDaemonListens == Spec => []OneDaemonPerAddress
<1>1. EndpointInv => OneDaemonPerAddress
  BY DEF EndpointInv, OneDaemonPerAddress, Exclusive
<1> QED
  BY <1>1, EndpointInvHolds, PTL

=============================================================================
