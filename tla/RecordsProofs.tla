--------------------------- MODULE RecordsProofs ---------------------------
(* Theorems about Records and VarnishLines, for every line: what each of the   *)
(* constructors reads of a line, and that it is what varnishd wrote there.     *)
EXTENDS VarnishLines, SequenceTheorems, TLAPS

-----------------------------------------------------------------------------
(* Sequences of conversions *)

\* The conversions a constructor makes, and the set of them.
IsSeq(c) == \E S : c \in Seq(S)
Reads(c) == {c[k] : k \in DOMAIN c}

\* The conversions of a tuple, and of two sequences one behind the other.
LEMMA Tuple0 ==
  IsSeq(<< >>) /\ Reads(<< >>) = {}
<1>1. << >> \in Seq({})
  OBVIOUS
<1>2. Reads(<< >>) = {}
  BY DEF Reads
<1> QED BY <1>1, <1>2 DEF IsSeq

LEMMA Tuple1 ==
  ASSUME NEW a
  PROVE  /\ IsSeq(<<a>>)
         /\ Reads(<<a>>) = {a}
<1>1. <<a>> \in Seq({a})
  OBVIOUS
<1>2. Reads(<<a>>) = {a}
  BY DEF Reads
<1> QED BY <1>1, <1>2 DEF IsSeq

LEMMA Tuple2 ==
  ASSUME NEW a, NEW b
  PROVE  /\ IsSeq(<<a, b>>)
         /\ Reads(<<a, b>>) = {a, b}
<1>1. <<a, b>> \in Seq({a, b})
  OBVIOUS
<1>2. Reads(<<a, b>>) = {a, b}
  BY DEF Reads
<1> QED BY <1>1, <1>2 DEF IsSeq

LEMMA Tuple3 ==
  ASSUME NEW a, NEW b, NEW c
  PROVE  /\ IsSeq(<<a, b, c>>)
         /\ Reads(<<a, b, c>>) = {a, b, c}
<1>1. <<a, b, c>> \in Seq({a, b, c})
  OBVIOUS
<1>2. Reads(<<a, b, c>>) = {a, b, c}
  BY DEF Reads
<1> QED BY <1>1, <1>2 DEF IsSeq

LEMMA Tuple4 ==
  ASSUME NEW a, NEW b, NEW c, NEW d
  PROVE  /\ IsSeq(<<a, b, c, d>>)
         /\ Reads(<<a, b, c, d>>) = {a, b, c, d}
<1>1. <<a, b, c, d>> \in Seq({a, b, c, d})
  OBVIOUS
<1>2. Reads(<<a, b, c, d>>) = {a, b, c, d}
  BY DEF Reads
<1> QED BY <1>1, <1>2 DEF IsSeq

LEMMA Tuple5 ==
  ASSUME NEW a, NEW b, NEW c, NEW d, NEW e
  PROVE  /\ IsSeq(<<a, b, c, d, e>>)
         /\ Reads(<<a, b, c, d, e>>) = {a, b, c, d, e}
<1>1. <<a, b, c, d, e>> \in Seq({a, b, c, d, e})
  OBVIOUS
<1>2. Reads(<<a, b, c, d, e>>) = {a, b, c, d, e}
  BY DEF Reads
<1> QED BY <1>1, <1>2 DEF IsSeq

LEMMA Tuple6 ==
  ASSUME NEW a, NEW b, NEW c, NEW d, NEW e, NEW g
  PROVE  /\ IsSeq(<<a, b, c, d, e, g>>)
         /\ Reads(<<a, b, c, d, e, g>>) = {a, b, c, d, e, g}
<1>1. <<a, b, c, d, e, g>> \in Seq({a, b, c, d, e, g})
  OBVIOUS
<1>2. Reads(<<a, b, c, d, e, g>>) = {a, b, c, d, e, g}
  BY DEF Reads
<1> QED BY <1>1, <1>2 DEF IsSeq

LEMMA Tuple7 ==
  ASSUME NEW a, NEW b, NEW c, NEW d, NEW e, NEW g, NEW h
  PROVE  /\ IsSeq(<<a, b, c, d, e, g, h>>)
         /\ Reads(<<a, b, c, d, e, g, h>>) = {a, b, c, d, e, g, h}
<1>1. <<a, b, c, d, e, g, h>> \in Seq({a, b, c, d, e, g, h})
  OBVIOUS
<1>2. Reads(<<a, b, c, d, e, g, h>>) = {a, b, c, d, e, g, h}
  BY DEF Reads
<1> QED BY <1>1, <1>2 DEF IsSeq

LEMMA Tuple8 ==
  ASSUME NEW a, NEW b, NEW c, NEW d, NEW e, NEW g, NEW h, NEW i
  PROVE  /\ IsSeq(<<a, b, c, d, e, g, h, i>>)
         /\ Reads(<<a, b, c, d, e, g, h, i>>) = {a, b, c, d, e, g, h, i}
<1>1. <<a, b, c, d, e, g, h, i>> \in Seq({a, b, c, d, e, g, h, i})
  OBVIOUS
<1>2. Reads(<<a, b, c, d, e, g, h, i>>) = {a, b, c, d, e, g, h, i}
  BY DEF Reads
<1> QED BY <1>1, <1>2 DEF IsSeq

LEMMA Concat ==
  ASSUME NEW a, NEW b, IsSeq(a), IsSeq(b)
  PROVE  IsSeq(a \o b) /\ Reads(a \o b) = Reads(a) \cup Reads(b)
<1>1. PICK S : a \in Seq(S)
  BY DEF IsSeq
<1>2. PICK T : b \in Seq(T)
  BY DEF IsSeq
<1>3. a \in Seq(S \cup T) /\ b \in Seq(S \cup T)
  BY <1>1, <1>2
<1> DEFINE t == a \o b
<1>4. t \in Seq(S \cup T) /\ Len(t) = Len(a) + Len(b)
      /\ \A k \in 1..Len(t) : t[k] = IF k <= Len(a) THEN a[k] ELSE b[k - Len(a)]
  BY <1>3, ConcatProperties
<1>5. /\ DOMAIN a = 1..Len(a) /\ DOMAIN b = 1..Len(b) /\ DOMAIN t = 1..Len(t)
      /\ Len(a) \in Nat /\ Len(b) \in Nat
  BY <1>3, <1>4, LenProperties
<1> HIDE DEF t
<1>6. \A k \in DOMAIN a : k \in DOMAIN t /\ t[k] = a[k]
  BY <1>4, <1>5
<1>7. \A k \in DOMAIN b : Len(a) + k \in DOMAIN t /\ t[Len(a) + k] = b[k]
  BY <1>4, <1>5
<1>8. ASSUME NEW k \in DOMAIN t
      PROVE  \/ k \in DOMAIN a /\ t[k] = a[k]
             \/ k - Len(a) \in DOMAIN b /\ t[k] = b[k - Len(a)]
  <2>1. k \in 1..Len(t) /\ Len(t) \in Nat
    BY <1>4, <1>5, <1>8
  <2>2. CASE k <= Len(a)
    BY <1>4, <1>5, <2>1, <2>2
  <2>3. CASE ~(k <= Len(a))
    <3>1. k - Len(a) \in 1..Len(b)
      BY <1>4, <1>5, <2>1, <2>3
    <3> QED BY <1>4, <1>5, <2>1, <2>3, <3>1
  <2> QED BY <2>2, <2>3
<1>9. Reads(t) = Reads(a) \cup Reads(b)
  BY <1>6, <1>7, <1>8 DEF Reads
<1> QED BY <1>4, <1>9 DEF t, IsSeq

-----------------------------------------------------------------------------
(* What is said of a constructor *)

\* The conversions leave no hole: the fields read are the first ones, each fills
\* a field of the record of its own.
NoHolesIn(S) ==
  /\ \A x \in S : \A i \in 1..x.at : \E y \in S : y.at = i
  /\ \A x, y \in S : (x.into = y.into \/ (x.at = y.at /\ x.at # 0)) => x = y

\* They read no field after the n-th.
Within(S, n) == \A x \in S : x.at \in 0..n

\* A constructor on a line of n fields.
Fine(c, n) == IsSeq(c) /\ NoHolesIn(Reads(c)) /\ Within(Reads(c), n)

\* The line f is printed in the format p.
Prints(p, f) == Len(p) = Len(f) /\ \A i \in DOMAIN p : f[i] \in Printed(p[i])

\* All conversions accept what they read of f, and every field of f is read.
Keeps(S, f) ==
  /\ \A x \in S : /\ x.at = 0 => Accepts(x.as, f)
                  /\ x.at # 0 => x.at \in 1..Len(f) /\ Accepts(x.as, <<f[x.at]>>)
  /\ S # {} => \A i \in 1..Len(f) : \E x \in S : x.at \in {0, i}

\* What varnishd prints in a field.
LEMMA PrintedIs ==
  /\ Printed("vxid") = {"id"} /\ Printed("count") = {"id", "long"}
  /\ Printed("whole") = {"id", "minus"} /\ Printed("secs") = {"frac"}
  /\ Printed("epoch") = {"frac"} /\ Printed("streams") = {"stream", "-"}
  /\ Printed("word") = {"word"} /\ Printed("ip") = {"ip"} /\ Printed("esi") = {"esi"}
  /\ Printed("op") = {"op"} /\ Printed("dir") = {"dir"} /\ Printed("name:") = {"name:"}
  /\ Printed("-") = {"-"} /\ Printed("minus") = {"minus"}
BY DEF Printed

\* What the conversions accept of a field.
LEMMA AcceptsField ==
  /\ \A f : Accepts("text", f)
  /\ \A t \in {"id", "long", "minus"} : Accepts("int", <<t>>) /\ Accepts("float", <<t>>)
  /\ Accepts("float", <<"frac">>) /\ Accepts("vxid", <<"id">>) /\ Accepts("ip", <<"ip">>)
  /\ Accepts("esi", <<"esi">>) /\ Accepts("op", <<"op">>) /\ Accepts("dir", <<"dir">>)
  /\ \A t \in {"stream", "-"} : Accepts("streamed", <<t>>)
BY DEF Accepts, Integers64

\* What they accept of the whole value of a line.
LEMMA AcceptsWhole ==
  ASSUME NEW f \in Seq(Tokens), Len(f) = 1
  PROVE  /\ f[1] \in {"id", "long"} => Accepts("int", f)
         /\ f[1] = "word" => Accepts("url", f)
<1>1. DOMAIN f = {1}
  BY LenProperties
<1> QED BY <1>1 DEF Accepts, Integers64

\* Tuples, one behind the other.
LEMMA Join2And1 ==
  ASSUME NEW a, NEW b, NEW c, NEW s, s = <<a, b>>
  PROVE  s \o <<c>> = <<a, b, c>>
<1> DEFINE S == {a, b, c}
<1>1. s \in Seq(S) /\ <<c>> \in Seq(S) /\ <<a, b, c>> \in Seq(S)
  OBVIOUS
<1>2. Len(s \o <<c>>) = 3 /\ Len(<<a, b, c>>) = 3
  OBVIOUS
<1>3. \A i \in 1..3 : (s \o <<c>>)[i] = <<a, b, c>>[i]
  OBVIOUS
<1> QED BY <1>1, <1>2, <1>3, SeqEqual, ConcatProperties

LEMMA Join2And2 ==
  ASSUME NEW a, NEW b, NEW c, NEW d, NEW s, s = <<a, b>>
  PROVE  s \o <<c, d>> = <<a, b, c, d>>
<1> DEFINE S == {a, b, c, d}
<1>1. s \in Seq(S) /\ <<c, d>> \in Seq(S) /\ <<a, b, c, d>> \in Seq(S)
  OBVIOUS
<1>2. Len(s \o <<c, d>>) = 4 /\ Len(<<a, b, c, d>>) = 4
  OBVIOUS
<1>3. \A i \in 1..4 : (s \o <<c, d>>)[i] = <<a, b, c, d>>[i]
  OBVIOUS
<1> QED BY <1>1, <1>2, <1>3, SeqEqual, ConcatProperties

LEMMA Join3And2 ==
  ASSUME NEW s, s = <<"ip", "count", "word">>
  PROVE  s \o <<"ip", "count">> = <<"ip", "count", "word", "ip", "count">>
<1> DEFINE S == {"count", "ip", "word"}
           b == <<"ip", "count">>
           t == <<"ip", "count", "word", "ip", "count">>
<1>1. s \in Seq(S) /\ b \in Seq(S) /\ t \in Seq(S)
  OBVIOUS
<1>2. Len(s \o b) = 5 /\ Len(t) = 5
  OBVIOUS
<1>3. \A i \in 1..5 : (s \o b)[i] = t[i]
  OBVIOUS
<1> HIDE DEF S, b
<1>4. s \o b \in Seq(S)
  BY <1>1, ConcatProperties
<1> HIDE DEF t
<1>5. s \o b = t
  BY <1>1, <1>2, <1>3, <1>4, SeqEqual
<1> QED BY <1>5 DEF b, t

LEMMA Join4And2 ==
  ASSUME NEW s, s = <<"count", "word", "ip", "count">>
  PROVE  s \o <<"ip", "count">> = <<"count", "word", "ip", "count", "ip", "count">>
<1> DEFINE S == {"count", "ip", "word"}
           b == <<"ip", "count">>
           t == <<"count", "word", "ip", "count", "ip", "count">>
<1>1. s \in Seq(S) /\ b \in Seq(S) /\ t \in Seq(S)
  OBVIOUS
<1>2. Len(s \o b) = 6 /\ Len(t) = 6
  OBVIOUS
<1>3. \A i \in 1..6 : (s \o b)[i] = t[i]
  OBVIOUS
<1> HIDE DEF S, b
<1>4. s \o b \in Seq(S)
  BY <1>1, ConcatProperties
<1> HIDE DEF t
<1>5. s \o b = t
  BY <1>1, <1>2, <1>3, <1>4, SeqEqual
<1> QED BY <1>5 DEF b, t

LEMMA Join5And2 ==
  ASSUME NEW s, s = <<"ip", "count", "word", "ip", "count">>
  PROVE  s \o <<"epoch", "count">>
           = <<"ip", "count", "word", "ip", "count", "epoch", "count">>
<1> DEFINE S == {"count", "epoch", "ip", "word"}
           b == <<"epoch", "count">>
           t == <<"ip", "count", "word", "ip", "count", "epoch", "count">>
<1>1. s \in Seq(S) /\ b \in Seq(S) /\ t \in Seq(S)
  OBVIOUS
<1>2. Len(s \o b) = 7 /\ Len(t) = 7
  OBVIOUS
<1>3. \A i \in 1..7 : (s \o b)[i] = t[i]
  OBVIOUS
<1> HIDE DEF S, b
<1>4. s \o b \in Seq(S)
  BY <1>1, ConcatProperties
<1> HIDE DEF t
<1>5. s \o b = t
  BY <1>1, <1>2, <1>3, <1>4, SeqEqual
<1> QED BY <1>5 DEF b, t

LEMMA Join5And3 ==
  ASSUME NEW s, s = <<"count", "count", "secs", "secs", "secs">>
  PROVE  s \o <<"secs", "secs", "secs">>
           = <<"count", "count", "secs", "secs", "secs", "secs", "secs", "secs">>
<1> DEFINE S == {"count", "secs"}
           b == <<"secs", "secs", "secs">>
           t == <<"count", "count", "secs", "secs", "secs", "secs", "secs", "secs">>
<1>1. s \in Seq(S) /\ b \in Seq(S) /\ t \in Seq(S)
  OBVIOUS
<1>2. Len(s \o b) = 8 /\ Len(t) = 8
  OBVIOUS
<1>3. \A i \in 1..8 : (s \o b)[i] = t[i]
  OBVIOUS
<1> HIDE DEF S, b
<1>4. s \o b \in Seq(S)
  BY <1>1, ConcatProperties
<1> HIDE DEF t
<1>5. s \o b = t
  BY <1>1, <1>2, <1>3, <1>4, SeqEqual
<1> QED BY <1>5 DEF b, t

LEMMA Join6And1 ==
  ASSUME NEW s, s = <<"count", "word", "ip", "count", "ip", "count">>
  PROVE  s \o <<"word">>
           = <<"count", "word", "ip", "count", "ip", "count", "word">>
<1> DEFINE S == {"count", "ip", "word"}
           b == <<"word">>
           t == <<"count", "word", "ip", "count", "ip", "count", "word">>
<1>1. s \in Seq(S) /\ b \in Seq(S) /\ t \in Seq(S)
  OBVIOUS
<1>2. Len(s \o b) = 7 /\ Len(t) = 7
  OBVIOUS
<1>3. \A i \in 1..7 : (s \o b)[i] = t[i]
  OBVIOUS
<1> HIDE DEF S, b
<1>4. s \o b \in Seq(S)
  BY <1>1, ConcatProperties
<1> HIDE DEF t
<1>5. s \o b = t
  BY <1>1, <1>2, <1>3, <1>4, SeqEqual
<1> QED BY <1>5 DEF b, t

\* The formats that share a connection or a list of times.
LEMMA Joined ==
  /\ (<<"count", "word">> \o <<"ip", "count">>) \o <<"ip", "count">>
       = <<"count", "word", "ip", "count", "ip", "count">>
  /\ ((<<"count", "word">> \o <<"ip", "count">>) \o <<"ip", "count">>) \o <<"word">>
       = <<"count", "word", "ip", "count", "ip", "count", "word">>
  /\ <<"ip", "count">> \o <<"word">> = <<"ip", "count", "word">>
  /\ <<"ip", "count">> \o <<"word", "word">> = <<"ip", "count", "word", "word">>
  /\ <<"count", "count", "secs", "secs", "secs">> \o <<"secs", "secs", "secs">>
       = <<"count", "count", "secs", "secs", "secs", "secs", "secs", "secs">>
  /\ ((<<"ip", "count">> \o <<"word">>) \o <<"ip", "count">>) \o <<"epoch", "count">>
       = <<"ip", "count", "word", "ip", "count", "epoch", "count">>
<1>1. \A s : s = <<"count", "word", "ip", "count">> =>
              s \o <<"ip", "count">> = <<"count", "word", "ip", "count", "ip", "count">>
  BY Join4And2
<1>2. \A s : s = <<"count", "word", "ip", "count", "ip", "count">> =>
              s \o <<"word">> = <<"count", "word", "ip", "count", "ip", "count", "word">>
  BY Join6And1
<1>3. \A s : s = <<"ip", "count", "word">> =>
              s \o <<"ip", "count">> = <<"ip", "count", "word", "ip", "count">>
  BY Join3And2
<1>4. \A s : s = <<"ip", "count", "word", "ip", "count">> =>
              s \o <<"epoch", "count">>
                = <<"ip", "count", "word", "ip", "count", "epoch", "count">>
  BY Join5And2
<1> DEFINE conn == <<"ip", "count">>
           opened == <<"count", "word">> \o conn
           backend == opened \o conn
           listener == conn \o <<"word">>
           session == listener \o conn
<1>5. opened = <<"count", "word", "ip", "count">> /\ listener = <<"ip", "count", "word">>
  BY Join2And1, Join2And2
<1> HIDE DEF opened, listener
<1>6. backend = <<"count", "word", "ip", "count", "ip", "count">>
  BY <1>1, <1>5, Zenon
<1>7. session = <<"ip", "count", "word", "ip", "count">>
  BY <1>3, <1>5, Zenon
<1> HIDE DEF backend, session
<1>8. backend \o <<"word">> = <<"count", "word", "ip", "count", "ip", "count", "word">>
  BY <1>2, <1>6, Zenon
<1>9. session \o <<"epoch", "count">>
        = <<"ip", "count", "word", "ip", "count", "epoch", "count">>
  BY <1>4, <1>7, Zenon
<1>10. <<"ip", "count">> \o <<"word", "word">> = <<"ip", "count", "word", "word">>
  BY Join2And2
<1>11. <<"count", "count", "secs", "secs", "secs">> \o <<"secs", "secs", "secs">>
         = <<"count", "count", "secs", "secs", "secs", "secs", "secs", "secs">>
  BY Join5And3
<1> QED BY <1>5, <1>6, <1>8, <1>9, <1>10, <1>11, Zenon
        DEF opened, backend, listener, session

-----------------------------------------------------------------------------
(* The conversions of the constructors *)

\* They are named for the constructor and for their number.
Rejected == {Read(0, "nothing", "error")}
BeginOf4 ==
  {Read(3, "esi", "Reason"), Read(4, "int", "ESILevel"), Read(2, "vxid", "Parent"),
   Read(1, "text", "RecordType")}
BeginOf3 ==
  {Read(2, "vxid", "Parent"), Read(1, "text", "RecordType"),
   Read(3, "text", "Reason")}
LinkOf4 ==
  {Read(3, "esi", "Reason"), Read(4, "int", "ESILevel"), Read(2, "vxid", "VXID"),
   Read(1, "text", "TXType")}
LinkOf3 ==
  {Read(2, "vxid", "VXID"), Read(1, "text", "TXType"), Read(3, "text", "Reason")}
HeaderOf2 ==
  {Read(0, "text", "Name"), Read(0, "text", "Value")}
BackendOpenOf6 ==
  {Read(1, "int", "FileDescriptor"), Read(3, "ip", "RemoteAddr"),
   Read(4, "int", "RemotePort"), Read(5, "ip", "LocalAddr"),
   Read(6, "int", "LocalPort"), Read(2, "text", "Name")}
BackendOpenOf7 ==
  {Read(1, "int", "FileDescriptor"), Read(3, "ip", "RemoteAddr"),
   Read(4, "int", "RemotePort"), Read(5, "ip", "LocalAddr"),
   Read(6, "int", "LocalPort"), Read(7, "text", "Reason"), Read(2, "text", "Name")}
BackendStartOf2 ==
  {Read(1, "ip", "RemoteAddr"), Read(2, "int", "RemotePort")}
BackendCloseOf2 ==
  {Read(1, "int", "FileDescriptor"), Read(2, "text", "Name")}
BackendCloseOf3 ==
  {Read(1, "int", "FileDescriptor"), Read(3, "text", "Reason"),
   Read(2, "text", "Name")}
BackendCloseOf4 ==
  {Read(1, "int", "FileDescriptor"), Read(3, "text", "Reason"),
   Read(4, "text", "OptionalReason"), Read(2, "text", "Name")}
BackendReuseOf2 ==
  {Read(1, "int", "FileDescriptor"), Read(2, "text", "Name")}
AcctOf6 ==
  {Read(1, "int", "HeaderTx"), Read(2, "int", "BodyTx"), Read(3, "int", "TotalTx"),
   Read(4, "int", "HeaderRx"), Read(5, "int", "BodyRx"), Read(6, "int", "TotalRx")}
PipeAcctOf4 ==
  {Read(1, "int", "ClientReqHeaders"), Read(2, "int", "BackendReqHeaders"),
   Read(3, "int", "PipedFrom"), Read(4, "int", "PipedTo")}
TimestampOf4 ==
  {Read(2, "float", "AbsoluteTime"), Read(3, "float", "SinceStart"),
   Read(4, "float", "SinceLast"), Read(1, "text", "EventLabel")}
ReqStartOf3 ==
  {Read(1, "ip", "ClientIP"), Read(2, "int", "ClientPort"),
   Read(3, "text", "Listener")}
ReqStartOf4 ==
  {Read(1, "ip", "ClientIP"), Read(2, "int", "ClientPort"),
   Read(3, "text", "Listener"), Read(4, "text", "Scheme")}
URLOf1 ==
  {Read(0, "url", "URL")}
FiltersOf1 ==
  {Read(0, "text", "Filters")}
StatusOf1 ==
  {Read(0, "int", "Status")}
LengthOf1 ==
  {Read(0, "int", "Size")}
HitOf2 ==
  {Read(1, "vxid", "ObjVXID"), Read(2, "float", "TTL")}
HitOf4 ==
  {Read(1, "vxid", "ObjVXID"), Read(2, "float", "TTL"), Read(3, "float", "Grace"),
   Read(4, "float", "Keep")}
HitOf5 ==
  {Read(1, "vxid", "ObjVXID"), Read(2, "float", "TTL"), Read(3, "float", "Grace"),
   Read(4, "float", "Keep"), Read(5, "int", "Fetched")}
HitOf6 ==
  {Read(1, "vxid", "ObjVXID"), Read(2, "float", "TTL"), Read(3, "float", "Grace"),
   Read(4, "float", "Keep"), Read(5, "int", "Fetched"),
   Read(6, "int", "ContentLength")}
TTLOf6 ==
  {Read(1, "text", "Source"), Read(2, "int", "TTL"), Read(3, "int", "Grace"),
   Read(4, "int", "Keep"), Read(5, "float", "Reference"),
   Read(6, "text", "CacheStatus")}
TTLOf10 ==
  {Read(1, "text", "Source"), Read(2, "int", "TTL"), Read(3, "int", "Grace"),
   Read(4, "int", "Keep"), Read(5, "float", "Reference"), Read(6, "float", "Age"),
   Read(7, "float", "Date"), Read(8, "float", "Expires"), Read(9, "int", "MaxAge"),
   Read(10, "text", "CacheStatus")}
TTLCut ==
  {Read(1, "text", "Source"), Read(2, "int", "TTL"), Read(3, "int", "Grace"),
   Read(4, "int", "Keep"), Read(5, "float", "Reference"),
   Read(0, "nothing", "error")}
VCLLogOf2 ==
  {Read(0, "text", "Key"), Read(0, "text", "Value")}
VCLLogOf1 ==
  {Read(0, "text", "Value")}
StorageOf2 ==
  {Read(1, "text", "StorageType"), Read(2, "text", "Name")}
FetchBodyOf3 ==
  {Read(1, "int", "Mode"), Read(3, "streamed", "Stream"),
   Read(2, "text", "Description")}
SessOpenOf7 ==
  {Read(1, "ip", "RemoteAddr"), Read(2, "int", "RemotePort"),
   Read(4, "ip", "LocalAddr"), Read(5, "int", "LocalPort"),
   Read(6, "float", "SessionStart"), Read(7, "int", "FileDescriptor"),
   Read(3, "text", "SocketName")}
SessCloseOf2 ==
  {Read(2, "float", "Duration"), Read(1, "text", "Reason")}
GzipOf8 ==
  {Read(1, "text", "Action"), Read(2, "text", "When"), Read(3, "text", "Object"),
   Read(4, "int", "InputBytes"), Read(5, "int", "OutputBytes"),
   Read(6, "int", "BitLocFirst"), Read(7, "int", "BitLocLast"),
   Read(8, "int", "BitLengthOfCompressedData")}
GzipOf1 ==
  {Read(0, "text", "Error")}
MSE4NewObjectOf5 ==
  {Read(1, "int", "AllocationChunks"), Read(2, "int", "BytesProcessed"),
   Read(3, "float", "TimeElapsed"), Read(4, "float", "TimeMSE4Processing"),
   Read(5, "float", "TimeMemoryAllocation")}
MSE4NewObjectOf8 ==
  {Read(1, "int", "AllocationChunks"), Read(2, "int", "BytesProcessed"),
   Read(3, "float", "TimeElapsed"), Read(4, "float", "TimeMSE4Processing"),
   Read(5, "float", "TimeMemoryAllocation"), Read(6, "float", "TimeResourceWait"),
   Read(7, "float", "TimeDiskIOFetch"), Read(8, "float", "TimeDiskIOFinalize")}
MSE4ObjIterOf4 ==
  {Read(1, "float", "TimeElapsed"), Read(2, "int", "BytesProcessed"),
   Read(3, "float", "TimeProcessing"), Read(4, "float", "TimeBackendWait")}
MSE4ObjIterOf6 ==
  {Read(1, "float", "TimeElapsed"), Read(2, "int", "BytesProcessed"),
   Read(3, "float", "TimeProcessing"), Read(4, "float", "TimeBackendWait"),
   Read(5, "int", "DiskIOBytes"), Read(6, "float", "TimeDiskIOProcessing")}
MSE4ChunkFaultOf5 ==
  {Read(1, "int", "ChunksProcessed"), Read(2, "int", "BytesProcessed"),
   Read(3, "float", "TimeProcessing"), Read(4, "float", "TimeMemoryAllocation"),
   Read(5, "float", "TimeDiskIOWait")}
BrotliOf4 ==
  {Read(1, "op", "Operation"), Read(2, "dir", "Direction"),
   Read(3, "int", "BytesInput"), Read(4, "int", "BytesOutput")}
-----------------------------------------------------------------------------
(* The constructors *)

\* What NewBeginRecord converts of n fields ...
LEMMA BeginReads ==
  ASSUME NEW f, NEW n \in Nat, n = Len(f)
  PROVE  /\ IsSeq(NewBeginRecord(f))
         /\ n = 4 => Reads(NewBeginRecord(f)) = BeginOf4
         /\ n = 3 => Reads(NewBeginRecord(f)) = BeginOf3
         /\ n \notin {3, 4} => Reads(NewBeginRecord(f)) = Rejected
<1>1. IsSeq(NewBeginRecord(f))
  BY Tuple1, Tuple3, Tuple4 DEF NewBeginRecord, Reject
<1>2. ASSUME n = 4
      PROVE  Reads(NewBeginRecord(f)) = BeginOf4
  BY <1>2, Tuple1, Tuple3, Tuple4 DEF NewBeginRecord, Reject, BeginOf4
<1>3. ASSUME n = 3
      PROVE  Reads(NewBeginRecord(f)) = BeginOf3
  BY <1>3, Tuple1, Tuple3, Tuple4 DEF NewBeginRecord, Reject, BeginOf3
<1>4. ASSUME n \notin {3, 4}
      PROVE  Reads(NewBeginRecord(f)) = Rejected
  BY <1>4, Tuple1, Tuple3, Tuple4 DEF NewBeginRecord, Reject, Rejected
<1> QED BY <1>1, <1>2, <1>3, <1>4

\* ... leaves no hole and reads no field past the last.
LEMMA BeginFine ==
  ASSUME NEW f, NEW n \in Nat, n = Len(f)
  PROVE  Fine(NewBeginRecord(f), n)
<1>1. NoHolesIn(BeginOf4) /\ Within(BeginOf4, 4)
  BY DEF BeginOf4, NoHolesIn, Within, Read
<1>2. NoHolesIn(BeginOf3) /\ Within(BeginOf3, 3)
  BY DEF BeginOf3, NoHolesIn, Within, Read
<1>3. NoHolesIn(Rejected) /\ Within(Rejected, 0)
  BY DEF Rejected, NoHolesIn, Within, Read
<1>4. CASE n = 4
  BY <1>1, <1>4, BeginReads DEF Fine, Within
<1>5. CASE n = 3
  BY <1>2, <1>5, BeginReads DEF Fine, Within
<1>6. CASE n \notin {3, 4}
  BY <1>3, <1>6, BeginReads DEF Fine, Within
<1> QED BY <1>4, <1>5, <1>6

\* What NewLinkRecord converts of n fields ...
LEMMA LinkReads ==
  ASSUME NEW f, NEW n \in Nat, n = Len(f)
  PROVE  /\ IsSeq(NewLinkRecord(f))
         /\ n = 4 => Reads(NewLinkRecord(f)) = LinkOf4
         /\ n = 3 => Reads(NewLinkRecord(f)) = LinkOf3
         /\ n \notin {3, 4} => Reads(NewLinkRecord(f)) = Rejected
<1>1. IsSeq(NewLinkRecord(f))
  BY Tuple1, Tuple3, Tuple4 DEF NewLinkRecord, Reject
<1>2. ASSUME n = 4
      PROVE  Reads(NewLinkRecord(f)) = LinkOf4
  BY <1>2, Tuple1, Tuple3, Tuple4 DEF NewLinkRecord, Reject, LinkOf4
<1>3. ASSUME n = 3
      PROVE  Reads(NewLinkRecord(f)) = LinkOf3
  BY <1>3, Tuple1, Tuple3, Tuple4 DEF NewLinkRecord, Reject, LinkOf3
<1>4. ASSUME n \notin {3, 4}
      PROVE  Reads(NewLinkRecord(f)) = Rejected
  BY <1>4, Tuple1, Tuple3, Tuple4 DEF NewLinkRecord, Reject, Rejected
<1> QED BY <1>1, <1>2, <1>3, <1>4

\* ... leaves no hole and reads no field past the last.
LEMMA LinkFine ==
  ASSUME NEW f, NEW n \in Nat, n = Len(f)
  PROVE  Fine(NewLinkRecord(f), n)
<1>1. NoHolesIn(LinkOf4) /\ Within(LinkOf4, 4)
  BY DEF LinkOf4, NoHolesIn, Within, Read
<1>2. NoHolesIn(LinkOf3) /\ Within(LinkOf3, 3)
  BY DEF LinkOf3, NoHolesIn, Within, Read
<1>3. NoHolesIn(Rejected) /\ Within(Rejected, 0)
  BY DEF Rejected, NoHolesIn, Within, Read
<1>4. CASE n = 4
  BY <1>1, <1>4, LinkReads DEF Fine, Within
<1>5. CASE n = 3
  BY <1>2, <1>5, LinkReads DEF Fine, Within
<1>6. CASE n \notin {3, 4}
  BY <1>3, <1>6, LinkReads DEF Fine, Within
<1> QED BY <1>4, <1>5, <1>6

\* What NewHeaderRecord converts of n fields ...
LEMMA HeaderReads ==
  ASSUME NEW f, NEW n \in Nat, n = Len(f)
  PROVE  /\ IsSeq(NewHeaderRecord(f))
         /\ HasColon(f) => Reads(NewHeaderRecord(f)) = HeaderOf2
         /\ ~HasColon(f) => Reads(NewHeaderRecord(f)) = Rejected
BY Tuple1, Tuple2 DEF NewHeaderRecord, Reject, HeaderOf2, Rejected

\* ... leaves no hole and reads no field past the last.
LEMMA HeaderFine ==
  ASSUME NEW f, NEW n \in Nat, n = Len(f)
  PROVE  Fine(NewHeaderRecord(f), n)
<1>1. NoHolesIn(HeaderOf2) /\ Within(HeaderOf2, 0)
  BY DEF HeaderOf2, NoHolesIn, Within, Read
<1>2. NoHolesIn(Rejected) /\ Within(Rejected, 0)
  BY DEF Rejected, NoHolesIn, Within, Read
<1>3. CASE HasColon(f)
  BY <1>1, <1>3, HeaderReads DEF Fine, Within
<1>4. CASE ~HasColon(f)
  BY <1>2, <1>4, HeaderReads DEF Fine, Within
<1> QED BY <1>3, <1>4

\* What NewBackendOpenRecord converts of n fields ...
LEMMA BackendOpenReads ==
  ASSUME NEW f, NEW n \in Nat, n = Len(f)
  PROVE  /\ IsSeq(NewBackendOpenRecord(f))
         /\ n < 6 => Reads(NewBackendOpenRecord(f)) = Rejected
         /\ n = 6 => Reads(NewBackendOpenRecord(f)) = BackendOpenOf6
         /\ n >= 7 => Reads(NewBackendOpenRecord(f)) = BackendOpenOf7
<1>1. IsSeq(NewBackendOpenRecord(f))
  BY Tuple0, Tuple1, Tuple5, Concat DEF NewBackendOpenRecord, Reject
<1>2. ASSUME n < 6
      PROVE  Reads(NewBackendOpenRecord(f)) = Rejected
  BY <1>2, Tuple0, Tuple1, Tuple5, Concat DEF NewBackendOpenRecord, Reject,
     Rejected
<1>3. ASSUME n = 6
      PROVE  Reads(NewBackendOpenRecord(f)) = BackendOpenOf6
  BY <1>3, Tuple0, Tuple1, Tuple5, Concat DEF NewBackendOpenRecord, Reject,
     BackendOpenOf6
<1>4. ASSUME n >= 7
      PROVE  Reads(NewBackendOpenRecord(f)) = BackendOpenOf7
  BY <1>4, Tuple0, Tuple1, Tuple5, Concat DEF NewBackendOpenRecord, Reject,
     BackendOpenOf7
<1> QED BY <1>1, <1>2, <1>3, <1>4

\* ... leaves no hole and reads no field past the last.
LEMMA BackendOpenFine ==
  ASSUME NEW f, NEW n \in Nat, n = Len(f)
  PROVE  Fine(NewBackendOpenRecord(f), n)
<1>1. NoHolesIn(Rejected) /\ Within(Rejected, 0)
  BY DEF Rejected, NoHolesIn, Within, Read
<1>2. NoHolesIn(BackendOpenOf6) /\ Within(BackendOpenOf6, 6)
  BY DEF BackendOpenOf6, NoHolesIn, Within, Read
<1>3. NoHolesIn(BackendOpenOf7) /\ Within(BackendOpenOf7, 7)
  BY DEF BackendOpenOf7, NoHolesIn, Within, Read
<1>4. CASE n < 6
  BY <1>1, <1>4, BackendOpenReads DEF Fine, Within
<1>5. CASE n = 6
  BY <1>2, <1>5, BackendOpenReads DEF Fine, Within
<1>6. CASE n >= 7
  BY <1>3, <1>6, BackendOpenReads DEF Fine, Within
<1> QED BY <1>4, <1>5, <1>6

\* What NewBackendStartRecord converts of n fields ...
LEMMA BackendStartReads ==
  ASSUME NEW f, NEW n \in Nat, n = Len(f)
  PROVE  /\ IsSeq(NewBackendStartRecord(f))
         /\ n < 2 => Reads(NewBackendStartRecord(f)) = Rejected
         /\ n >= 2 => Reads(NewBackendStartRecord(f)) = BackendStartOf2
BY Tuple1, Tuple2 DEF NewBackendStartRecord, Reject, BackendStartOf2, Rejected

\* ... leaves no hole and reads no field past the last.
LEMMA BackendStartFine ==
  ASSUME NEW f, NEW n \in Nat, n = Len(f)
  PROVE  Fine(NewBackendStartRecord(f), n)
<1>1. NoHolesIn(Rejected) /\ Within(Rejected, 0)
  BY DEF Rejected, NoHolesIn, Within, Read
<1>2. NoHolesIn(BackendStartOf2) /\ Within(BackendStartOf2, 2)
  BY DEF BackendStartOf2, NoHolesIn, Within, Read
<1>3. CASE n < 2
  BY <1>1, <1>3, BackendStartReads DEF Fine, Within
<1>4. CASE n >= 2
  BY <1>2, <1>4, BackendStartReads DEF Fine, Within
<1> QED BY <1>3, <1>4

\* What NewBackendCloseRecord converts of n fields ...
LEMMA BackendCloseReads ==
  ASSUME NEW f, NEW n \in Nat, n = Len(f)
  PROVE  /\ IsSeq(NewBackendCloseRecord(f))
         /\ n < 2 => Reads(NewBackendCloseRecord(f)) = Rejected
         /\ n = 2 => Reads(NewBackendCloseRecord(f)) = BackendCloseOf2
         /\ n = 3 => Reads(NewBackendCloseRecord(f)) = BackendCloseOf3
         /\ n >= 4 => Reads(NewBackendCloseRecord(f)) = BackendCloseOf4
<1>1. IsSeq(NewBackendCloseRecord(f))
  BY Tuple0, Tuple1, Concat DEF NewBackendCloseRecord, Reject
<1>2. ASSUME n < 2
      PROVE  Reads(NewBackendCloseRecord(f)) = Rejected
  BY <1>2, Tuple0, Tuple1, Concat DEF NewBackendCloseRecord, Reject, Rejected
<1>3. ASSUME n = 2
      PROVE  Reads(NewBackendCloseRecord(f)) = BackendCloseOf2
  BY <1>3, Tuple0, Tuple1, Concat DEF NewBackendCloseRecord, Reject,
     BackendCloseOf2
<1>4. ASSUME n = 3
      PROVE  Reads(NewBackendCloseRecord(f)) = BackendCloseOf3
  BY <1>4, Tuple0, Tuple1, Concat DEF NewBackendCloseRecord, Reject,
     BackendCloseOf3
<1>5. ASSUME n >= 4
      PROVE  Reads(NewBackendCloseRecord(f)) = BackendCloseOf4
  BY <1>5, Tuple0, Tuple1, Concat DEF NewBackendCloseRecord, Reject,
     BackendCloseOf4
<1> QED BY <1>1, <1>2, <1>3, <1>4, <1>5

\* ... leaves no hole and reads no field past the last.
LEMMA BackendCloseFine ==
  ASSUME NEW f, NEW n \in Nat, n = Len(f)
  PROVE  Fine(NewBackendCloseRecord(f), n)
<1>1. NoHolesIn(Rejected) /\ Within(Rejected, 0)
  BY DEF Rejected, NoHolesIn, Within, Read
<1>2. NoHolesIn(BackendCloseOf2) /\ Within(BackendCloseOf2, 2)
  BY DEF BackendCloseOf2, NoHolesIn, Within, Read
<1>3. NoHolesIn(BackendCloseOf3) /\ Within(BackendCloseOf3, 3)
  BY DEF BackendCloseOf3, NoHolesIn, Within, Read
<1>4. NoHolesIn(BackendCloseOf4) /\ Within(BackendCloseOf4, 4)
  BY DEF BackendCloseOf4, NoHolesIn, Within, Read
<1>5. CASE n < 2
  BY <1>1, <1>5, BackendCloseReads DEF Fine, Within
<1>6. CASE n = 2
  BY <1>2, <1>6, BackendCloseReads DEF Fine, Within
<1>7. CASE n = 3
  BY <1>3, <1>7, BackendCloseReads DEF Fine, Within
<1>8. CASE n >= 4
  BY <1>4, <1>8, BackendCloseReads DEF Fine, Within
<1> QED BY <1>5, <1>6, <1>7, <1>8

\* What NewBackendReuseRecord converts of n fields ...
LEMMA BackendReuseReads ==
  ASSUME NEW f, NEW n \in Nat, n = Len(f)
  PROVE  /\ IsSeq(NewBackendReuseRecord(f))
         /\ n < 2 => Reads(NewBackendReuseRecord(f)) = {}
         /\ n >= 2 => Reads(NewBackendReuseRecord(f)) = BackendReuseOf2
BY Tuple0, Tuple2 DEF NewBackendReuseRecord, BackendReuseOf2

\* ... leaves no hole and reads no field past the last.
LEMMA BackendReuseFine ==
  ASSUME NEW f, NEW n \in Nat, n = Len(f)
  PROVE  Fine(NewBackendReuseRecord(f), n)
<1>1. NoHolesIn({}) /\ Within({}, 0)
  BY DEF NoHolesIn, Within, Read
<1>2. NoHolesIn(BackendReuseOf2) /\ Within(BackendReuseOf2, 2)
  BY DEF BackendReuseOf2, NoHolesIn, Within, Read
<1>3. CASE n < 2
  BY <1>1, <1>3, BackendReuseReads DEF Fine, Within
<1>4. CASE n >= 2
  BY <1>2, <1>4, BackendReuseReads DEF Fine, Within
<1> QED BY <1>3, <1>4

\* What NewAcctRecord converts of n fields ...
LEMMA AcctReads ==
  ASSUME NEW f, NEW n \in Nat, n = Len(f)
  PROVE  /\ IsSeq(NewAcctRecord(f))
         /\ n = 6 => Reads(NewAcctRecord(f)) = AcctOf6
         /\ n # 6 => Reads(NewAcctRecord(f)) = Rejected
BY Tuple1, Tuple6 DEF NewAcctRecord, Reject, AcctOf6, Rejected

\* ... leaves no hole and reads no field past the last.
LEMMA AcctFine ==
  ASSUME NEW f, NEW n \in Nat, n = Len(f)
  PROVE  Fine(NewAcctRecord(f), n)
<1>1. NoHolesIn(AcctOf6) /\ Within(AcctOf6, 6)
  BY DEF AcctOf6, NoHolesIn, Within, Read
<1>2. NoHolesIn(Rejected) /\ Within(Rejected, 0)
  BY DEF Rejected, NoHolesIn, Within, Read
<1>3. CASE n = 6
  BY <1>1, <1>3, AcctReads DEF Fine, Within
<1>4. CASE n # 6
  BY <1>2, <1>4, AcctReads DEF Fine, Within
<1> QED BY <1>3, <1>4

\* What NewPipeAcctRecord converts of n fields ...
LEMMA PipeAcctReads ==
  ASSUME NEW f, NEW n \in Nat, n = Len(f)
  PROVE  /\ IsSeq(NewPipeAcctRecord(f))
         /\ n = 4 => Reads(NewPipeAcctRecord(f)) = PipeAcctOf4
         /\ n # 4 => Reads(NewPipeAcctRecord(f)) = Rejected
BY Tuple1, Tuple4 DEF NewPipeAcctRecord, Reject, PipeAcctOf4, Rejected

\* ... leaves no hole and reads no field past the last.
LEMMA PipeAcctFine ==
  ASSUME NEW f, NEW n \in Nat, n = Len(f)
  PROVE  Fine(NewPipeAcctRecord(f), n)
<1>1. NoHolesIn(PipeAcctOf4) /\ Within(PipeAcctOf4, 4)
  BY DEF PipeAcctOf4, NoHolesIn, Within, Read
<1>2. NoHolesIn(Rejected) /\ Within(Rejected, 0)
  BY DEF Rejected, NoHolesIn, Within, Read
<1>3. CASE n = 4
  BY <1>1, <1>3, PipeAcctReads DEF Fine, Within
<1>4. CASE n # 4
  BY <1>2, <1>4, PipeAcctReads DEF Fine, Within
<1> QED BY <1>3, <1>4

\* What NewTimestampRecord converts of n fields ...
LEMMA TimestampReads ==
  ASSUME NEW f, NEW n \in Nat, n = Len(f)
  PROVE  /\ IsSeq(NewTimestampRecord(f))
         /\ n = 4 => Reads(NewTimestampRecord(f)) = TimestampOf4
         /\ n # 4 => Reads(NewTimestampRecord(f)) = Rejected
BY Tuple1, Tuple4 DEF NewTimestampRecord, Reject, Rejected, TimestampOf4

\* ... leaves no hole and reads no field past the last.
LEMMA TimestampFine ==
  ASSUME NEW f, NEW n \in Nat, n = Len(f)
  PROVE  Fine(NewTimestampRecord(f), n)
<1>1. NoHolesIn(TimestampOf4) /\ Within(TimestampOf4, 4)
  BY DEF TimestampOf4, NoHolesIn, Within, Read
<1>2. NoHolesIn(Rejected) /\ Within(Rejected, 0)
  BY DEF Rejected, NoHolesIn, Within, Read
<1>3. CASE n = 4
  BY <1>1, <1>3, TimestampReads DEF Fine, Within
<1>4. CASE n # 4
  BY <1>2, <1>4, TimestampReads DEF Fine, Within
<1> QED BY <1>3, <1>4

\* What NewReqStartRecord converts of n fields ...
LEMMA ReqStartReads ==
  ASSUME NEW f, NEW n \in Nat, n = Len(f)
  PROVE  /\ IsSeq(NewReqStartRecord(f))
         /\ n < 3 => Reads(NewReqStartRecord(f)) = Rejected
         /\ n = 3 => Reads(NewReqStartRecord(f)) = ReqStartOf3
         /\ n >= 4 => Reads(NewReqStartRecord(f)) = ReqStartOf4
<1>1. IsSeq(NewReqStartRecord(f))
  BY Tuple0, Tuple1, Tuple3, Concat DEF NewReqStartRecord, Reject
<1>2. ASSUME n < 3
      PROVE  Reads(NewReqStartRecord(f)) = Rejected
  BY <1>2, Tuple0, Tuple1, Tuple3, Concat DEF NewReqStartRecord, Reject,
     Rejected
<1>3. ASSUME n = 3
      PROVE  Reads(NewReqStartRecord(f)) = ReqStartOf3
  BY <1>3, Tuple0, Tuple1, Tuple3, Concat DEF NewReqStartRecord, Reject,
     ReqStartOf3
<1>4. ASSUME n >= 4
      PROVE  Reads(NewReqStartRecord(f)) = ReqStartOf4
  BY <1>4, Tuple0, Tuple1, Tuple3, Concat DEF NewReqStartRecord, Reject,
     ReqStartOf4
<1> QED BY <1>1, <1>2, <1>3, <1>4

\* ... leaves no hole and reads no field past the last.
LEMMA ReqStartFine ==
  ASSUME NEW f, NEW n \in Nat, n = Len(f)
  PROVE  Fine(NewReqStartRecord(f), n)
<1>1. NoHolesIn(Rejected) /\ Within(Rejected, 0)
  BY DEF Rejected, NoHolesIn, Within, Read
<1>2. NoHolesIn(ReqStartOf3) /\ Within(ReqStartOf3, 3)
  BY DEF ReqStartOf3, NoHolesIn, Within, Read
<1>3. NoHolesIn(ReqStartOf4) /\ Within(ReqStartOf4, 4)
  BY DEF ReqStartOf4, NoHolesIn, Within, Read
<1>4. CASE n < 3
  BY <1>1, <1>4, ReqStartReads DEF Fine, Within
<1>5. CASE n = 3
  BY <1>2, <1>5, ReqStartReads DEF Fine, Within
<1>6. CASE n >= 4
  BY <1>3, <1>6, ReqStartReads DEF Fine, Within
<1> QED BY <1>4, <1>5, <1>6

\* What NewURLRecord converts of n fields ...
LEMMA URLReads ==
  ASSUME NEW f, NEW n \in Nat, n = Len(f)
  PROVE  /\ IsSeq(NewURLRecord(f))
         /\ Reads(NewURLRecord(f)) = URLOf1
BY Tuple1 DEF NewURLRecord, URLOf1

\* ... leaves no hole and reads no field past the last.
LEMMA URLFine ==
  ASSUME NEW f, NEW n \in Nat, n = Len(f)
  PROVE  Fine(NewURLRecord(f), n)
<1>1. NoHolesIn(URLOf1) /\ Within(URLOf1, 0)
  BY DEF URLOf1, NoHolesIn, Within, Read
<1> QED BY <1>1, URLReads DEF Fine, Within

\* What NewFiltersRecord converts of n fields ...
LEMMA FiltersReads ==
  ASSUME NEW f, NEW n \in Nat, n = Len(f)
  PROVE  /\ IsSeq(NewFiltersRecord(f))
         /\ Reads(NewFiltersRecord(f)) = FiltersOf1
BY Tuple1 DEF NewFiltersRecord, FiltersOf1

\* ... leaves no hole and reads no field past the last.
LEMMA FiltersFine ==
  ASSUME NEW f, NEW n \in Nat, n = Len(f)
  PROVE  Fine(NewFiltersRecord(f), n)
<1>1. NoHolesIn(FiltersOf1) /\ Within(FiltersOf1, 0)
  BY DEF FiltersOf1, NoHolesIn, Within, Read
<1> QED BY <1>1, FiltersReads DEF Fine, Within

\* What NewStatusRecord converts of n fields ...
LEMMA StatusReads ==
  ASSUME NEW f, NEW n \in Nat, n = Len(f)
  PROVE  /\ IsSeq(NewStatusRecord(f))
         /\ Reads(NewStatusRecord(f)) = StatusOf1
BY Tuple1 DEF NewStatusRecord, StatusOf1

\* ... leaves no hole and reads no field past the last.
LEMMA StatusFine ==
  ASSUME NEW f, NEW n \in Nat, n = Len(f)
  PROVE  Fine(NewStatusRecord(f), n)
<1>1. NoHolesIn(StatusOf1) /\ Within(StatusOf1, 0)
  BY DEF StatusOf1, NoHolesIn, Within, Read
<1> QED BY <1>1, StatusReads DEF Fine, Within

\* What NewLengthRecord converts of n fields ...
LEMMA LengthReads ==
  ASSUME NEW f, NEW n \in Nat, n = Len(f)
  PROVE  /\ IsSeq(NewLengthRecord(f))
         /\ Reads(NewLengthRecord(f)) = LengthOf1
BY Tuple1 DEF NewLengthRecord, LengthOf1

\* ... leaves no hole and reads no field past the last.
LEMMA LengthFine ==
  ASSUME NEW f, NEW n \in Nat, n = Len(f)
  PROVE  Fine(NewLengthRecord(f), n)
<1>1. NoHolesIn(LengthOf1) /\ Within(LengthOf1, 0)
  BY DEF LengthOf1, NoHolesIn, Within, Read
<1> QED BY <1>1, LengthReads DEF Fine, Within

\* What NewHitRecord converts of n fields ...
LEMMA HitReads ==
  ASSUME NEW f, NEW n \in Nat, n = Len(f)
  PROVE  /\ IsSeq(NewHitRecord(f))
         /\ n < 2 \/ n > 6 => Reads(NewHitRecord(f)) = Rejected
         /\ n = 2 => Reads(NewHitRecord(f)) = HitOf2
         /\ n = 3 => Reads(NewHitRecord(f)) = HitOf4
         /\ n = 4 => Reads(NewHitRecord(f)) = HitOf4
         /\ n = 5 => Reads(NewHitRecord(f)) = HitOf5
         /\ n = 6 => Reads(NewHitRecord(f)) = HitOf6
<1>1. IsSeq(NewHitRecord(f))
  BY SMTT(30), Tuple0, Tuple1, Tuple2, Concat DEF NewHitRecord, Reject
<1>2. ASSUME n < 2 \/ n > 6
      PROVE  Reads(NewHitRecord(f)) = Rejected
  BY <1>2, SMTT(30), Tuple0, Tuple1, Tuple2, Concat DEF NewHitRecord, Reject,
     Rejected
<1>3. ASSUME n = 2
      PROVE  Reads(NewHitRecord(f)) = HitOf2
  BY <1>3, SMTT(30), Tuple0, Tuple1, Tuple2, Concat DEF NewHitRecord, Reject,
     HitOf2
<1>4. ASSUME n = 3
      PROVE  Reads(NewHitRecord(f)) = HitOf4
  BY <1>4, SMTT(30), Tuple0, Tuple1, Tuple2, Concat DEF NewHitRecord, Reject,
     HitOf4
<1>5. ASSUME n = 4
      PROVE  Reads(NewHitRecord(f)) = HitOf4
  BY <1>5, SMTT(30), Tuple0, Tuple1, Tuple2, Concat DEF NewHitRecord, Reject,
     HitOf4
<1>6. ASSUME n = 5
      PROVE  Reads(NewHitRecord(f)) = HitOf5
  BY <1>6, SMTT(30), Tuple0, Tuple1, Tuple2, Concat DEF NewHitRecord, Reject,
     HitOf5
<1>7. ASSUME n = 6
      PROVE  Reads(NewHitRecord(f)) = HitOf6
  BY <1>7, SMTT(30), Tuple0, Tuple1, Tuple2, Concat DEF NewHitRecord, Reject,
     HitOf6
<1> QED BY <1>1, <1>2, <1>3, <1>4, <1>5, <1>6, <1>7

\* ... leaves no hole and reads no field past the last; of three, the fourth.
LEMMA HitFine ==
  ASSUME NEW f, NEW n \in Nat, n = Len(f)
  PROVE  Fine(NewHitRecord(f), IF n = 3 THEN 4 ELSE n)
<1>1. NoHolesIn(Rejected) /\ Within(Rejected, 0)
  BY DEF Rejected, NoHolesIn, Within, Read
<1>2. NoHolesIn(HitOf2) /\ Within(HitOf2, 2)
  BY DEF HitOf2, NoHolesIn, Within, Read
<1>3. NoHolesIn(HitOf4) /\ Within(HitOf4, 4)
  BY DEF HitOf4, NoHolesIn, Within, Read
<1>4. NoHolesIn(HitOf4) /\ Within(HitOf4, 4)
  BY DEF HitOf4, NoHolesIn, Within, Read
<1>5. NoHolesIn(HitOf5) /\ Within(HitOf5, 5)
  BY DEF HitOf5, NoHolesIn, Within, Read
<1>6. NoHolesIn(HitOf6) /\ Within(HitOf6, 6)
  BY DEF HitOf6, NoHolesIn, Within, Read
<1>7. CASE n < 2 \/ n > 6
  <2>1. Reads(NewHitRecord(f)) = Rejected /\ IsSeq(NewHitRecord(f))
    BY <1>7, HitReads
  <2> QED BY <1>1, <1>7, <2>1 DEF Fine, Within
<1>8. CASE n = 2
  <2>1. Reads(NewHitRecord(f)) = HitOf2 /\ IsSeq(NewHitRecord(f))
    BY <1>8, HitReads
  <2> QED BY <1>2, <1>8, <2>1 DEF Fine, Within
<1>9. CASE n = 3
  <2>1. Reads(NewHitRecord(f)) = HitOf4 /\ IsSeq(NewHitRecord(f))
    BY <1>9, HitReads
  <2> QED BY <1>3, <1>9, <2>1 DEF Fine, Within
<1>10. CASE n = 4
  <2>1. Reads(NewHitRecord(f)) = HitOf4 /\ IsSeq(NewHitRecord(f))
    BY <1>10, HitReads
  <2> QED BY <1>4, <1>10, <2>1 DEF Fine, Within
<1>11. CASE n = 5
  <2>1. Reads(NewHitRecord(f)) = HitOf5 /\ IsSeq(NewHitRecord(f))
    BY <1>11, HitReads
  <2> QED BY <1>5, <1>11, <2>1 DEF Fine, Within
<1>12. CASE n = 6
  <2>1. Reads(NewHitRecord(f)) = HitOf6 /\ IsSeq(NewHitRecord(f))
    BY <1>12, HitReads
  <2> QED BY <1>6, <1>12, <2>1 DEF Fine, Within
<1>13. n < 2 \/ n > 6 \/ n = 2 \/ n = 3 \/ n = 4 \/ n = 5 \/ n = 6
  <2>1. CASE n <= 3
    BY <2>1
  <2>2. CASE n > 3
    BY <2>2
  <2> QED BY <2>1, <2>2
<1> QED BY <1>7, <1>8, <1>9, <1>10, <1>11, <1>12, <1>13

\* What NewTTLRecord converts of n fields ...
LEMMA TTLReads ==
  ASSUME NEW f, NEW n \in Nat, n = Len(f)
  PROVE  /\ IsSeq(NewTTLRecord(f))
         /\ n < 6 => Reads(NewTTLRecord(f)) = Rejected
         /\ n = 6 => Reads(NewTTLRecord(f)) = TTLOf6
         /\ n = 10 => Reads(NewTTLRecord(f)) = TTLOf10
         /\ n > 6 /\ n # 10 => Reads(NewTTLRecord(f)) = TTLCut
<1>1. IsSeq(NewTTLRecord(f))
  BY Tuple1, Tuple5, Concat DEF NewTTLRecord, Reject
<1>2. ASSUME n < 6
      PROVE  Reads(NewTTLRecord(f)) = Rejected
  BY <1>2, Tuple1, Tuple5, Concat DEF NewTTLRecord, Reject, Rejected
<1>3. ASSUME n = 6
      PROVE  Reads(NewTTLRecord(f)) = TTLOf6
  BY <1>3, Tuple1, Tuple5, Concat DEF NewTTLRecord, Reject, TTLOf6
<1>4. ASSUME n = 10
      PROVE  Reads(NewTTLRecord(f)) = TTLOf10
  BY <1>4, Tuple1, Tuple5, Concat DEF NewTTLRecord, Reject, TTLOf10
<1>5. ASSUME n > 6 /\ n # 10
      PROVE  Reads(NewTTLRecord(f)) = TTLCut
  BY <1>5, SMTT(30), Tuple1, Tuple5, Concat DEF NewTTLRecord, Reject, TTLCut
<1> QED BY <1>1, <1>2, <1>3, <1>4, <1>5

\* ... leaves no hole and reads no field past the last.
LEMMA TTLFine ==
  ASSUME NEW f, NEW n \in Nat, n = Len(f)
  PROVE  Fine(NewTTLRecord(f), n)
<1>1. NoHolesIn(Rejected) /\ Within(Rejected, 0)
  BY DEF Rejected, NoHolesIn, Within, Read
<1>2. NoHolesIn(TTLOf6) /\ Within(TTLOf6, 6)
  BY DEF TTLOf6, NoHolesIn, Within, Read
<1>3. NoHolesIn(TTLOf10) /\ Within(TTLOf10, 10)
  BY DEF TTLOf10, NoHolesIn, Within, Read
<1>4. NoHolesIn(TTLCut) /\ Within(TTLCut, 5)
  BY DEF TTLCut, NoHolesIn, Within, Read
<1>5. CASE n < 6
  BY <1>1, <1>5, TTLReads DEF Fine, Within
<1>6. CASE n = 6
  BY <1>2, <1>6, TTLReads DEF Fine, Within
<1>7. CASE n = 10
  BY <1>3, <1>7, TTLReads DEF Fine, Within
<1>8. CASE n > 6 /\ n # 10
  BY <1>4, <1>8, TTLReads DEF Fine, Within
<1> QED BY <1>5, <1>6, <1>7, <1>8

\* What NewVCLLogRecord converts of n fields ...
LEMMA VCLLogReads ==
  ASSUME NEW f, NEW n \in Nat, n = Len(f)
  PROVE  /\ IsSeq(NewVCLLogRecord(f))
         /\ HasColon(f) => Reads(NewVCLLogRecord(f)) = VCLLogOf2
         /\ ~HasColon(f) => Reads(NewVCLLogRecord(f)) = VCLLogOf1
BY Tuple1, Tuple2 DEF NewVCLLogRecord, VCLLogOf1, VCLLogOf2

\* ... leaves no hole and reads no field past the last.
LEMMA VCLLogFine ==
  ASSUME NEW f, NEW n \in Nat, n = Len(f)
  PROVE  Fine(NewVCLLogRecord(f), n)
<1>1. NoHolesIn(VCLLogOf2) /\ Within(VCLLogOf2, 0)
  BY DEF VCLLogOf2, NoHolesIn, Within, Read
<1>2. NoHolesIn(VCLLogOf1) /\ Within(VCLLogOf1, 0)
  BY DEF VCLLogOf1, NoHolesIn, Within, Read
<1>3. CASE HasColon(f)
  BY <1>1, <1>3, VCLLogReads DEF Fine, Within
<1>4. CASE ~HasColon(f)
  BY <1>2, <1>4, VCLLogReads DEF Fine, Within
<1> QED BY <1>3, <1>4

\* What NewStorageRecord converts of n fields ...
LEMMA StorageReads ==
  ASSUME NEW f, NEW n \in Nat, n = Len(f)
  PROVE  /\ IsSeq(NewStorageRecord(f))
         /\ n < 2 => Reads(NewStorageRecord(f)) = Rejected
         /\ n >= 2 => Reads(NewStorageRecord(f)) = StorageOf2
BY Tuple1, Tuple2 DEF NewStorageRecord, Reject, Rejected, StorageOf2

\* ... leaves no hole and reads no field past the last.
LEMMA StorageFine ==
  ASSUME NEW f, NEW n \in Nat, n = Len(f)
  PROVE  Fine(NewStorageRecord(f), n)
<1>1. NoHolesIn(Rejected) /\ Within(Rejected, 0)
  BY DEF Rejected, NoHolesIn, Within, Read
<1>2. NoHolesIn(StorageOf2) /\ Within(StorageOf2, 2)
  BY DEF StorageOf2, NoHolesIn, Within, Read
<1>3. CASE n < 2
  BY <1>1, <1>3, StorageReads DEF Fine, Within
<1>4. CASE n >= 2
  BY <1>2, <1>4, StorageReads DEF Fine, Within
<1> QED BY <1>3, <1>4

\* What NewFetchBodyRecord converts of n fields ...
LEMMA FetchBodyReads ==
  ASSUME NEW f, NEW n \in Nat, n = Len(f)
  PROVE  /\ IsSeq(NewFetchBodyRecord(f))
         /\ n = 3 => Reads(NewFetchBodyRecord(f)) = FetchBodyOf3
         /\ n # 3 => Reads(NewFetchBodyRecord(f)) = Rejected
BY Tuple1, Tuple3 DEF NewFetchBodyRecord, Reject, FetchBodyOf3, Rejected

\* ... leaves no hole and reads no field past the last.
LEMMA FetchBodyFine ==
  ASSUME NEW f, NEW n \in Nat, n = Len(f)
  PROVE  Fine(NewFetchBodyRecord(f), n)
<1>1. NoHolesIn(FetchBodyOf3) /\ Within(FetchBodyOf3, 3)
  BY DEF FetchBodyOf3, NoHolesIn, Within, Read
<1>2. NoHolesIn(Rejected) /\ Within(Rejected, 0)
  BY DEF Rejected, NoHolesIn, Within, Read
<1>3. CASE n = 3
  BY <1>1, <1>3, FetchBodyReads DEF Fine, Within
<1>4. CASE n # 3
  BY <1>2, <1>4, FetchBodyReads DEF Fine, Within
<1> QED BY <1>3, <1>4

\* What NewSessOpenRecord converts of n fields ...
LEMMA SessOpenReads ==
  ASSUME NEW f, NEW n \in Nat, n = Len(f)
  PROVE  /\ IsSeq(NewSessOpenRecord(f))
         /\ n = 7 => Reads(NewSessOpenRecord(f)) = SessOpenOf7
         /\ n # 7 => Reads(NewSessOpenRecord(f)) = Rejected
BY Tuple1, Tuple7 DEF NewSessOpenRecord, Reject, Rejected, SessOpenOf7

\* ... leaves no hole and reads no field past the last.
LEMMA SessOpenFine ==
  ASSUME NEW f, NEW n \in Nat, n = Len(f)
  PROVE  Fine(NewSessOpenRecord(f), n)
<1>1. NoHolesIn(SessOpenOf7) /\ Within(SessOpenOf7, 7)
  BY DEF SessOpenOf7, NoHolesIn, Within, Read
<1>2. NoHolesIn(Rejected) /\ Within(Rejected, 0)
  BY DEF Rejected, NoHolesIn, Within, Read
<1>3. CASE n = 7
  BY <1>1, <1>3, SessOpenReads DEF Fine, Within
<1>4. CASE n # 7
  BY <1>2, <1>4, SessOpenReads DEF Fine, Within
<1> QED BY <1>3, <1>4

\* What NewSessCloseRecord converts of n fields ...
LEMMA SessCloseReads ==
  ASSUME NEW f, NEW n \in Nat, n = Len(f)
  PROVE  /\ IsSeq(NewSessCloseRecord(f))
         /\ n = 2 => Reads(NewSessCloseRecord(f)) = SessCloseOf2
         /\ n # 2 => Reads(NewSessCloseRecord(f)) = Rejected
BY Tuple1, Tuple2 DEF NewSessCloseRecord, Reject, Rejected, SessCloseOf2

\* ... leaves no hole and reads no field past the last.
LEMMA SessCloseFine ==
  ASSUME NEW f, NEW n \in Nat, n = Len(f)
  PROVE  Fine(NewSessCloseRecord(f), n)
<1>1. NoHolesIn(SessCloseOf2) /\ Within(SessCloseOf2, 2)
  BY DEF SessCloseOf2, NoHolesIn, Within, Read
<1>2. NoHolesIn(Rejected) /\ Within(Rejected, 0)
  BY DEF Rejected, NoHolesIn, Within, Read
<1>3. CASE n = 2
  BY <1>1, <1>3, SessCloseReads DEF Fine, Within
<1>4. CASE n # 2
  BY <1>2, <1>4, SessCloseReads DEF Fine, Within
<1> QED BY <1>3, <1>4

\* What NewGzipRecord converts of n fields ...
LEMMA GzipReads ==
  ASSUME NEW f, NEW n \in Nat, n = Len(f)
  PROVE  /\ IsSeq(NewGzipRecord(f))
         /\ n = 8 => Reads(NewGzipRecord(f)) = GzipOf8
         /\ n # 8 => Reads(NewGzipRecord(f)) = GzipOf1
BY Tuple1, Tuple8 DEF NewGzipRecord, GzipOf1, GzipOf8

\* ... leaves no hole and reads no field past the last.
LEMMA GzipFine ==
  ASSUME NEW f, NEW n \in Nat, n = Len(f)
  PROVE  Fine(NewGzipRecord(f), n)
<1>1. NoHolesIn(GzipOf8) /\ Within(GzipOf8, 8)
  BY DEF GzipOf8, NoHolesIn, Within, Read
<1>2. NoHolesIn(GzipOf1) /\ Within(GzipOf1, 0)
  BY DEF GzipOf1, NoHolesIn, Within, Read
<1>3. CASE n = 8
  BY <1>1, <1>3, GzipReads DEF Fine, Within
<1>4. CASE n # 8
  BY <1>2, <1>4, GzipReads DEF Fine, Within
<1> QED BY <1>3, <1>4

\* What NewMSE4NewObjectRecord converts of n fields ...
LEMMA MSE4NewObjectReads ==
  ASSUME NEW f, NEW n \in Nat, n = Len(f)
  PROVE  /\ IsSeq(NewMSE4NewObjectRecord(f))
         /\ n = 5 => Reads(NewMSE4NewObjectRecord(f)) = MSE4NewObjectOf5
         /\ n = 8 => Reads(NewMSE4NewObjectRecord(f)) = MSE4NewObjectOf8
         /\ n \notin {5, 8} => Reads(NewMSE4NewObjectRecord(f)) = Rejected
<1>1. IsSeq(NewMSE4NewObjectRecord(f))
  BY Tuple0, Tuple1, Tuple3, Tuple5, Concat DEF NewMSE4NewObjectRecord, Reject
<1>2. ASSUME n = 5
      PROVE  Reads(NewMSE4NewObjectRecord(f)) = MSE4NewObjectOf5
  BY <1>2, Tuple0, Tuple1, Tuple3, Tuple5, Concat DEF NewMSE4NewObjectRecord,
     Reject, MSE4NewObjectOf5
<1>3. ASSUME n = 8
      PROVE  Reads(NewMSE4NewObjectRecord(f)) = MSE4NewObjectOf8
  BY <1>3, Tuple0, Tuple1, Tuple3, Tuple5, Concat DEF NewMSE4NewObjectRecord,
     Reject, MSE4NewObjectOf8
<1>4. ASSUME n \notin {5, 8}
      PROVE  Reads(NewMSE4NewObjectRecord(f)) = Rejected
  BY <1>4, Tuple0, Tuple1, Tuple3, Tuple5, Concat DEF NewMSE4NewObjectRecord,
     Reject, Rejected
<1> QED BY <1>1, <1>2, <1>3, <1>4

\* ... leaves no hole and reads no field past the last.
LEMMA MSE4NewObjectFine ==
  ASSUME NEW f, NEW n \in Nat, n = Len(f)
  PROVE  Fine(NewMSE4NewObjectRecord(f), n)
<1>1. NoHolesIn(MSE4NewObjectOf5) /\ Within(MSE4NewObjectOf5, 5)
  BY DEF MSE4NewObjectOf5, NoHolesIn, Within, Read
<1>2. NoHolesIn(MSE4NewObjectOf8) /\ Within(MSE4NewObjectOf8, 8)
  BY DEF MSE4NewObjectOf8, NoHolesIn, Within, Read
<1>3. NoHolesIn(Rejected) /\ Within(Rejected, 0)
  BY DEF Rejected, NoHolesIn, Within, Read
<1>4. CASE n = 5
  BY <1>1, <1>4, MSE4NewObjectReads DEF Fine, Within
<1>5. CASE n = 8
  BY <1>2, <1>5, MSE4NewObjectReads DEF Fine, Within
<1>6. CASE n \notin {5, 8}
  BY <1>3, <1>6, MSE4NewObjectReads DEF Fine, Within
<1> QED BY <1>4, <1>5, <1>6

\* What NewMSE4ObjIterRecord converts of n fields ...
LEMMA MSE4ObjIterReads ==
  ASSUME NEW f, NEW n \in Nat, n = Len(f)
  PROVE  /\ IsSeq(NewMSE4ObjIterRecord(f))
         /\ n = 4 => Reads(NewMSE4ObjIterRecord(f)) = MSE4ObjIterOf4
         /\ n = 6 => Reads(NewMSE4ObjIterRecord(f)) = MSE4ObjIterOf6
         /\ n \notin {4, 6} => Reads(NewMSE4ObjIterRecord(f)) = Rejected
<1>1. IsSeq(NewMSE4ObjIterRecord(f))
  BY Tuple0, Tuple1, Tuple2, Tuple4, Concat DEF NewMSE4ObjIterRecord, Reject
<1>2. ASSUME n = 4
      PROVE  Reads(NewMSE4ObjIterRecord(f)) = MSE4ObjIterOf4
  BY <1>2, Tuple0, Tuple1, Tuple2, Tuple4, Concat DEF NewMSE4ObjIterRecord,
     Reject, MSE4ObjIterOf4
<1>3. ASSUME n = 6
      PROVE  Reads(NewMSE4ObjIterRecord(f)) = MSE4ObjIterOf6
  BY <1>3, Tuple0, Tuple1, Tuple2, Tuple4, Concat DEF NewMSE4ObjIterRecord,
     Reject, MSE4ObjIterOf6
<1>4. ASSUME n \notin {4, 6}
      PROVE  Reads(NewMSE4ObjIterRecord(f)) = Rejected
  BY <1>4, Tuple0, Tuple1, Tuple2, Tuple4, Concat DEF NewMSE4ObjIterRecord,
     Reject, Rejected
<1> QED BY <1>1, <1>2, <1>3, <1>4

\* ... leaves no hole and reads no field past the last.
LEMMA MSE4ObjIterFine ==
  ASSUME NEW f, NEW n \in Nat, n = Len(f)
  PROVE  Fine(NewMSE4ObjIterRecord(f), n)
<1>1. NoHolesIn(MSE4ObjIterOf4) /\ Within(MSE4ObjIterOf4, 4)
  BY DEF MSE4ObjIterOf4, NoHolesIn, Within, Read
<1>2. NoHolesIn(MSE4ObjIterOf6) /\ Within(MSE4ObjIterOf6, 6)
  BY DEF MSE4ObjIterOf6, NoHolesIn, Within, Read
<1>3. NoHolesIn(Rejected) /\ Within(Rejected, 0)
  BY DEF Rejected, NoHolesIn, Within, Read
<1>4. CASE n = 4
  BY <1>1, <1>4, MSE4ObjIterReads DEF Fine, Within
<1>5. CASE n = 6
  BY <1>2, <1>5, MSE4ObjIterReads DEF Fine, Within
<1>6. CASE n \notin {4, 6}
  BY <1>3, <1>6, MSE4ObjIterReads DEF Fine, Within
<1> QED BY <1>4, <1>5, <1>6

\* What NewMSE4ChunkFaultRecord converts of n fields ...
LEMMA MSE4ChunkFaultReads ==
  ASSUME NEW f, NEW n \in Nat, n = Len(f)
  PROVE  /\ IsSeq(NewMSE4ChunkFaultRecord(f))
         /\ n = 5 => Reads(NewMSE4ChunkFaultRecord(f)) = MSE4ChunkFaultOf5
         /\ n # 5 => Reads(NewMSE4ChunkFaultRecord(f)) = Rejected
BY Tuple1, Tuple5 DEF NewMSE4ChunkFaultRecord, Reject, MSE4ChunkFaultOf5,
   Rejected

\* ... leaves no hole and reads no field past the last.
LEMMA MSE4ChunkFaultFine ==
  ASSUME NEW f, NEW n \in Nat, n = Len(f)
  PROVE  Fine(NewMSE4ChunkFaultRecord(f), n)
<1>1. NoHolesIn(MSE4ChunkFaultOf5) /\ Within(MSE4ChunkFaultOf5, 5)
  BY DEF MSE4ChunkFaultOf5, NoHolesIn, Within, Read
<1>2. NoHolesIn(Rejected) /\ Within(Rejected, 0)
  BY DEF Rejected, NoHolesIn, Within, Read
<1>3. CASE n = 5
  BY <1>1, <1>3, MSE4ChunkFaultReads DEF Fine, Within
<1>4. CASE n # 5
  BY <1>2, <1>4, MSE4ChunkFaultReads DEF Fine, Within
<1> QED BY <1>3, <1>4

\* What NewBrotliRecord converts of n fields ...
LEMMA BrotliReads ==
  ASSUME NEW f, NEW n \in Nat, n = Len(f)
  PROVE  /\ IsSeq(NewBrotliRecord(f))
         /\ n = 4 => Reads(NewBrotliRecord(f)) = BrotliOf4
         /\ n # 4 => Reads(NewBrotliRecord(f)) = Rejected
BY Tuple1, Tuple4 DEF NewBrotliRecord, Reject, BrotliOf4, Rejected

\* ... leaves no hole and reads no field past the last.
LEMMA BrotliFine ==
  ASSUME NEW f, NEW n \in Nat, n = Len(f)
  PROVE  Fine(NewBrotliRecord(f), n)
<1>1. NoHolesIn(BrotliOf4) /\ Within(BrotliOf4, 4)
  BY DEF BrotliOf4, NoHolesIn, Within, Read
<1>2. NoHolesIn(Rejected) /\ Within(Rejected, 0)
  BY DEF Rejected, NoHolesIn, Within, Read
<1>3. CASE n = 4
  BY <1>1, <1>3, BrotliReads DEF Fine, Within
<1>4. CASE n # 4
  BY <1>2, <1>4, BrotliReads DEF Fine, Within
<1> QED BY <1>3, <1>4

-----------------------------------------------------------------------------
(* The lines varnishd writes *)

\* A Begin line that varnishd writes.
LEMMA BeginWritten ==
  ASSUME NEW f \in Seq(Tokens), NEW n \in Nat, n = Len(f),
         NEW p \in Formats["Begin"], Prints(p, f)
  PROVE  Keeps(Reads(NewBeginRecord(f)), f)
<1>1. p \in {<<"word", "vxid", "word">>,
            <<"word", "vxid", "esi", "count">>}
  BY DEF Formats
<1>2. CASE p = <<"word", "vxid", "word">>
  <2>1. Len(f) = 3 /\ n = 3
    BY <1>2 DEF Prints
  <2>2. f[1] = "word" /\ f[2] = "id" /\ f[3] = "word"
    BY <1>2, PrintedIs DEF Prints
  <2>3. Accepts("vxid", <<f[2]>>)
    BY <2>2, AcceptsField
  <2>4. Keeps(BeginOf3, f)
    BY <2>1, <2>3, AcceptsField DEF BeginOf3, Keeps, Read
  <2> QED BY <2>1, <2>4, BeginReads
<1>3. CASE p = <<"word", "vxid", "esi", "count">>
  <2>1. Len(f) = 4 /\ n = 4
    BY <1>3 DEF Prints
  <2>2. /\ f[1] = "word" /\ f[2] = "id" /\ f[3] = "esi"
        /\ f[4] \in {"id", "long"}
    BY <1>3, PrintedIs DEF Prints
  <2>3. /\ Accepts("esi", <<f[3]>>) /\ Accepts("int", <<f[4]>>)
        /\ Accepts("vxid", <<f[2]>>)
    BY <2>2, AcceptsField
  <2>4. Keeps(BeginOf4, f)
    BY <2>1, <2>3, AcceptsField DEF BeginOf4, Keeps, Read
  <2> QED BY <2>1, <2>4, BeginReads
<1> QED BY <1>1, <1>2, <1>3

\* A Header line that varnishd writes.
LEMMA HeaderWritten ==
  ASSUME NEW f \in Seq(Tokens), NEW n \in Nat, n = Len(f),
         NEW p \in Formats["Header"], Prints(p, f)
  PROVE  Keeps(Reads(NewHeaderRecord(f)), f)
<1>1. p \in {<<"name:">>,
            <<"name:", "word">>,
            <<"name:", "name:", "word">>}
  BY DEF Formats
<1>2. CASE p = <<"name:">>
  <2>1. Len(f) = 1 /\ n = 1
    BY <1>2 DEF Prints
  <2>2. f[1] = "name:"
    BY <1>2, PrintedIs DEF Prints
  <2>3. HasColon(f)
    BY <2>1, <2>2, LenProperties DEF HasColon
  <2>4. Keeps(HeaderOf2, f)
    BY <2>1, AcceptsField DEF HeaderOf2, Keeps, Read
  <2> QED BY <2>1, <2>3, <2>4, HeaderReads
<1>3. CASE p = <<"name:", "word">>
  <2>1. Len(f) = 2 /\ n = 2
    BY <1>3 DEF Prints
  <2>2. f[1] = "name:"
    BY <1>3, PrintedIs DEF Prints
  <2>3. HasColon(f)
    BY <2>1, <2>2, LenProperties DEF HasColon
  <2>4. Keeps(HeaderOf2, f)
    BY <2>1, AcceptsField DEF HeaderOf2, Keeps, Read
  <2> QED BY <2>1, <2>3, <2>4, HeaderReads
<1>4. CASE p = <<"name:", "name:", "word">>
  <2>1. Len(f) = 3 /\ n = 3
    BY <1>4 DEF Prints
  <2>2. f[1] = "name:"
    BY <1>4, PrintedIs DEF Prints
  <2>3. HasColon(f)
    BY <2>1, <2>2, LenProperties DEF HasColon
  <2>4. Keeps(HeaderOf2, f)
    BY <2>1, AcceptsField DEF HeaderOf2, Keeps, Read
  <2> QED BY <2>1, <2>3, <2>4, HeaderReads
<1> QED BY <1>1, <1>2, <1>3, <1>4

\* A Unset line that varnishd writes.
LEMMA UnsetWritten ==
  ASSUME NEW f \in Seq(Tokens), NEW n \in Nat, n = Len(f),
         NEW p \in Formats["Unset"], Prints(p, f)
  PROVE  Keeps(Reads(NewHeaderRecord(f)), f)
<1>1. p \in {<<"name:">>,
            <<"name:", "word">>}
  BY DEF Formats
<1>2. CASE p = <<"name:">>
  <2>1. Len(f) = 1 /\ n = 1
    BY <1>2 DEF Prints
  <2>2. f[1] = "name:"
    BY <1>2, PrintedIs DEF Prints
  <2>3. HasColon(f)
    BY <2>1, <2>2, LenProperties DEF HasColon
  <2>4. Keeps(HeaderOf2, f)
    BY <2>1, AcceptsField DEF HeaderOf2, Keeps, Read
  <2> QED BY <2>1, <2>3, <2>4, HeaderReads
<1>3. CASE p = <<"name:", "word">>
  <2>1. Len(f) = 2 /\ n = 2
    BY <1>3 DEF Prints
  <2>2. f[1] = "name:"
    BY <1>3, PrintedIs DEF Prints
  <2>3. HasColon(f)
    BY <2>1, <2>2, LenProperties DEF HasColon
  <2>4. Keeps(HeaderOf2, f)
    BY <2>1, AcceptsField DEF HeaderOf2, Keeps, Read
  <2> QED BY <2>1, <2>3, <2>4, HeaderReads
<1> QED BY <1>1, <1>2, <1>3

\* A BackendOpen line that varnishd writes.
LEMMA BackendOpenWritten ==
  ASSUME NEW f \in Seq(Tokens), NEW n \in Nat, n = Len(f),
         NEW p \in Formats["BackendOpen"], Prints(p, f)
  PROVE  Keeps(Reads(NewBackendOpenRecord(f)), f)
<1>1. p \in {<<"count", "word", "ip", "count", "ip", "count">>,
            <<"count", "word", "ip", "count", "ip", "count", "word">>}
  BY Joined DEF Formats
<1>2. CASE p = <<"count", "word", "ip", "count", "ip", "count">>
  <2>1. Len(f) = 6 /\ n = 6
    BY <1>2 DEF Prints
  <2>2. /\ f[1] \in {"id", "long"} /\ f[2] = "word" /\ f[3] = "ip"
        /\ f[4] \in {"id", "long"} /\ f[5] = "ip" /\ f[6] \in {"id", "long"}
    BY <1>2, PrintedIs DEF Prints
  <2>3. /\ Accepts("int", <<f[1]>>) /\ Accepts("ip", <<f[3]>>)
        /\ Accepts("int", <<f[4]>>) /\ Accepts("ip", <<f[5]>>)
        /\ Accepts("int", <<f[6]>>)
    BY <2>2, AcceptsField
  <2>4. Keeps(BackendOpenOf6, f)
    BY <2>1, <2>3, AcceptsField DEF BackendOpenOf6, Keeps, Read
  <2> QED BY <2>1, <2>4, BackendOpenReads
<1>3. CASE p = <<"count", "word", "ip", "count", "ip", "count", "word">>
  <2>1. Len(f) = 7 /\ n = 7
    BY <1>3 DEF Prints
  <2>2. /\ f[1] \in {"id", "long"} /\ f[2] = "word" /\ f[3] = "ip"
        /\ f[4] \in {"id", "long"} /\ f[5] = "ip" /\ f[6] \in {"id", "long"}
        /\ f[7] = "word"
    BY <1>3, PrintedIs DEF Prints
  <2>3. /\ Accepts("int", <<f[1]>>) /\ Accepts("ip", <<f[3]>>)
        /\ Accepts("int", <<f[4]>>) /\ Accepts("ip", <<f[5]>>)
        /\ Accepts("int", <<f[6]>>)
    BY <2>2, AcceptsField
  <2>4. n >= 7
    BY <2>1
  <2>5. Keeps(BackendOpenOf7, f)
    BY <2>1, <2>3, AcceptsField DEF BackendOpenOf7, Keeps, Read
  <2> QED BY <2>1, <2>4, <2>5, BackendOpenReads
<1> QED BY <1>1, <1>2, <1>3

\* A BackendStart line that varnishd writes.
LEMMA BackendStartWritten ==
  ASSUME NEW f \in Seq(Tokens), NEW n \in Nat, n = Len(f),
         NEW p \in Formats["BackendStart"], Prints(p, f)
  PROVE  Keeps(Reads(NewBackendStartRecord(f)), f)
<1>1. p \in {<<"ip", "count">>}
  BY DEF Formats
<1>2. CASE p = <<"ip", "count">>
  <2>1. Len(f) = 2 /\ n = 2
    BY <1>2 DEF Prints
  <2>2. f[1] = "ip" /\ f[2] \in {"id", "long"}
    BY <1>2, PrintedIs DEF Prints
  <2>3. Accepts("ip", <<f[1]>>) /\ Accepts("int", <<f[2]>>)
    BY <2>2, AcceptsField
  <2>4. n >= 2
    BY <2>1
  <2>5. Keeps(BackendStartOf2, f)
    BY <2>1, <2>3, AcceptsField DEF BackendStartOf2, Keeps, Read
  <2> QED BY <2>1, <2>4, <2>5, BackendStartReads
<1> QED BY <1>1, <1>2

\* A BackendClose line that varnishd writes.
LEMMA BackendCloseWritten ==
  ASSUME NEW f \in Seq(Tokens), NEW n \in Nat, n = Len(f),
         NEW p \in Formats["BackendClose"], Prints(p, f)
  PROVE  Keeps(Reads(NewBackendCloseRecord(f)), f)
<1>1. p \in {<<"count", "word">>,
            <<"count", "word", "word">>,
            <<"count", "word", "word", "word">>}
  BY DEF Formats
<1>2. CASE p = <<"count", "word">>
  <2>1. Len(f) = 2 /\ n = 2
    BY <1>2 DEF Prints
  <2>2. f[1] \in {"id", "long"} /\ f[2] = "word"
    BY <1>2, PrintedIs DEF Prints
  <2>3. Accepts("int", <<f[1]>>)
    BY <2>2, AcceptsField
  <2>4. Keeps(BackendCloseOf2, f)
    BY <2>1, <2>3, AcceptsField DEF BackendCloseOf2, Keeps, Read
  <2> QED BY <2>1, <2>4, BackendCloseReads
<1>3. CASE p = <<"count", "word", "word">>
  <2>1. Len(f) = 3 /\ n = 3
    BY <1>3 DEF Prints
  <2>2. f[1] \in {"id", "long"} /\ f[2] = "word" /\ f[3] = "word"
    BY <1>3, PrintedIs DEF Prints
  <2>3. Accepts("int", <<f[1]>>)
    BY <2>2, AcceptsField
  <2>4. Keeps(BackendCloseOf3, f)
    BY <2>1, <2>3, AcceptsField DEF BackendCloseOf3, Keeps, Read
  <2> QED BY <2>1, <2>4, BackendCloseReads
<1>4. CASE p = <<"count", "word", "word", "word">>
  <2>1. Len(f) = 4 /\ n = 4
    BY <1>4 DEF Prints
  <2>2. /\ f[1] \in {"id", "long"} /\ f[2] = "word" /\ f[3] = "word"
        /\ f[4] = "word"
    BY <1>4, PrintedIs DEF Prints
  <2>3. Accepts("int", <<f[1]>>)
    BY <2>2, AcceptsField
  <2>4. n >= 4
    BY <2>1
  <2>5. Keeps(BackendCloseOf4, f)
    BY <2>1, <2>3, AcceptsField DEF BackendCloseOf4, Keeps, Read
  <2> QED BY <2>1, <2>4, <2>5, BackendCloseReads
<1> QED BY <1>1, <1>2, <1>3, <1>4

\* A BackendReuse line that varnishd writes.
LEMMA BackendReuseWritten ==
  ASSUME NEW f \in Seq(Tokens), NEW n \in Nat, n = Len(f),
         NEW p \in Formats["BackendReuse"], Prints(p, f)
  PROVE  Keeps(Reads(NewBackendReuseRecord(f)), f)
<1>1. p \in {<<"count", "word">>}
  BY DEF Formats
<1>2. CASE p = <<"count", "word">>
  <2>1. Len(f) = 2 /\ n = 2
    BY <1>2 DEF Prints
  <2>2. f[1] \in {"id", "long"} /\ f[2] = "word"
    BY <1>2, PrintedIs DEF Prints
  <2>3. Accepts("int", <<f[1]>>)
    BY <2>2, AcceptsField
  <2>4. n >= 2
    BY <2>1
  <2>5. Keeps(BackendReuseOf2, f)
    BY <2>1, <2>3, AcceptsField DEF BackendReuseOf2, Keeps, Read
  <2> QED BY <2>1, <2>4, <2>5, BackendReuseReads
<1> QED BY <1>1, <1>2

\* A Brotli line that varnishd writes.
LEMMA BrotliWritten ==
  ASSUME NEW f \in Seq(Tokens), NEW n \in Nat, n = Len(f),
         NEW p \in Formats["Brotli"], Prints(p, f)
  PROVE  Keeps(Reads(NewBrotliRecord(f)), f)
<1>1. p \in {<<"op", "dir", "count", "count">>}
  BY DEF Formats
<1>2. CASE p = <<"op", "dir", "count", "count">>
  <2>1. Len(f) = 4 /\ n = 4
    BY <1>2 DEF Prints
  <2>2. /\ f[1] = "op" /\ f[2] = "dir" /\ f[3] \in {"id", "long"}
        /\ f[4] \in {"id", "long"}
    BY <1>2, PrintedIs DEF Prints
  <2>3. /\ Accepts("op", <<f[1]>>) /\ Accepts("dir", <<f[2]>>)
        /\ Accepts("int", <<f[3]>>) /\ Accepts("int", <<f[4]>>)
    BY <2>2, AcceptsField
  <2>4. Keeps(BrotliOf4, f)
    BY <2>1, <2>3, AcceptsField DEF BrotliOf4, Keeps, Read
  <2> QED BY <2>1, <2>4, BrotliReads
<1> QED BY <1>1, <1>2

\* A Acct line that varnishd writes.
LEMMA AcctWritten ==
  ASSUME NEW f \in Seq(Tokens), NEW n \in Nat, n = Len(f),
         NEW p \in Formats["Acct"], Prints(p, f)
  PROVE  Keeps(Reads(NewAcctRecord(f)), f)
<1>1. p \in {<<"count", "count", "count", "count", "count", "count">>}
  BY DEF Formats
<1>2. CASE p = <<"count", "count", "count", "count", "count", "count">>
  <2>1. Len(f) = 6 /\ n = 6
    BY <1>2 DEF Prints
  <2>2. /\ f[1] \in {"id", "long"} /\ f[2] \in {"id", "long"} /\ f[3] \in {"id", "long"}
        /\ f[4] \in {"id", "long"} /\ f[5] \in {"id", "long"} /\ f[6] \in {"id", "long"}
    BY <1>2, PrintedIs DEF Prints
  <2>3. /\ Accepts("int", <<f[1]>>) /\ Accepts("int", <<f[2]>>)
        /\ Accepts("int", <<f[3]>>) /\ Accepts("int", <<f[4]>>)
        /\ Accepts("int", <<f[5]>>) /\ Accepts("int", <<f[6]>>)
    BY <2>2, AcceptsField
  <2>4. Keeps(AcctOf6, f)
    BY <2>1, <2>3, AcceptsField DEF AcctOf6, Keeps, Read
  <2> QED BY <2>1, <2>4, AcctReads
<1> QED BY <1>1, <1>2

\* A PipeAcct line that varnishd writes.
LEMMA PipeAcctWritten ==
  ASSUME NEW f \in Seq(Tokens), NEW n \in Nat, n = Len(f),
         NEW p \in Formats["PipeAcct"], Prints(p, f)
  PROVE  Keeps(Reads(NewPipeAcctRecord(f)), f)
<1>1. p \in {<<"count", "count", "count", "count">>}
  BY DEF Formats
<1>2. CASE p = <<"count", "count", "count", "count">>
  <2>1. Len(f) = 4 /\ n = 4
    BY <1>2 DEF Prints
  <2>2. /\ f[1] \in {"id", "long"} /\ f[2] \in {"id", "long"} /\ f[3] \in {"id", "long"}
        /\ f[4] \in {"id", "long"}
    BY <1>2, PrintedIs DEF Prints
  <2>3. /\ Accepts("int", <<f[1]>>) /\ Accepts("int", <<f[2]>>)
        /\ Accepts("int", <<f[3]>>) /\ Accepts("int", <<f[4]>>)
    BY <2>2, AcceptsField
  <2>4. Keeps(PipeAcctOf4, f)
    BY <2>1, <2>3, AcceptsField DEF PipeAcctOf4, Keeps, Read
  <2> QED BY <2>1, <2>4, PipeAcctReads
<1> QED BY <1>1, <1>2

\* A Timestamp line that varnishd writes.
LEMMA TimestampWritten ==
  ASSUME NEW f \in Seq(Tokens), NEW n \in Nat, n = Len(f),
         NEW p \in Formats["Timestamp"], Prints(p, f)
  PROVE  Keeps(Reads(NewTimestampRecord(f)), f)
<1>1. p \in {<<"name:", "epoch", "secs", "secs">>}
  BY DEF Formats
<1>2. CASE p = <<"name:", "epoch", "secs", "secs">>
  <2>1. Len(f) = 4 /\ n = 4
    BY <1>2 DEF Prints
  <2>2. /\ f[1] = "name:" /\ f[2] = "frac" /\ f[3] = "frac"
        /\ f[4] = "frac"
    BY <1>2, PrintedIs DEF Prints
  <2>3. /\ Accepts("float", <<f[2]>>) /\ Accepts("float", <<f[3]>>)
        /\ Accepts("float", <<f[4]>>)
    BY <2>2, AcceptsField
  <2>4. Keeps(TimestampOf4, f)
    BY <2>1, <2>3, AcceptsField DEF TimestampOf4, Keeps, Read
  <2> QED BY <2>1, <2>4, TimestampReads
<1> QED BY <1>1, <1>2

\* A ReqStart line that varnishd writes.
LEMMA ReqStartWritten ==
  ASSUME NEW f \in Seq(Tokens), NEW n \in Nat, n = Len(f),
         NEW p \in Formats["ReqStart"], Prints(p, f)
  PROVE  Keeps(Reads(NewReqStartRecord(f)), f)
<1>1. p \in {<<"ip", "count", "word">>,
            <<"ip", "count", "word", "word">>}
  BY Joined DEF Formats
<1>2. CASE p = <<"ip", "count", "word">>
  <2>1. Len(f) = 3 /\ n = 3
    BY <1>2 DEF Prints
  <2>2. f[1] = "ip" /\ f[2] \in {"id", "long"} /\ f[3] = "word"
    BY <1>2, PrintedIs DEF Prints
  <2>3. Accepts("ip", <<f[1]>>) /\ Accepts("int", <<f[2]>>)
    BY <2>2, AcceptsField
  <2>4. Keeps(ReqStartOf3, f)
    BY <2>1, <2>3, AcceptsField DEF ReqStartOf3, Keeps, Read
  <2> QED BY <2>1, <2>4, ReqStartReads
<1>3. CASE p = <<"ip", "count", "word", "word">>
  <2>1. Len(f) = 4 /\ n = 4
    BY <1>3 DEF Prints
  <2>2. /\ f[1] = "ip" /\ f[2] \in {"id", "long"} /\ f[3] = "word"
        /\ f[4] = "word"
    BY <1>3, PrintedIs DEF Prints
  <2>3. Accepts("ip", <<f[1]>>) /\ Accepts("int", <<f[2]>>)
    BY <2>2, AcceptsField
  <2>4. n >= 4
    BY <2>1
  <2>5. Keeps(ReqStartOf4, f)
    BY <2>1, <2>3, AcceptsField DEF ReqStartOf4, Keeps, Read
  <2> QED BY <2>1, <2>4, <2>5, ReqStartReads
<1> QED BY <1>1, <1>2, <1>3

\* A URL line that varnishd writes.
LEMMA URLWritten ==
  ASSUME NEW f \in Seq(Tokens), NEW n \in Nat, n = Len(f),
         NEW p \in Formats["URL"], Prints(p, f)
  PROVE  Keeps(Reads(NewURLRecord(f)), f)
<1>1. p \in {<<"word">>}
  BY DEF Formats
<1>2. CASE p = <<"word">>
  <2>1. Len(f) = 1 /\ n = 1
    BY <1>2 DEF Prints
  <2>2. f[1] = "word"
    BY <1>2, PrintedIs DEF Prints
  <2>3. Keeps(URLOf1, f)
    BY <2>1, <2>2, AcceptsWhole DEF URLOf1, Keeps, Read
  <2> QED BY <2>1, <2>3, URLReads
<1> QED BY <1>1, <1>2

\* A Filters line that varnishd writes.
LEMMA FiltersWritten ==
  ASSUME NEW f \in Seq(Tokens), NEW n \in Nat, n = Len(f),
         NEW p \in Formats["Filters"], Prints(p, f)
  PROVE  Keeps(Reads(NewFiltersRecord(f)), f)
<1>1. p \in {<< >>,
            <<"word">>,
            <<"word", "word">>}
  BY DEF Formats
<1>2. CASE p = << >>
  <2>1. Len(f) = 0 /\ n = 0
    BY <1>2 DEF Prints
  <2>2. Keeps(FiltersOf1, f)
    BY <2>1, AcceptsField DEF FiltersOf1, Keeps, Read
  <2> QED BY <2>1, <2>2, FiltersReads
<1>3. CASE p = <<"word">>
  <2>1. Len(f) = 1 /\ n = 1
    BY <1>3 DEF Prints
  <2>2. Keeps(FiltersOf1, f)
    BY <2>1, AcceptsField DEF FiltersOf1, Keeps, Read
  <2> QED BY <2>1, <2>2, FiltersReads
<1>4. CASE p = <<"word", "word">>
  <2>1. Len(f) = 2 /\ n = 2
    BY <1>4 DEF Prints
  <2>2. Keeps(FiltersOf1, f)
    BY <2>1, AcceptsField DEF FiltersOf1, Keeps, Read
  <2> QED BY <2>1, <2>2, FiltersReads
<1> QED BY <1>1, <1>2, <1>3, <1>4

\* A Status line that varnishd writes.
LEMMA StatusWritten ==
  ASSUME NEW f \in Seq(Tokens), NEW n \in Nat, n = Len(f),
         NEW p \in Formats["Status"], Prints(p, f)
  PROVE  Keeps(Reads(NewStatusRecord(f)), f)
<1>1. p \in {<<"count">>}
  BY DEF Formats
<1>2. CASE p = <<"count">>
  <2>1. Len(f) = 1 /\ n = 1
    BY <1>2 DEF Prints
  <2>2. f[1] \in {"id", "long"}
    BY <1>2, PrintedIs DEF Prints
  <2>3. Keeps(StatusOf1, f)
    BY <2>1, <2>2, AcceptsWhole DEF StatusOf1, Keeps, Read
  <2> QED BY <2>1, <2>3, StatusReads
<1> QED BY <1>1, <1>2

\* A Length line that varnishd writes.
LEMMA LengthWritten ==
  ASSUME NEW f \in Seq(Tokens), NEW n \in Nat, n = Len(f),
         NEW p \in Formats["Length"], Prints(p, f)
  PROVE  Keeps(Reads(NewLengthRecord(f)), f)
<1>1. p \in {<<"count">>}
  BY DEF Formats
<1>2. CASE p = <<"count">>
  <2>1. Len(f) = 1 /\ n = 1
    BY <1>2 DEF Prints
  <2>2. f[1] \in {"id", "long"}
    BY <1>2, PrintedIs DEF Prints
  <2>3. Keeps(LengthOf1, f)
    BY <2>1, <2>2, AcceptsWhole DEF LengthOf1, Keeps, Read
  <2> QED BY <2>1, <2>3, LengthReads
<1> QED BY <1>1, <1>2

\* A MSE4_NewObject line that varnishd writes.
LEMMA MSE4NewObjectWritten ==
  ASSUME NEW f \in Seq(Tokens), NEW n \in Nat, n = Len(f),
         NEW p \in Formats["MSE4_NewObject"], Prints(p, f)
  PROVE  Keeps(Reads(NewMSE4NewObjectRecord(f)), f)
<1>1. p \in {<<"count", "count", "secs", "secs", "secs">>,
            <<"count", "count", "secs", "secs", "secs", "secs", "secs", "secs">>}
  BY Joined DEF Formats
<1>2. CASE p = <<"count", "count", "secs", "secs", "secs">>
  <2>1. Len(f) = 5 /\ n = 5
    BY <1>2 DEF Prints
  <2>2. /\ f[1] \in {"id", "long"} /\ f[2] \in {"id", "long"} /\ f[3] = "frac"
        /\ f[4] = "frac" /\ f[5] = "frac"
    BY <1>2, PrintedIs DEF Prints
  <2>3. /\ Accepts("int", <<f[1]>>) /\ Accepts("int", <<f[2]>>)
        /\ Accepts("float", <<f[3]>>) /\ Accepts("float", <<f[4]>>)
        /\ Accepts("float", <<f[5]>>)
    BY <2>2, AcceptsField
  <2>4. Keeps(MSE4NewObjectOf5, f)
    BY <2>1, <2>3, AcceptsField DEF MSE4NewObjectOf5, Keeps, Read
  <2> QED BY <2>1, <2>4, MSE4NewObjectReads
<1>3. CASE p = <<"count", "count", "secs", "secs", "secs", "secs", "secs", "secs">>
  <2>1. Len(f) = 8 /\ n = 8
    BY <1>3 DEF Prints
  <2>2. /\ f[1] \in {"id", "long"} /\ f[2] \in {"id", "long"} /\ f[3] = "frac"
        /\ f[4] = "frac" /\ f[5] = "frac" /\ f[6] = "frac"
        /\ f[7] = "frac" /\ f[8] = "frac"
    BY <1>3, PrintedIs DEF Prints
  <2>3. /\ Accepts("int", <<f[1]>>) /\ Accepts("int", <<f[2]>>)
        /\ Accepts("float", <<f[3]>>) /\ Accepts("float", <<f[4]>>)
        /\ Accepts("float", <<f[5]>>) /\ Accepts("float", <<f[6]>>)
        /\ Accepts("float", <<f[7]>>) /\ Accepts("float", <<f[8]>>)
    BY <2>2, AcceptsField
  <2>4. Keeps(MSE4NewObjectOf8, f)
    BY <2>1, <2>3, AcceptsField DEF MSE4NewObjectOf8, Keeps, Read
  <2> QED BY <2>1, <2>4, MSE4NewObjectReads
<1> QED BY <1>1, <1>2, <1>3

\* A MSE4_ObjIter line that varnishd writes.
LEMMA MSE4ObjIterWritten ==
  ASSUME NEW f \in Seq(Tokens), NEW n \in Nat, n = Len(f),
         NEW p \in Formats["MSE4_ObjIter"], Prints(p, f)
  PROVE  Keeps(Reads(NewMSE4ObjIterRecord(f)), f)
<1>1. p \in {<<"secs", "count", "secs", "secs">>,
            <<"secs", "count", "secs", "secs", "count", "secs">>}
  BY DEF Formats
<1>2. CASE p = <<"secs", "count", "secs", "secs">>
  <2>1. Len(f) = 4 /\ n = 4
    BY <1>2 DEF Prints
  <2>2. /\ f[1] = "frac" /\ f[2] \in {"id", "long"} /\ f[3] = "frac"
        /\ f[4] = "frac"
    BY <1>2, PrintedIs DEF Prints
  <2>3. /\ Accepts("float", <<f[1]>>) /\ Accepts("int", <<f[2]>>)
        /\ Accepts("float", <<f[3]>>) /\ Accepts("float", <<f[4]>>)
    BY <2>2, AcceptsField
  <2>4. Keeps(MSE4ObjIterOf4, f)
    BY <2>1, <2>3, AcceptsField DEF MSE4ObjIterOf4, Keeps, Read
  <2> QED BY <2>1, <2>4, MSE4ObjIterReads
<1>3. CASE p = <<"secs", "count", "secs", "secs", "count", "secs">>
  <2>1. Len(f) = 6 /\ n = 6
    BY <1>3 DEF Prints
  <2>2. /\ f[1] = "frac" /\ f[2] \in {"id", "long"} /\ f[3] = "frac"
        /\ f[4] = "frac" /\ f[5] \in {"id", "long"} /\ f[6] = "frac"
    BY <1>3, PrintedIs DEF Prints
  <2>3. /\ Accepts("float", <<f[1]>>) /\ Accepts("int", <<f[2]>>)
        /\ Accepts("float", <<f[3]>>) /\ Accepts("float", <<f[4]>>)
        /\ Accepts("int", <<f[5]>>) /\ Accepts("float", <<f[6]>>)
    BY <2>2, AcceptsField
  <2>4. Keeps(MSE4ObjIterOf6, f)
    BY <2>1, <2>3, AcceptsField DEF MSE4ObjIterOf6, Keeps, Read
  <2> QED BY <2>1, <2>4, MSE4ObjIterReads
<1> QED BY <1>1, <1>2, <1>3

\* A MSE4_ChunkFault line that varnishd writes.
LEMMA MSE4ChunkFaultWritten ==
  ASSUME NEW f \in Seq(Tokens), NEW n \in Nat, n = Len(f),
         NEW p \in Formats["MSE4_ChunkFault"], Prints(p, f)
  PROVE  Keeps(Reads(NewMSE4ChunkFaultRecord(f)), f)
<1>1. p \in {<<"count", "count", "secs", "secs", "secs">>}
  BY DEF Formats
<1>2. CASE p = <<"count", "count", "secs", "secs", "secs">>
  <2>1. Len(f) = 5 /\ n = 5
    BY <1>2 DEF Prints
  <2>2. /\ f[1] \in {"id", "long"} /\ f[2] \in {"id", "long"} /\ f[3] = "frac"
        /\ f[4] = "frac" /\ f[5] = "frac"
    BY <1>2, PrintedIs DEF Prints
  <2>3. /\ Accepts("int", <<f[1]>>) /\ Accepts("int", <<f[2]>>)
        /\ Accepts("float", <<f[3]>>) /\ Accepts("float", <<f[4]>>)
        /\ Accepts("float", <<f[5]>>)
    BY <2>2, AcceptsField
  <2>4. Keeps(MSE4ChunkFaultOf5, f)
    BY <2>1, <2>3, AcceptsField DEF MSE4ChunkFaultOf5, Keeps, Read
  <2> QED BY <2>1, <2>4, MSE4ChunkFaultReads
<1> QED BY <1>1, <1>2

\* A Hit line that varnishd writes.
LEMMA HitWritten ==
  ASSUME NEW f \in Seq(Tokens), NEW n \in Nat, n = Len(f),
         NEW p \in Formats["Hit"], Prints(p, f)
  PROVE  Keeps(Reads(NewHitRecord(f)), f)
<1>1. p \in {<<"vxid", "secs", "secs", "secs">>,
            <<"vxid", "secs", "secs", "secs", "count">>,
            <<"vxid", "secs", "secs", "secs", "count", "count">>}
  BY DEF Formats
<1>2. CASE p = <<"vxid", "secs", "secs", "secs">>
  <2>1. Len(f) = 4 /\ n = 4
    BY <1>2 DEF Prints
  <2>2. /\ f[1] = "id" /\ f[2] = "frac" /\ f[3] = "frac"
        /\ f[4] = "frac"
    BY <1>2, PrintedIs DEF Prints
  <2>3. /\ Accepts("vxid", <<f[1]>>) /\ Accepts("float", <<f[2]>>)
        /\ Accepts("float", <<f[3]>>) /\ Accepts("float", <<f[4]>>)
    BY <2>2, AcceptsField
  <2>4. Keeps(HitOf4, f)
    BY <2>1, <2>3, AcceptsField DEF HitOf4, Keeps, Read
  <2> QED BY <2>1, <2>4, HitReads
<1>3. CASE p = <<"vxid", "secs", "secs", "secs", "count">>
  <2>1. Len(f) = 5 /\ n = 5
    BY <1>3 DEF Prints
  <2>2. /\ f[1] = "id" /\ f[2] = "frac" /\ f[3] = "frac"
        /\ f[4] = "frac" /\ f[5] \in {"id", "long"}
    BY <1>3, PrintedIs DEF Prints
  <2>3. /\ Accepts("vxid", <<f[1]>>) /\ Accepts("float", <<f[2]>>)
        /\ Accepts("float", <<f[3]>>) /\ Accepts("float", <<f[4]>>)
        /\ Accepts("int", <<f[5]>>)
    BY <2>2, AcceptsField
  <2>4. Keeps(HitOf5, f)
    BY <2>1, <2>3, AcceptsField DEF HitOf5, Keeps, Read
  <2> QED BY <2>1, <2>4, HitReads
<1>4. CASE p = <<"vxid", "secs", "secs", "secs", "count", "count">>
  <2>1. Len(f) = 6 /\ n = 6
    BY <1>4 DEF Prints
  <2>2. /\ f[1] = "id" /\ f[2] = "frac" /\ f[3] = "frac"
        /\ f[4] = "frac" /\ f[5] \in {"id", "long"} /\ f[6] \in {"id", "long"}
    BY <1>4, PrintedIs DEF Prints
  <2>3. /\ Accepts("vxid", <<f[1]>>) /\ Accepts("float", <<f[2]>>)
        /\ Accepts("float", <<f[3]>>) /\ Accepts("float", <<f[4]>>)
        /\ Accepts("int", <<f[5]>>) /\ Accepts("int", <<f[6]>>)
    BY <2>2, AcceptsField
  <2>4. Keeps(HitOf6, f)
    BY <2>1, <2>3, AcceptsField DEF HitOf6, Keeps, Read
  <2> QED BY <2>1, <2>4, HitReads
<1> QED BY <1>1, <1>2, <1>3, <1>4

\* A HitMiss line that varnishd writes.
LEMMA HitMissWritten ==
  ASSUME NEW f \in Seq(Tokens), NEW n \in Nat, n = Len(f),
         NEW p \in Formats["HitMiss"], Prints(p, f)
  PROVE  Keeps(Reads(NewHitRecord(f)), f)
<1>1. p \in {<<"vxid", "secs">>}
  BY DEF Formats
<1>2. CASE p = <<"vxid", "secs">>
  <2>1. Len(f) = 2 /\ n = 2
    BY <1>2 DEF Prints
  <2>2. f[1] = "id" /\ f[2] = "frac"
    BY <1>2, PrintedIs DEF Prints
  <2>3. Accepts("vxid", <<f[1]>>) /\ Accepts("float", <<f[2]>>)
    BY <2>2, AcceptsField
  <2>4. Keeps(HitOf2, f)
    BY <2>1, <2>3, AcceptsField DEF HitOf2, Keeps, Read
  <2> QED BY <2>1, <2>4, HitReads
<1> QED BY <1>1, <1>2

\* A HitPass line that varnishd writes.
LEMMA HitPassWritten ==
  ASSUME NEW f \in Seq(Tokens), NEW n \in Nat, n = Len(f),
         NEW p \in Formats["HitPass"], Prints(p, f)
  PROVE  Keeps(Reads(NewHitRecord(f)), f)
<1>1. p \in {<<"vxid", "secs">>}
  BY DEF Formats
<1>2. CASE p = <<"vxid", "secs">>
  <2>1. Len(f) = 2 /\ n = 2
    BY <1>2 DEF Prints
  <2>2. f[1] = "id" /\ f[2] = "frac"
    BY <1>2, PrintedIs DEF Prints
  <2>3. Accepts("vxid", <<f[1]>>) /\ Accepts("float", <<f[2]>>)
    BY <2>2, AcceptsField
  <2>4. Keeps(HitOf2, f)
    BY <2>1, <2>3, AcceptsField DEF HitOf2, Keeps, Read
  <2> QED BY <2>1, <2>4, HitReads
<1> QED BY <1>1, <1>2

\* A TTL line that varnishd writes.
LEMMA TTLWritten ==
  ASSUME NEW f \in Seq(Tokens), NEW n \in Nat, n = Len(f),
         NEW p \in Formats["TTL"], Prints(p, f)
  PROVE  Keeps(Reads(NewTTLRecord(f)), f)
<1>1. p \in {<<"word", "whole", "whole", "whole", "whole", "word">>,
            <<"word", "whole", "whole", "whole", "whole", "whole", "whole", "whole",
              "count", "word">>}
  BY DEF Formats
<1>2. CASE p = <<"word", "whole", "whole", "whole", "whole", "word">>
  <2>1. Len(f) = 6 /\ n = 6
    BY <1>2 DEF Prints
  <2>2. /\ f[1] = "word" /\ f[2] \in {"id", "minus"} /\ f[3] \in {"id", "minus"}
        /\ f[4] \in {"id", "minus"} /\ f[5] \in {"id", "minus"} /\ f[6] = "word"
    BY <1>2, PrintedIs DEF Prints
  <2>3. /\ Accepts("int", <<f[2]>>) /\ Accepts("int", <<f[3]>>)
        /\ Accepts("int", <<f[4]>>) /\ Accepts("float", <<f[5]>>)
    BY <2>2, AcceptsField
  <2>4. Keeps(TTLOf6, f)
    BY <2>1, <2>3, AcceptsField DEF TTLOf6, Keeps, Read
  <2> QED BY <2>1, <2>4, TTLReads
<1>3. CASE p = <<"word", "whole", "whole", "whole", "whole", "whole", "whole", "whole",
                   "count", "word">>
  <2>1. Len(f) = 10 /\ n = 10
    BY <1>3 DEF Prints
  <2>2. /\ f[1] = "word" /\ f[2] \in {"id", "minus"} /\ f[3] \in {"id", "minus"}
        /\ f[4] \in {"id", "minus"} /\ f[5] \in {"id", "minus"} /\ f[6] \in {"id", "minus"}
        /\ f[7] \in {"id", "minus"} /\ f[8] \in {"id", "minus"} /\ f[9] \in {"id", "long"}
        /\ f[10] = "word"
    BY <1>3, PrintedIs DEF Prints
  <2>3. /\ Accepts("int", <<f[2]>>) /\ Accepts("int", <<f[3]>>)
        /\ Accepts("int", <<f[4]>>) /\ Accepts("float", <<f[5]>>)
        /\ Accepts("float", <<f[6]>>) /\ Accepts("float", <<f[7]>>)
        /\ Accepts("float", <<f[8]>>) /\ Accepts("int", <<f[9]>>)
    BY <2>2, AcceptsField
  <2>4. Keeps(TTLOf10, f)
    BY <2>1, <2>3, AcceptsField DEF TTLOf10, Keeps, Read
  <2> QED BY <2>1, <2>4, TTLReads
<1> QED BY <1>1, <1>2, <1>3

\* A VCL_Log line that varnishd writes.
LEMMA VCLLogWritten ==
  ASSUME NEW f \in Seq(Tokens), NEW n \in Nat, n = Len(f),
         NEW p \in Formats["VCL_Log"], Prints(p, f)
  PROVE  Keeps(Reads(NewVCLLogRecord(f)), f)
<1>1. p \in {<< >>,
            <<"word">>,
            <<"name:", "word">>,
            <<"word", "name:", "word">>}
  BY DEF Formats
<1>2. CASE p = << >>
  <2>1. Len(f) = 0 /\ n = 0
    BY <1>2 DEF Prints
  <2>2. DOMAIN f = {}
    BY <2>1, LenProperties
  <2>3. ~HasColon(f)
    BY <2>1, <2>2, LenProperties DEF HasColon
  <2>4. Keeps(VCLLogOf1, f)
    BY <2>1, AcceptsField DEF VCLLogOf1, Keeps, Read
  <2> QED BY <2>1, <2>3, <2>4, VCLLogReads
<1>3. CASE p = <<"word">>
  <2>1. Len(f) = 1 /\ n = 1
    BY <1>3 DEF Prints
  <2>2. f[1] = "word"
    BY <1>3, PrintedIs DEF Prints
  <2>3. ~HasColon(f)
    BY <2>1, <2>2, LenProperties DEF HasColon
  <2>4. Keeps(VCLLogOf1, f)
    BY <2>1, AcceptsField DEF VCLLogOf1, Keeps, Read
  <2> QED BY <2>1, <2>3, <2>4, VCLLogReads
<1>4. CASE p = <<"name:", "word">>
  <2>1. Len(f) = 2 /\ n = 2
    BY <1>4 DEF Prints
  <2>2. f[1] = "name:"
    BY <1>4, PrintedIs DEF Prints
  <2>3. HasColon(f)
    BY <2>1, <2>2, LenProperties DEF HasColon
  <2>4. Keeps(VCLLogOf2, f)
    BY <2>1, AcceptsField DEF VCLLogOf2, Keeps, Read
  <2> QED BY <2>1, <2>3, <2>4, VCLLogReads
<1>5. CASE p = <<"word", "name:", "word">>
  <2>1. Len(f) = 3 /\ n = 3
    BY <1>5 DEF Prints
  <2>2. f[2] = "name:"
    BY <1>5, PrintedIs DEF Prints
  <2>3. HasColon(f)
    BY <2>1, <2>2, LenProperties DEF HasColon
  <2>4. Keeps(VCLLogOf2, f)
    BY <2>1, AcceptsField DEF VCLLogOf2, Keeps, Read
  <2> QED BY <2>1, <2>3, <2>4, VCLLogReads
<1> QED BY <1>1, <1>2, <1>3, <1>4, <1>5

\* A Storage line that varnishd writes.
LEMMA StorageWritten ==
  ASSUME NEW f \in Seq(Tokens), NEW n \in Nat, n = Len(f),
         NEW p \in Formats["Storage"], Prints(p, f)
  PROVE  Keeps(Reads(NewStorageRecord(f)), f)
<1>1. p \in {<<"word", "word">>}
  BY DEF Formats
<1>2. CASE p = <<"word", "word">>
  <2>1. Len(f) = 2 /\ n = 2
    BY <1>2 DEF Prints
  <2>2. n >= 2
    BY <2>1
  <2>3. Keeps(StorageOf2, f)
    BY <2>1, AcceptsField DEF StorageOf2, Keeps, Read
  <2> QED BY <2>1, <2>2, <2>3, StorageReads
<1> QED BY <1>1, <1>2

\* A Fetch_Body line that varnishd writes.
LEMMA FetchBodyWritten ==
  ASSUME NEW f \in Seq(Tokens), NEW n \in Nat, n = Len(f),
         NEW p \in Formats["Fetch_Body"], Prints(p, f)
  PROVE  Keeps(Reads(NewFetchBodyRecord(f)), f)
<1>1. p \in {<<"count", "word", "streams">>}
  BY DEF Formats
<1>2. CASE p = <<"count", "word", "streams">>
  <2>1. Len(f) = 3 /\ n = 3
    BY <1>2 DEF Prints
  <2>2. f[1] \in {"id", "long"} /\ f[2] = "word" /\ f[3] \in {"stream", "-"}
    BY <1>2, PrintedIs DEF Prints
  <2>3. Accepts("int", <<f[1]>>) /\ Accepts("streamed", <<f[3]>>)
    BY <2>2, AcceptsField
  <2>4. Keeps(FetchBodyOf3, f)
    BY <2>1, <2>3, AcceptsField DEF FetchBodyOf3, Keeps, Read
  <2> QED BY <2>1, <2>4, FetchBodyReads
<1> QED BY <1>1, <1>2

\* A SessOpen line that varnishd writes.
LEMMA SessOpenWritten ==
  ASSUME NEW f \in Seq(Tokens), NEW n \in Nat, n = Len(f),
         NEW p \in Formats["SessOpen"], Prints(p, f)
  PROVE  Keeps(Reads(NewSessOpenRecord(f)), f)
<1>1. p \in {<<"ip", "count", "word", "ip", "count", "epoch", "count">>}
  BY Joined DEF Formats
<1>2. CASE p = <<"ip", "count", "word", "ip", "count", "epoch", "count">>
  <2>1. Len(f) = 7 /\ n = 7
    BY <1>2 DEF Prints
  <2>2. /\ f[1] = "ip" /\ f[2] \in {"id", "long"} /\ f[3] = "word"
        /\ f[4] = "ip" /\ f[5] \in {"id", "long"} /\ f[6] = "frac"
        /\ f[7] \in {"id", "long"}
    BY <1>2, PrintedIs DEF Prints
  <2>3. /\ Accepts("ip", <<f[1]>>) /\ Accepts("int", <<f[2]>>)
        /\ Accepts("ip", <<f[4]>>) /\ Accepts("int", <<f[5]>>)
        /\ Accepts("float", <<f[6]>>) /\ Accepts("int", <<f[7]>>)
    BY <2>2, AcceptsField
  <2>4. Keeps(SessOpenOf7, f)
    BY <2>1, <2>3, AcceptsField DEF SessOpenOf7, Keeps, Read
  <2> QED BY <2>1, <2>4, SessOpenReads
<1> QED BY <1>1, <1>2

\* A SessClose line that varnishd writes.
LEMMA SessCloseWritten ==
  ASSUME NEW f \in Seq(Tokens), NEW n \in Nat, n = Len(f),
         NEW p \in Formats["SessClose"], Prints(p, f)
  PROVE  Keeps(Reads(NewSessCloseRecord(f)), f)
<1>1. p \in {<<"word", "secs">>}
  BY DEF Formats
<1>2. CASE p = <<"word", "secs">>
  <2>1. Len(f) = 2 /\ n = 2
    BY <1>2 DEF Prints
  <2>2. f[1] = "word" /\ f[2] = "frac"
    BY <1>2, PrintedIs DEF Prints
  <2>3. Accepts("float", <<f[2]>>)
    BY <2>2, AcceptsField
  <2>4. Keeps(SessCloseOf2, f)
    BY <2>1, <2>3, AcceptsField DEF SessCloseOf2, Keeps, Read
  <2> QED BY <2>1, <2>4, SessCloseReads
<1> QED BY <1>1, <1>2

\* A Gzip line that varnishd writes.
LEMMA GzipWritten ==
  ASSUME NEW f \in Seq(Tokens), NEW n \in Nat, n = Len(f),
         NEW p \in Formats["Gzip"], Prints(p, f)
  PROVE  Keeps(Reads(NewGzipRecord(f)), f)
<1>1. p \in {<<"op", "dir", "-", "count", "count", "count", "count", "count">>,
            <<"word", "name:", "minus", "word">>}
  BY DEF Formats
<1>2. CASE p = <<"op", "dir", "-", "count", "count", "count", "count", "count">>
  <2>1. Len(f) = 8 /\ n = 8
    BY <1>2 DEF Prints
  <2>2. /\ f[1] = "op" /\ f[2] = "dir" /\ f[3] = "-"
        /\ f[4] \in {"id", "long"} /\ f[5] \in {"id", "long"} /\ f[6] \in {"id", "long"}
        /\ f[7] \in {"id", "long"} /\ f[8] \in {"id", "long"}
    BY <1>2, PrintedIs DEF Prints
  <2>3. /\ Accepts("int", <<f[4]>>) /\ Accepts("int", <<f[5]>>)
        /\ Accepts("int", <<f[6]>>) /\ Accepts("int", <<f[7]>>)
        /\ Accepts("int", <<f[8]>>)
    BY <2>2, AcceptsField
  <2>4. Keeps(GzipOf8, f)
    BY <2>1, <2>3, AcceptsField DEF GzipOf8, Keeps, Read
  <2> QED BY <2>1, <2>4, GzipReads
<1>3. CASE p = <<"word", "name:", "minus", "word">>
  <2>1. Len(f) = 4 /\ n = 4
    BY <1>3 DEF Prints
  <2>2. n # 8
    BY <2>1
  <2>3. Keeps(GzipOf1, f)
    BY <2>1, AcceptsField DEF GzipOf1, Keeps, Read
  <2> QED BY <2>1, <2>2, <2>3, GzipReads
<1> QED BY <1>1, <1>2, <1>3

\* A Link line that varnishd writes.
LEMMA LinkWritten ==
  ASSUME NEW f \in Seq(Tokens), NEW n \in Nat, n = Len(f),
         NEW p \in Formats["Link"], Prints(p, f)
  PROVE  Keeps(Reads(NewLinkRecord(f)), f)
<1>1. p \in {<<"word", "vxid", "word">>,
            <<"word", "vxid", "esi", "count">>}
  BY DEF Formats
<1>2. CASE p = <<"word", "vxid", "word">>
  <2>1. Len(f) = 3 /\ n = 3
    BY <1>2 DEF Prints
  <2>2. f[1] = "word" /\ f[2] = "id" /\ f[3] = "word"
    BY <1>2, PrintedIs DEF Prints
  <2>3. Accepts("vxid", <<f[2]>>)
    BY <2>2, AcceptsField
  <2>4. Keeps(LinkOf3, f)
    BY <2>1, <2>3, AcceptsField DEF LinkOf3, Keeps, Read
  <2> QED BY <2>1, <2>4, LinkReads
<1>3. CASE p = <<"word", "vxid", "esi", "count">>
  <2>1. Len(f) = 4 /\ n = 4
    BY <1>3 DEF Prints
  <2>2. /\ f[1] = "word" /\ f[2] = "id" /\ f[3] = "esi"
        /\ f[4] \in {"id", "long"}
    BY <1>3, PrintedIs DEF Prints
  <2>3. /\ Accepts("esi", <<f[3]>>) /\ Accepts("int", <<f[4]>>)
        /\ Accepts("vxid", <<f[2]>>)
    BY <2>2, AcceptsField
  <2>4. Keeps(LinkOf4, f)
    BY <2>1, <2>3, AcceptsField DEF LinkOf4, Keeps, Read
  <2> QED BY <2>1, <2>4, LinkReads
<1> QED BY <1>1, <1>2, <1>3

-----------------------------------------------------------------------------
(* The dispatch of processRecord *)

Hits == {"Hit", "HitMiss", "HitPass"}

\* The conversions of a line are those of one of the constructors.
LEMMA ConstructorOfTag ==
  ASSUME NEW tag, NEW f
  PROVE  \/ Conversions(tag, f) \in
              {Reject, << >>, NewBeginRecord(f), NewLinkRecord(f), NewHeaderRecord(f),
               NewBackendOpenRecord(f), NewBackendStartRecord(f),
               NewBackendCloseRecord(f), NewBackendReuseRecord(f),
               NewAcctRecord(f), NewPipeAcctRecord(f), NewTimestampRecord(f),
               NewReqStartRecord(f), NewURLRecord(f), NewFiltersRecord(f),
               NewStatusRecord(f), NewLengthRecord(f), NewTTLRecord(f),
               NewVCLLogRecord(f), NewStorageRecord(f), NewFetchBodyRecord(f),
               NewSessOpenRecord(f), NewSessCloseRecord(f), NewGzipRecord(f),
               NewMSE4NewObjectRecord(f), NewMSE4ObjIterRecord(f),
               NewMSE4ChunkFaultRecord(f), NewBrotliRecord(f)}
         \/ tag \in Hits /\ Conversions(tag, f) = NewHitRecord(f)
BY DEF Conversions, Hits

\* What is shown of each constructor holds of the conversions of every line.
LEMMA EveryLineFine ==
  ASSUME NEW tag, NEW f \in Seq(Tokens), NEW n \in Nat, n = Len(f)
  PROVE  /\ IsSeq(Conversions(tag, f)) /\ NoHolesIn(Reads(Conversions(tag, f)))
         /\ ~(tag \in Hits /\ n = 3) => Within(Reads(Conversions(tag, f)), n)
<1>1. NoHolesIn(Rejected) /\ Within(Rejected, n) /\ NoHolesIn({}) /\ Within({}, n)
  BY DEF Rejected, NoHolesIn, Within, Read
<1>2. Fine(Reject, n) /\ Fine(<< >>, n)
  BY <1>1, Tuple0, Tuple1 DEF Fine, Reject, Rejected
<1>3. Fine(NewBeginRecord(f), n) /\ Fine(NewLinkRecord(f), n)
  BY BeginFine, LinkFine
<1>4. Fine(NewHeaderRecord(f), n) /\ Fine(NewBackendOpenRecord(f), n)
  BY HeaderFine, BackendOpenFine
<1>5. Fine(NewBackendStartRecord(f), n) /\ Fine(NewBackendCloseRecord(f), n)
  BY BackendStartFine, BackendCloseFine
<1>6. Fine(NewBackendReuseRecord(f), n) /\ Fine(NewAcctRecord(f), n)
  BY BackendReuseFine, AcctFine
<1>7. Fine(NewPipeAcctRecord(f), n) /\ Fine(NewTimestampRecord(f), n)
  BY PipeAcctFine, TimestampFine
<1>8. Fine(NewReqStartRecord(f), n) /\ Fine(NewURLRecord(f), n)
  BY ReqStartFine, URLFine
<1>9. Fine(NewFiltersRecord(f), n) /\ Fine(NewStatusRecord(f), n)
  BY FiltersFine, StatusFine
<1>10. Fine(NewLengthRecord(f), n) /\ Fine(NewTTLRecord(f), n)
  BY LengthFine, TTLFine
<1>11. Fine(NewVCLLogRecord(f), n) /\ Fine(NewStorageRecord(f), n)
  BY VCLLogFine, StorageFine
<1>12. Fine(NewFetchBodyRecord(f), n) /\ Fine(NewSessOpenRecord(f), n)
  BY FetchBodyFine, SessOpenFine
<1>13. Fine(NewSessCloseRecord(f), n) /\ Fine(NewGzipRecord(f), n)
  BY SessCloseFine, GzipFine
<1>14. Fine(NewMSE4NewObjectRecord(f), n) /\ Fine(NewMSE4ObjIterRecord(f), n)
  BY MSE4NewObjectFine, MSE4ObjIterFine
<1>15. Fine(NewMSE4ChunkFaultRecord(f), n) /\ Fine(NewBrotliRecord(f), n)
  BY MSE4ChunkFaultFine, BrotliFine
<1>16. CASE tag \in Hits /\ Conversions(tag, f) = NewHitRecord(f)
  <2>1. Fine(NewHitRecord(f), IF n = 3 THEN 4 ELSE n)
    BY HitFine
  <2> QED BY <1>16, <2>1 DEF Fine
<1>17. CASE ~(tag \in Hits /\ Conversions(tag, f) = NewHitRecord(f))
  <2>1. Fine(Conversions(tag, f), n)
BY <1>17, <1>2, <1>3, <1>4, <1>5, <1>6, <1>7, <1>8, <1>9, <1>10, <1>11, <1>12,
       <1>13, <1>14, <1>15, ConstructorOfTag, Zenon
  <2> QED BY <2>1 DEF Fine
<1> QED BY <1>16, <1>17

\* A line that varnishd writes is accepted and kept.
LEMMA WrittenIsKept ==
  ASSUME NEW l, l.fields \in Seq(Tokens), WrittenByVarnish(l)
  PROVE  Keeps(Reads(Conversions(l.tag, l.fields)), l.fields)
<1> DEFINE f == l.fields
           tag == l.tag
           n == Len(f)
<1>1. n \in Nat /\ n = Len(f)
  BY LenProperties
<1>2. PICK p \in Formats[tag] : Prints(p, f)
  BY DEF WrittenByVarnish, Prints
<1>3. tag \in {"Begin", "Header", "Unset", "BackendOpen", "BackendStart",
            "BackendClose", "BackendReuse", "Brotli", "Acct", "PipeAcct",
            "Timestamp", "ReqStart", "URL", "Filters", "Status", "Length",
            "MSE4_NewObject", "MSE4_ObjIter", "MSE4_ChunkFault", "Hit",
            "HitMiss", "HitPass", "TTL", "VCL_Log", "Storage", "Fetch_Body",
            "SessOpen", "SessClose", "Gzip", "VCL_call", "Link"}
  BY DEF WrittenByVarnish, Formats
<1> HIDE DEF f, tag, n
<1>4. CASE tag = "Begin"
  <2>1. Conversions(tag, f) = NewBeginRecord(f)
    BY <1>4 DEF Conversions
  <2>2. Keeps(Reads(NewBeginRecord(f)), f)
    BY <1>1, <1>2, <1>4, BeginWritten DEF f
  <2> QED BY <2>1, <2>2 DEF f, tag
<1>5. CASE tag = "Header"
  <2>1. Conversions(tag, f) = NewHeaderRecord(f)
    BY <1>5 DEF Conversions
  <2>2. Keeps(Reads(NewHeaderRecord(f)), f)
    BY <1>1, <1>2, <1>5, HeaderWritten DEF f
  <2> QED BY <2>1, <2>2 DEF f, tag
<1>6. CASE tag = "Unset"
  <2>1. Conversions(tag, f) = NewHeaderRecord(f)
    BY <1>6 DEF Conversions
  <2>2. Keeps(Reads(NewHeaderRecord(f)), f)
    BY <1>1, <1>2, <1>6, UnsetWritten DEF f
  <2> QED BY <2>1, <2>2 DEF f, tag
<1>7. CASE tag = "BackendOpen"
  <2>1. Conversions(tag, f) = NewBackendOpenRecord(f)
    BY <1>7 DEF Conversions
  <2>2. Keeps(Reads(NewBackendOpenRecord(f)), f)
    BY <1>1, <1>2, <1>7, BackendOpenWritten DEF f
  <2> QED BY <2>1, <2>2 DEF f, tag
<1>8. CASE tag = "BackendStart"
  <2>1. Conversions(tag, f) = NewBackendStartRecord(f)
    BY <1>8 DEF Conversions
  <2>2. Keeps(Reads(NewBackendStartRecord(f)), f)
    BY <1>1, <1>2, <1>8, BackendStartWritten DEF f
  <2> QED BY <2>1, <2>2 DEF f, tag
<1>9. CASE tag = "BackendClose"
  <2>1. Conversions(tag, f) = NewBackendCloseRecord(f)
    BY <1>9 DEF Conversions
  <2>2. Keeps(Reads(NewBackendCloseRecord(f)), f)
    BY <1>1, <1>2, <1>9, BackendCloseWritten DEF f
  <2> QED BY <2>1, <2>2 DEF f, tag
<1>10. CASE tag = "BackendReuse"
  <2>1. Conversions(tag, f) = NewBackendReuseRecord(f)
    BY <1>10 DEF Conversions
  <2>2. Keeps(Reads(NewBackendReuseRecord(f)), f)
    BY <1>1, <1>2, <1>10, BackendReuseWritten DEF f
  <2> QED BY <2>1, <2>2 DEF f, tag
<1>11. CASE tag = "Brotli"
  <2>1. Conversions(tag, f) = NewBrotliRecord(f)
    BY <1>11 DEF Conversions
  <2>2. Keeps(Reads(NewBrotliRecord(f)), f)
    BY <1>1, <1>2, <1>11, BrotliWritten DEF f
  <2> QED BY <2>1, <2>2 DEF f, tag
<1>12. CASE tag = "Acct"
  <2>1. Conversions(tag, f) = NewAcctRecord(f)
    BY <1>12 DEF Conversions
  <2>2. Keeps(Reads(NewAcctRecord(f)), f)
    BY <1>1, <1>2, <1>12, AcctWritten DEF f
  <2> QED BY <2>1, <2>2 DEF f, tag
<1>13. CASE tag = "PipeAcct"
  <2>1. Conversions(tag, f) = NewPipeAcctRecord(f)
    BY <1>13 DEF Conversions
  <2>2. Keeps(Reads(NewPipeAcctRecord(f)), f)
    BY <1>1, <1>2, <1>13, PipeAcctWritten DEF f
  <2> QED BY <2>1, <2>2 DEF f, tag
<1>14. CASE tag = "Timestamp"
  <2>1. Conversions(tag, f) = NewTimestampRecord(f)
    BY <1>14 DEF Conversions
  <2>2. Keeps(Reads(NewTimestampRecord(f)), f)
    BY <1>1, <1>2, <1>14, TimestampWritten DEF f
  <2> QED BY <2>1, <2>2 DEF f, tag
<1>15. CASE tag = "ReqStart"
  <2>1. Conversions(tag, f) = NewReqStartRecord(f)
    BY <1>15 DEF Conversions
  <2>2. Keeps(Reads(NewReqStartRecord(f)), f)
    BY <1>1, <1>2, <1>15, ReqStartWritten DEF f
  <2> QED BY <2>1, <2>2 DEF f, tag
<1>16. CASE tag = "URL"
  <2>1. Conversions(tag, f) = NewURLRecord(f)
    BY <1>16 DEF Conversions
  <2>2. Keeps(Reads(NewURLRecord(f)), f)
    BY <1>1, <1>2, <1>16, URLWritten DEF f
  <2> QED BY <2>1, <2>2 DEF f, tag
<1>17. CASE tag = "Filters"
  <2>1. Conversions(tag, f) = NewFiltersRecord(f)
    BY <1>17 DEF Conversions
  <2>2. Keeps(Reads(NewFiltersRecord(f)), f)
    BY <1>1, <1>2, <1>17, FiltersWritten DEF f
  <2> QED BY <2>1, <2>2 DEF f, tag
<1>18. CASE tag = "Status"
  <2>1. Conversions(tag, f) = NewStatusRecord(f)
    BY <1>18 DEF Conversions
  <2>2. Keeps(Reads(NewStatusRecord(f)), f)
    BY <1>1, <1>2, <1>18, StatusWritten DEF f
  <2> QED BY <2>1, <2>2 DEF f, tag
<1>19. CASE tag = "Length"
  <2>1. Conversions(tag, f) = NewLengthRecord(f)
    BY <1>19 DEF Conversions
  <2>2. Keeps(Reads(NewLengthRecord(f)), f)
    BY <1>1, <1>2, <1>19, LengthWritten DEF f
  <2> QED BY <2>1, <2>2 DEF f, tag
<1>20. CASE tag = "MSE4_NewObject"
  <2>1. Conversions(tag, f) = NewMSE4NewObjectRecord(f)
    BY <1>20 DEF Conversions
  <2>2. Keeps(Reads(NewMSE4NewObjectRecord(f)), f)
    BY <1>1, <1>2, <1>20, MSE4NewObjectWritten DEF f
  <2> QED BY <2>1, <2>2 DEF f, tag
<1>21. CASE tag = "MSE4_ObjIter"
  <2>1. Conversions(tag, f) = NewMSE4ObjIterRecord(f)
    BY <1>21 DEF Conversions
  <2>2. Keeps(Reads(NewMSE4ObjIterRecord(f)), f)
    BY <1>1, <1>2, <1>21, MSE4ObjIterWritten DEF f
  <2> QED BY <2>1, <2>2 DEF f, tag
<1>22. CASE tag = "MSE4_ChunkFault"
  <2>1. Conversions(tag, f) = NewMSE4ChunkFaultRecord(f)
    BY <1>22 DEF Conversions
  <2>2. Keeps(Reads(NewMSE4ChunkFaultRecord(f)), f)
    BY <1>1, <1>2, <1>22, MSE4ChunkFaultWritten DEF f
  <2> QED BY <2>1, <2>2 DEF f, tag
<1>23. CASE tag = "Hit"
  <2>1. Conversions(tag, f) = NewHitRecord(f)
    BY <1>23 DEF Conversions
  <2>2. Keeps(Reads(NewHitRecord(f)), f)
    BY <1>1, <1>2, <1>23, HitWritten DEF f
  <2> QED BY <2>1, <2>2 DEF f, tag
<1>24. CASE tag = "HitMiss"
  <2>1. Conversions(tag, f) = NewHitRecord(f)
    BY <1>24 DEF Conversions
  <2>2. Keeps(Reads(NewHitRecord(f)), f)
    BY <1>1, <1>2, <1>24, HitMissWritten DEF f
  <2> QED BY <2>1, <2>2 DEF f, tag
<1>25. CASE tag = "HitPass"
  <2>1. Conversions(tag, f) = NewHitRecord(f)
    BY <1>25 DEF Conversions
  <2>2. Keeps(Reads(NewHitRecord(f)), f)
    BY <1>1, <1>2, <1>25, HitPassWritten DEF f
  <2> QED BY <2>1, <2>2 DEF f, tag
<1>26. CASE tag = "TTL"
  <2>1. Conversions(tag, f) = NewTTLRecord(f)
    BY <1>26 DEF Conversions
  <2>2. Keeps(Reads(NewTTLRecord(f)), f)
    BY <1>1, <1>2, <1>26, TTLWritten DEF f
  <2> QED BY <2>1, <2>2 DEF f, tag
<1>27. CASE tag = "VCL_Log"
  <2>1. Conversions(tag, f) = NewVCLLogRecord(f)
    BY <1>27 DEF Conversions
  <2>2. Keeps(Reads(NewVCLLogRecord(f)), f)
    BY <1>1, <1>2, <1>27, VCLLogWritten DEF f
  <2> QED BY <2>1, <2>2 DEF f, tag
<1>28. CASE tag = "Storage"
  <2>1. Conversions(tag, f) = NewStorageRecord(f)
    BY <1>28 DEF Conversions
  <2>2. Keeps(Reads(NewStorageRecord(f)), f)
    BY <1>1, <1>2, <1>28, StorageWritten DEF f
  <2> QED BY <2>1, <2>2 DEF f, tag
<1>29. CASE tag = "Fetch_Body"
  <2>1. Conversions(tag, f) = NewFetchBodyRecord(f)
    BY <1>29 DEF Conversions
  <2>2. Keeps(Reads(NewFetchBodyRecord(f)), f)
    BY <1>1, <1>2, <1>29, FetchBodyWritten DEF f
  <2> QED BY <2>1, <2>2 DEF f, tag
<1>30. CASE tag = "SessOpen"
  <2>1. Conversions(tag, f) = NewSessOpenRecord(f)
    BY <1>30 DEF Conversions
  <2>2. Keeps(Reads(NewSessOpenRecord(f)), f)
    BY <1>1, <1>2, <1>30, SessOpenWritten DEF f
  <2> QED BY <2>1, <2>2 DEF f, tag
<1>31. CASE tag = "SessClose"
  <2>1. Conversions(tag, f) = NewSessCloseRecord(f)
    BY <1>31 DEF Conversions
  <2>2. Keeps(Reads(NewSessCloseRecord(f)), f)
    BY <1>1, <1>2, <1>31, SessCloseWritten DEF f
  <2> QED BY <2>1, <2>2 DEF f, tag
<1>32. CASE tag = "Gzip"
  <2>1. Conversions(tag, f) = NewGzipRecord(f)
    BY <1>32 DEF Conversions
  <2>2. Keeps(Reads(NewGzipRecord(f)), f)
    BY <1>1, <1>2, <1>32, GzipWritten DEF f
  <2> QED BY <2>1, <2>2 DEF f, tag
<1>33. CASE tag = "VCL_call"
  <2>1. Reads(Conversions(tag, f)) = {}
    BY <1>33, Tuple0 DEF Conversions
  <2> QED BY <2>1 DEF Keeps, f, tag
<1>34. CASE tag = "Link"
  <2>1. Conversions(tag, f) = NewLinkRecord(f)
    BY <1>34 DEF Conversions
  <2>2. Keeps(Reads(NewLinkRecord(f)), f)
    BY <1>1, <1>2, <1>34, LinkWritten DEF f
  <2> QED BY <2>1, <2>2 DEF f, tag
<1> QED BY <1>3, <1>4, <1>5, <1>6, <1>7, <1>8, <1>9, <1>10, <1>11, <1>12,
        <1>13, <1>14, <1>15, <1>16, <1>17, <1>18, <1>19, <1>20, <1>21, <1>22,
        <1>23, <1>24, <1>25, <1>26, <1>27, <1>28, <1>29, <1>30, <1>31, <1>32,
        <1>33, <1>34 DEF f, tag

-----------------------------------------------------------------------------
(* The theorems *)

\* The record holds what was read so far; an outcome says where reading stopped.
ReadInv ==
  LET c == Conversions(line.tag, line.fields)
  IN  /\ line \in Lines
      /\ next \in 1..Len(c) + 1
      /\ record = {<<c[k].into, c[k].at>> : k \in 1..next - 1}
      /\ outcome \in {"running", "record", "error", "panic"}
      /\ outcome = "record" => next = Len(c) + 1
      /\ outcome = "panic" => HasNext /\ Conversion.at > Len(line.fields)
      /\ outcome = "error" => /\ HasNext /\ Conversion.at <= Len(line.fields)
                              /\ ~Accepts(Conversion.as, Text)

\* A field of a line, as a sequence.
LEMMA OneField ==
  ASSUME NEW f \in Seq(Tokens), NEW i \in 1..Len(f)
  PROVE  SubSeq(f, i, i) = <<f[i]>>
<1> DEFINE s == SubSeq(f, i, i)
           t == <<f[i]>>
<1>1. /\ i \in Int /\ i <= i /\ i - i + 1 = 1 /\ i + 1 - 1 = i
      /\ \A k \in i..i : f[k] \in Tokens
  BY ElementOfSeq, LenProperties
<1>2. s \in Seq(Tokens) /\ Len(s) = 1 /\ s[1] = f[i]
  BY <1>1, SubSeqProperties
<1>3. t \in Seq(Tokens) /\ Len(t) = 1 /\ t[1] = f[i]
  BY ElementOfSeq
<1> HIDE DEF s, t
<1>4. s = t
  BY <1>2, <1>3, SeqEqual
<1> QED BY <1>4 DEF s, t

\* What the invariant needs to know of the line: it has as many conversions as it has.
LEMMA ConversionsOfLine ==
  ASSUME line \in Lines
  PROVE  LET c == Conversions(line.tag, line.fields)
         IN  /\ DOMAIN c = 1..Len(c) /\ Len(c) \in Nat
             /\ line.fields \in Seq(Tokens) /\ Len(line.fields) \in Nat
<1>1. line.fields \in Seq(Tokens)
  BY LinesAssumption
<1>2. Len(line.fields) \in Nat
  BY <1>1, LenProperties
<1>3. IsSeq(Conversions(line.tag, line.fields))
  BY <1>1, <1>2, EveryLineFine
<1>4. PICK S : Conversions(line.tag, line.fields) \in Seq(S)
  BY <1>3 DEF IsSeq
<1> QED BY <1>1, <1>2, <1>4, LenProperties

\* Every conversion fills one field, and a line is read to its end or to the
\* conversion that stops it.
THEOREM ReadingStops == Spec => []ReadInv
<1>1. Init => ReadInv
  <2> SUFFICES ASSUME Init PROVE ReadInv
    OBVIOUS
  <2>1. line \in Lines /\ next = 1 /\ record = {} /\ outcome = "running"
    BY DEF Init
  <2> DEFINE c == Conversions(line.tag, line.fields)
  <2>2. Len(c) \in Nat
    BY <2>1, ConversionsOfLine
  <2> HIDE DEF c
  <2>3. next \in 1..Len(c) + 1 /\ 1..next - 1 = {}
    BY <2>1, <2>2
  <2>4. record = {<<c[k].into, c[k].at>> : k \in 1..next - 1}
    BY <2>1, <2>3
  <2> QED BY <2>1, <2>3, <2>4 DEF ReadInv, c
<1>2. ReadInv /\ [Next]_vars => ReadInv'
  <2> SUFFICES ASSUME ReadInv, [Next]_vars PROVE ReadInv'
    OBVIOUS
  <2> DEFINE c == Conversions(line.tag, line.fields)
  <2>1. Len(c) \in Nat /\ DOMAIN c = 1..Len(c)
    BY ConversionsOfLine DEF ReadInv
  <2>2. /\ line \in Lines /\ next \in 1..Len(c) + 1
        /\ record = {<<c[k].into, c[k].at>> : k \in 1..next - 1}
        /\ HasNext <=> next <= Len(c)
        /\ Conversion = c[next]
    BY DEF ReadInv, HasNext, Conversion
  <2>3. CASE Convert
    <3>1. /\ next <= Len(c) /\ record' = record \cup {<<c[next].into, c[next].at>>}
          /\ next' = next + 1 /\ line' = line /\ outcome = "running" /\ outcome' = "running"
      BY <2>2, <2>3 DEF Convert
    <3> HIDE DEF c
    <3>2. next' \in 1..Len(c) + 1 /\ 1..next' - 1 = (1..next - 1) \cup {next}
      BY <2>1, <2>2, <3>1
    <3>3. record' = {<<c[k].into, c[k].at>> : k \in 1..next' - 1}
      BY <2>2, <3>1, <3>2
    <3> QED BY <2>2, <3>1, <3>2, <3>3 DEF ReadInv, c
  <2>4. CASE Fail
    BY <2>4 DEF Fail, ReadInv, HasNext, Conversion, Text
  <2>5. CASE ReadPastEnd
    BY <2>5 DEF ReadPastEnd, ReadInv, HasNext, Conversion, Text
  <2>6. CASE Return
    <3>1. /\ ~(next <= Len(c)) /\ record' = record /\ next' = next /\ line' = line
          /\ outcome' = "record"
      BY <2>2, <2>6 DEF Return
    <3> HIDE DEF c
    <3>2. next = Len(c) + 1
      BY <2>1, <2>2, <3>1
    <3> QED BY <2>2, <3>1, <3>2 DEF ReadInv, c
  <2>7. CASE UNCHANGED vars
    BY <2>7 DEF vars, ReadInv, HasNext, Conversion, Text
  <2> QED BY <2>3, <2>4, <2>5, <2>6, <2>7 DEF Next
<1> QED BY <1>1, <1>2, PTL DEF Spec

\* No constructor reads past the fields of a line, for every tag and any number of
\* fields, except a hit with three (records.go:790).
THEOREM IndexesInRangeAlways == Spec => []IndexesInRange
<1>1. ReadInv => IndexesInRange
  <2> SUFFICES ASSUME ReadInv, outcome = "panic"
               PROVE  line.tag \in Hits /\ Len(line.fields) = 3
    BY DEF IndexesInRange, Hits
  <2> DEFINE c == Conversions(line.tag, line.fields)
             n == Len(line.fields)
  <2>1. /\ DOMAIN c = 1..Len(c) /\ Len(c) \in Nat
        /\ line.fields \in Seq(Tokens) /\ n \in Nat
    BY ConversionsOfLine DEF ReadInv
  <2>2. next \in DOMAIN c /\ c[next].at > n
    BY <2>1 DEF ReadInv, HasNext, Conversion
  <2>3. ~Within(Reads(c), n)
    <3> HIDE DEF c, n
    <3> QED BY <2>1, <2>2 DEF Within, Reads
  <2> QED BY <2>1, <2>3, EveryLineFine
<1> QED BY <1>1, ReadingStops, PTL

\* The fields read are the first ones, each name is filled from one of them and no two
\* names from the same, for every line that gives a record.
THEOREM RecordHasNoHolesAlways == Spec => []RecordHasNoHoles
<1>1. ReadInv => RecordHasNoHoles
  <2> SUFFICES ASSUME ReadInv, outcome = "record"
               PROVE  /\ \A i \in {r[2] : r \in record} \ {0} :
                           \A j \in 1..i : j \in {r[2] : r \in record} \ {0}
                      /\ \A r, s \in record :
                           (r[1] = s[1] \/ (r[2] = s[2] /\ r[2] # 0)) => r = s
    BY DEF RecordHasNoHoles
  <2> DEFINE c == Conversions(line.tag, line.fields)
  <2>1. /\ DOMAIN c = 1..Len(c) /\ Len(c) \in Nat
        /\ line.fields \in Seq(Tokens) /\ Len(line.fields) \in Nat
    BY ConversionsOfLine DEF ReadInv
  <2>2. NoHolesIn(Reads(c))
    BY <2>1, EveryLineFine
  <2>3. record = {<<c[k].into, c[k].at>> : k \in 1..next - 1} /\ next = Len(c) + 1
    BY DEF ReadInv
  <2> HIDE DEF c
  <2>4. record = {<<x.into, x.at>> : x \in Reads(c)}
    BY <2>1, <2>3 DEF Reads
  <2>5. ASSUME NEW i \in {r[2] : r \in record} \ {0}, NEW j \in 1..i
        PROVE  j \in {r[2] : r \in record} \ {0}
    <3>1. PICK x \in Reads(c) : x.at = i
      BY <2>4, <2>5
    <3>2. PICK y \in Reads(c) : y.at = j
      BY <2>2, <2>5, <3>1 DEF NoHolesIn
    <3>3. <<y.into, y.at>> \in record
      BY <2>4
    <3> QED BY <2>5, <3>2, <3>3
  <2>6. ASSUME NEW r \in record, NEW s \in record, r[1] = s[1] \/ (r[2] = s[2] /\ r[2] # 0)
        PROVE  r = s
    <3>1. PICK x \in Reads(c) : r = <<x.into, x.at>>
      BY <2>4
    <3>2. PICK y \in Reads(c) : s = <<y.into, y.at>>
      BY <2>4
    <3> QED BY <2>2, <2>6, <3>1, <3>2 DEF NoHolesIn
  <2> QED BY <2>5, <2>6
<1> QED BY <1>1, ReadingStops, PTL

\* A line that varnishd writes never fails and never panics, and every field of it is
\* kept, for every line of the formats of vsl(7).
THEOREM VarnishLinesAreKeptAlways == Spec => []VarnishLinesAreKept
<1>1. ReadInv => VarnishLinesAreKept
  <2> SUFFICES ASSUME ReadInv, WrittenByVarnish(line)
               PROVE  /\ outcome \notin {"error", "panic"}
                      /\ outcome = "record" /\ record # {} =>
                           \A i \in DOMAIN line.fields : \E r \in record : r[2] \in {0, i}
    BY DEF VarnishLinesAreKept
  <2> DEFINE c == Conversions(line.tag, line.fields)
             f == line.fields
  <2>1. /\ DOMAIN c = 1..Len(c) /\ Len(c) \in Nat
        /\ f \in Seq(Tokens) /\ Len(f) \in Nat
    BY ConversionsOfLine DEF ReadInv
  <2>2. Keeps(Reads(c), f)
    BY <2>1, WrittenIsKept
  <2>3. ASSUME HasNext
        PROVE  /\ Conversion.at \in Nat /\ Conversion.at <= Len(f)
               /\ Accepts(Conversion.as, Text)
    <3> DEFINE x == c[next]
    <3>1. next \in DOMAIN c
      BY <2>1, <2>3 DEF ReadInv, HasNext
    <3>2. /\ x.at = 0 => Accepts(x.as, f)
          /\ x.at # 0 => x.at \in 1..Len(f) /\ Accepts(x.as, <<f[x.at]>>)
      <4> HIDE DEF c, f
      <4>1. x \in Reads(c)
        BY <3>1 DEF Reads
      <4> QED BY <2>2, <4>1 DEF Keeps
    <3>3. Conversion = x /\ Text = IF x.at = 0 THEN f ELSE SubSeq(f, x.at, x.at)
      BY DEF Conversion, Text
    <3> HIDE DEF x, f
    <3>4. CASE x.at = 0
      <4>1. Text = f
        BY <3>3, <3>4
      <4>2. Accepts(x.as, Text)
        BY <3>2, <3>4, <4>1
      <4> QED BY <2>1, <3>3, <3>4, <4>2
    <3>5. CASE x.at # 0
      <4>1. x.at \in 1..Len(f)
        BY <3>2, <3>5
      <4>2. SubSeq(f, x.at, x.at) = <<f[x.at]>>
        BY <2>1, <4>1, OneField
      <4>3. Accepts(x.as, Text)
        BY <3>2, <3>3, <3>5, <4>2
      <4>4. x.at \in Nat /\ x.at <= Len(f)
        BY <2>1, <4>1
      <4> QED BY <3>3, <4>3, <4>4
    <3> QED BY <3>4, <3>5
  <2>4. outcome \notin {"error", "panic"}
    <3>1. HasNext => ~(Conversion.at > Len(f))
      BY <2>1, <2>3
    <3> QED BY <2>3, <3>1 DEF ReadInv
  <2>5. ASSUME outcome = "record", record # {}, NEW i \in DOMAIN f
        PROVE  \E r \in record : r[2] \in {0, i}
    <3>1. record = {<<c[k].into, c[k].at>> : k \in 1..next - 1} /\ next = Len(c) + 1
      BY <2>5 DEF ReadInv
    <3>2. i \in 1..Len(f)
      BY <2>1, <2>5, LenProperties
    <3> HIDE DEF c, f
    <3>3. record = {<<x.into, x.at>> : x \in Reads(c)}
      BY <2>1, <3>1 DEF Reads
    <3>4. PICK x \in Reads(c) : x.at \in {0, i}
      BY <2>2, <2>5, <3>2, <3>3 DEF Keeps
    <3>5. <<x.into, x.at>> \in record
      BY <3>3
    <3> QED BY <3>4, <3>5
  <2> QED BY <2>4, <2>5
<1> QED BY <1>1, ReadingStops, PTL
=============================================================================
