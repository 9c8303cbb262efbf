--------------------------- MODULE Protocol_proofs ---------------------------
(***************************************************************************)
(* Proofs about Protocol for any strings, users and size of an integer:    *)
(* what the server does is what the client has asked for, and what the     *)
(* client takes for the answer is the answer.                              *)
(***************************************************************************)
EXTENDS Protocol, SequenceTheorems, Induction_proofs

-----------------------------------------------------------------------------
(* Sequences.                                                              *)

\* Two pairs of sequences make the same one.
SameBytes(a, b, c, d) == a \o b = c \o d

(* Three sequences may be put together in either order. *)
LEMMA Regrouped ==
  ASSUME NEW S, NEW p \in Seq(S), NEW q \in Seq(S), NEW r \in Seq(S),
         NEW x, x = p \o q, NEW y, y = q \o r
  PROVE  SameBytes(x, r, p, y) /\ x \in Seq(S) /\ y \in Seq(S)
  <1>1. x \o r = p \o y /\ x \in Seq(S) /\ y \in Seq(S)
    BY SMTT(40)
  <1> QED BY <1>1 DEF SameBytes

(* What makes the same as a third pair. *)
LEMMA SameBytesTrans ==
  ASSUME NEW a, NEW b, NEW c, NEW d, NEW e, NEW f, SameBytes(a, b, c, d), SameBytes(c, d, e, f)
  PROVE  SameBytes(a, b, e, f)
  BY Zenon DEF SameBytes

(* Whoever takes from a the length of c has c, if a, which has arrived, and b,
   which is to come, make c and what follows it. *)
LEMMA TakePrefix ==
  ASSUME NEW S, NEW a \in Seq(S), NEW b \in Seq(S), NEW c \in Seq(S), NEW d \in Seq(S),
         SameBytes(a, b, c, d), NEW x \in Prefixes(a), Len(x) = Len(c)
  PROVE  /\ x = c /\ SubSeq(a, Len(x) + 1, Len(a)) \in Seq(S)
         /\ SubSeq(a, Len(x) + 1, Len(a)) \o b = d
  <1>0. a \o b = c \o d
    BY DEF SameBytes
  <1>1. PICK l \in 0 .. Len(a) : x = SubSeq(a, 1, l)
    BY DEF Prefixes
  <1>2. Len(a) \in Nat /\ Len(c) \in Nat /\ \A i \in 1 .. Len(a) : a[i] \in S
    BY LenProperties, ElementOfSeq
  <1>3. x \in Seq(S) /\ Len(x) = l /\ \A i \in 1 .. l : x[i] = a[i]
    <2>1. \A i \in 1 .. l : a[i] \in S
      BY <1>1, <1>2
    <2>2. /\ SubSeq(a, 1, l) \in Seq(S)
          /\ Len(SubSeq(a, 1, l)) = IF 1 <= l THEN l - 1 + 1 ELSE 0
          /\ \A i \in 1 .. l - 1 + 1 : SubSeq(a, 1, l)[i] = a[1 + i - 1]
      BY <1>1, <2>1, SubSeqProperties
    <2> QED BY <1>1, <1>2, <2>2
  <1>4. PICK y : y = SubSeq(a, l + 1, Len(a))
    OBVIOUS
  <1>5. y \in Seq(S)
    <2>1. \A i \in l + 1 .. Len(a) : a[i] \in S
      BY <1>1, <1>2
    <2> QED BY <1>1, <1>2, <1>4, <2>1, SubSeqProperties
  <1>6. a = x \o y
    <2>1. 1 \in 1 .. Len(a) + 1 /\ l \in 1 - 1 .. Len(a) /\ Len(a) \in l .. Len(a)
      BY <1>1, <1>2
    <2>2. SubSeq(a, 1, l) \o SubSeq(a, l + 1, Len(a)) = SubSeq(a, 1, Len(a))
      BY <2>1, ConcatAdjacentSubSeq
    <2> QED BY <1>1, <1>4, <2>2, SubSeqFull
  <1>7. \A i \in 1 .. l : x[i] = c[i]
    <2>1. ASSUME NEW i \in 1 .. l
          PROVE  x[i] = c[i]
      <3>1. /\ i \in 1 .. Len(a) + Len(b) /\ i <= Len(a)
            /\ i \in 1 .. Len(c) + Len(d) /\ i <= Len(c)
        BY <1>1, <1>2, <1>3, LenProperties
      <3>2. (a \o b)[i] = a[i] /\ (c \o d)[i] = c[i]
        BY <3>1, ConcatProperties
      <3> QED BY <1>0, <1>3, <3>2
    <2> QED BY <2>1
  <1>8. x = c
    BY <1>3, <1>7, SeqEqual
  <1>9. c \o (y \o b) = c \o d
    <2>1. (x \o y) \o b = x \o (y \o b)
      BY SMTT(40), <1>3, <1>5
    <2> QED BY <1>0, <1>6, <1>8, <2>1
  <1>10. y \o b = d
    <2>1. y \o b \in Seq(S)
      BY <1>5, ConcatProperties
    <2> QED BY <1>9, <2>1, ConcatSimplifications
  <1> QED BY <1>3, <1>4, <1>5, <1>8, <1>10

(* A table of what is left of a sequence of sequences: entry k concatenates
   the last k of them. *)
IsTailTable(f, g) ==
  f = [k \in 0 .. Len(g) |-> IF k = 0 THEN <<>> ELSE g[Len(g) - k + 1] \o f[k - 1]]

TailTable(g) == CHOOSE f : IsTailTable(f, g)

\* The concatenation of what comes after the first i.
After(g, i) == TailTable(g)[Len(g) - i]

(* The recursive definition of the table has a solution. *)
LEMMA TailTableExists ==
  ASSUME NEW g, Len(g) \in Nat
  PROVE  IsTailTable(TailTable(g), g)
  <1> DEFINE IsTable(f, m) ==
        f = [k \in 0 .. m |-> IF k = 0 THEN <<>> ELSE g[Len(g) - k + 1] \o f[k - 1]]
  <1> DEFINE S == {m \in Nat : \E f : IsTable(f, m)}
  <1>1. 0 \in S
    <2> DEFINE f == [k \in 0 .. 0 |-> <<>>]
    <2>1. IsTable(f, 0)
      OBVIOUS
    <2> QED BY <2>1
  <1>2. ASSUME NEW m \in Nat, m \in S
        PROVE  m + 1 \in S
    <2>1. PICK f : IsTable(f, m)
      BY <1>2
    <2>2. PICK h : h = [k \in 0 .. m + 1 |-> IF k = 0 THEN <<>>
                                             ELSE g[Len(g) - k + 1] \o f[k - 1]]
      OBVIOUS
    <2>3. ASSUME NEW k \in 0 .. m
          PROVE  h[k] = f[k]
      <3>1. k \in 0 .. m + 1
        OBVIOUS
      <3>2. f[k] = IF k = 0 THEN <<>> ELSE g[Len(g) - k + 1] \o f[k - 1]
        BY <2>1
      <3> QED BY <2>2, <3>1, <3>2
    <2>4. \A k \in 0 .. m + 1 : k # 0 => h[k - 1] = f[k - 1]
      <3>1. \A k \in 0 .. m + 1 : k # 0 => k - 1 \in 0 .. m
        OBVIOUS
      <3> QED BY <2>3, <3>1
    <2>5. IsTable(h, m + 1)
      BY <2>2, <2>4
    <2>6. m + 1 \in Nat
      OBVIOUS
    <2> HIDE DEF IsTable
    <2> QED BY <2>5, <2>6
  <1> HIDE DEF S
  <1>3. Len(g) \in S
    BY <1>1, <1>2, InductionOnSet
  <1> QED BY <1>3 DEF S, TailTable, IsTailTable

(* The concatenation of what is left, from the last on. *)
LEMMA AfterFacts ==
  ASSUME NEW S, NEW g \in Seq(Seq(S))
  PROVE  /\ After(g, Len(g)) = <<>>
         /\ \A i \in 0 .. Len(g) - 1 : After(g, i) = g[i + 1] \o After(g, i + 1)
         /\ \A i \in 0 .. Len(g) : After(g, i) \in Seq(S)
  <1>1. Len(g) \in Nat /\ \A i \in 1 .. Len(g) : g[i] \in Seq(S)
    BY LenProperties, ElementOfSeq
  <1>2. PICK f : f = TailTable(g)
    OBVIOUS
  <1>3. f = [k \in 0 .. Len(g) |-> IF k = 0 THEN <<>> ELSE g[Len(g) - k + 1] \o f[k - 1]]
    BY <1>1, <1>2, TailTableExists DEF IsTailTable
  <1>4. \A k \in 0 .. Len(g) : f[k] = IF k = 0 THEN <<>> ELSE g[Len(g) - k + 1] \o f[k - 1]
    BY <1>3
  <1>5. After(g, Len(g)) = <<>>
    BY SMTT(40), <1>1, <1>2, <1>4 DEF After
  <1>6. ASSUME NEW i \in 0 .. Len(g) - 1
        PROVE  After(g, i) = g[i + 1] \o After(g, i + 1)
    <2>1. /\ Len(g) - i \in 0 .. Len(g) /\ Len(g) - i # 0
          /\ Len(g) - (Len(g) - i) + 1 = i + 1 /\ (Len(g) - i) - 1 = Len(g) - (i + 1)
      BY SMTT(40), <1>1
    <2>2. f[Len(g) - i] = g[Len(g) - (Len(g) - i) + 1] \o f[(Len(g) - i) - 1]
      BY <1>4, <2>1
    <2> QED BY <1>2, <2>1, <2>2 DEF After
  <1>7. ASSUME NEW i \in 0 .. Len(g)
        PROVE  After(g, i) \in Seq(S)
    <2> DEFINE T == {k \in 0 .. Len(g) : f[k] \in Seq(S)}
    <2>1. 0 \in T
      <3>1. 0 \in 0 .. Len(g)
        BY <1>1
      <3> QED BY <1>4, <3>1, EmptySeq
    <2>2. ASSUME NEW k \in 0 .. Len(g) - 1, k \in T
          PROVE  k + 1 \in T
      <3>1. k + 1 \in 0 .. Len(g) /\ k + 1 # 0 /\ (k + 1) - 1 = k
            /\ Len(g) - (k + 1) + 1 \in 1 .. Len(g)
        BY <1>1
      <3>2. f[k + 1] = g[Len(g) - (k + 1) + 1] \o f[(k + 1) - 1]
        BY <1>4, <3>1
      <3>3. f[k] \in Seq(S) /\ g[Len(g) - (k + 1) + 1] \in Seq(S)
        BY <1>1, <2>2, <3>1
      <3>4. f[k + 1] \in Seq(S)
        BY SMTT(40), <3>1, <3>2, <3>3, ConcatProperties
      <3> QED BY <3>1, <3>4
    <2> HIDE DEF T
    <2>3. 0 .. Len(g) \subseteq T
      BY <1>1, <2>1, <2>2, InductionUpTo
    <2>4. Len(g) - i \in T
      BY SMTT(40), <1>1, <2>3
    <2> QED BY <1>2, <2>4 DEF T, After
  <1> QED BY <1>5, <1>6, <1>7

(* The first i + 1 are the first i and one more. *)
LEMMA OneMore ==
  ASSUME NEW S, NEW m \in Seq(S), NEW i \in 0 .. Len(m) - 1
  PROVE  Append(SubSeq(m, 1, i), m[i + 1]) = SubSeq(m, 1, i + 1)
  <1>1. Len(m) \in Nat /\ \A k \in 1 .. Len(m) : m[k] \in S
    BY LenProperties, ElementOfSeq
  <1>2. /\ 1 \in 1 .. Len(m) /\ i + 1 \in 1 .. Len(m) /\ (i + 1) - 1 = i
        /\ i \in Int /\ 1 .. i \subseteq 1 .. Len(m)
    BY <1>1
  <1>3. SubSeq(m, 1, i + 1) = SubSeq(m, 1, i) \o <<m[i + 1]>>
    <2>1. SubSeq(m, 1, i + 1) = SubSeq(m, 1, (i + 1) - 1) \o <<m[i + 1]>>
      BY <1>2, SubSeqRecursiveSecond
    <2> QED BY <1>2, <2>1
  <1>4. SubSeq(m, 1, i) \in Seq(S)
    BY <1>1, <1>2, SubSeqProperties
  <1>5. Append(SubSeq(m, 1, i), m[i + 1]) = SubSeq(m, 1, i) \o <<m[i + 1]>>
    BY <1>1, <1>2, <1>4, AppendIsConcat
  <1> QED BY <1>3, <1>5

-----------------------------------------------------------------------------
(* Fields, as bytes and as calls.                                          *)

Char == UNION {Range(t) : t \in Texts}
Byte == [int : Int, byte : 1 .. IntSize] \cup Char
Fields == [int : Int] \cup [str : Texts]
IsStr(f) == "str" \in DOMAIN f

WriteOp == [op : {"writeInt", "writeBytes"}, bytes : Seq(Byte)]
ReadOps == [op : {"recvInt", "recvLength"}] \cup [op : {"recvBytes"}, size : Int]
Op == WriteOp \cup ReadOps

FieldBytes(f) == IF IsStr(f) THEN IntBytes(Len(f.str)) \o f.str ELSE IntBytes(f.int)
FieldOps(f) == IF IsStr(f) THEN WriteStr(f.str) ELSE WriteInt(f.int)
ReadOp(f) == [op |-> IF IsStr(f) THEN "recvLength" ELSE "recvInt"]
WriteBytesOf(s) == [op |-> "writeBytes", bytes |-> s]

(* An integer is read from its bytes. *)
LEMMA IntFacts ==
  ASSUME NEW v \in Int
  PROVE  /\ IntBytes(v) \in Seq(Byte) /\ Len(IntBytes(v)) = IntSize /\ IntSize \in Nat \ {0}
         /\ IntsOf(IntBytes(v)) = {v}
         /\ WriteInt(v) \in Seq(Op)
         /\ WriteInt(v) = <<[op |-> "writeInt", bytes |-> IntBytes(v)]>>
  <1>1. IntSize \in Nat \ {0}
    BY ProtocolConstants
  <1>2. IntBytes(v) \in Seq(Byte) /\ Len(IntBytes(v)) = IntSize
    <2>1. \A b \in 1 .. IntSize : [int |-> v, byte |-> b] \in Byte
      BY DEF Byte
    <2> QED BY <1>1, <2>1 DEF IntBytes
  <1>3. IntBytes(v)[1] = [int |-> v, byte |-> 1] /\ IntBytes(v) # <<>>
    BY <1>1, <1>2 DEF IntBytes
  <1>4. IntsOf(IntBytes(v)) = {v}
    <2>1. PICK bytes : bytes = IntBytes(v)
      OBVIOUS
    <2>2. bytes[1].int = v /\ "int" \in DOMAIN bytes[1] /\ bytes # <<>>
      BY <1>3, <2>1
    <2> QED BY <2>1, <2>2 DEF IntsOf
  <1>5. [op |-> "writeInt", bytes |-> IntBytes(v)] \in Op
    BY <1>2 DEF Op, WriteOp
  <1> QED BY <1>1, <1>2, <1>4, <1>5 DEF WriteInt

(* A string is written in two calls, unless it is empty. *)
LEMMA StrFacts ==
  ASSUME NEW s \in Texts
  PROVE  /\ s \in Seq(Byte) /\ Len(s) \in Nat /\ (Len(s) = 0 <=> s = <<>>)
         /\ WriteBytesOf(s) \in Op
         /\ WriteStr(s) = WriteInt(Len(s)) \o (IF s = <<>> THEN <<>> ELSE <<WriteBytesOf(s)>>)
         /\ WriteStr(s) \in Seq(Op)
  <1>1. s \in Seq(Char)
    BY ProtocolConstants DEF Char
  <1>2. Char \subseteq Byte
    BY DEF Byte
  <1>3. s \in Seq(Byte)
    BY <1>1, <1>2, SeqMonotonic
  <1>4. Len(s) \in Nat /\ (Len(s) = 0 <=> s = <<>>)
    BY <1>3
  <1>5. WriteBytesOf(s) \in Op
    BY <1>3 DEF WriteBytesOf, Op, WriteOp
  <1>6. WriteStr(s) = WriteInt(Len(s)) \o (IF s = <<>> THEN <<>> ELSE <<WriteBytesOf(s)>>)
    BY DEF WriteStr, WriteBytesOf
  <1>7. WriteInt(Len(s)) \in Seq(Op)
    BY <1>4, IntFacts
  <1>8. (IF s = <<>> THEN <<>> ELSE <<WriteBytesOf(s)>>) \in Seq(Op)
    BY <1>5
  <1> QED BY <1>3, <1>4, <1>5, <1>6, <1>7, <1>8

(* The same of a field. *)
LEMMA FieldFacts ==
  ASSUME NEW f \in Fields
  PROVE  /\ FieldBytes(f) \in Seq(Byte) /\ FieldOps(f) \in Seq(Op)
         /\ IsStr(f) => f = [str |-> f.str] /\ f.str \in Texts
         /\ ~IsStr(f) => f = [int |-> f.int] /\ f.int \in Int
  <1>1. CASE f \in [int : Int]
    <2>1. ~IsStr(f) /\ f = [int |-> f.int] /\ f.int \in Int
      BY <1>1 DEF IsStr
    <2> QED BY <2>1, IntFacts DEF FieldBytes, FieldOps
  <1>2. CASE f \in [str : Texts]
    <2>1. IsStr(f) /\ f = [str |-> f.str] /\ f.str \in Texts
      BY <1>2 DEF IsStr
    <2>2. PICK s : s = f.str
      OBVIOUS
    <2>3. s \in Seq(Byte) /\ Len(s) \in Nat /\ WriteStr(s) \in Seq(Op)
      BY <2>1, <2>2, StrFacts
    <2>4. IntBytes(Len(s)) \in Seq(Byte)
      BY <2>3, IntFacts
    <2>5. IntBytes(Len(s)) \o s \in Seq(Byte)
      BY <2>3, <2>4, ConcatProperties
    <2> QED BY <2>1, <2>2, <2>3, <2>5 DEF FieldBytes, FieldOps
  <1> QED BY <1>1, <1>2 DEF Fields

(* Its first read tells what it is. *)
LEMMA ReadOpTells ==
  ASSUME NEW f \in Fields
  PROVE  /\ ReadOp(f).op = "recvInt" => \E w \in Int : f = [int |-> w] /\ ~IsStr(f)
         /\ ReadOp(f).op = "recvLength" => \E s \in Texts : f = [str |-> s] /\ IsStr(f)
  <1>1. ReadOp(f).op = IF IsStr(f) THEN "recvLength" ELSE "recvInt"
    BY DEF ReadOp
  <1>2. /\ IsStr(f) => f = [str |-> f.str] /\ f.str \in Texts
        /\ ~IsStr(f) => f = [int |-> f.int] /\ f.int \in Int
    BY FieldFacts
  <1> QED BY <1>1, <1>2

-----------------------------------------------------------------------------
(* A message is a sequence of fields.  Its writer and its reader are each  *)
(* at a field, or between the length and the bytes of a string; what the   *)
(* writer has still to write is rest.                                      *)

BytesAfter(m, i) == After([k \in DOMAIN m |-> FieldBytes(m[k])], i)
OpsAfter(m, i) == After([k \in DOMAIN m |-> FieldOps(m[k])], i)

\* The reads of the fields after i up to stop.
Reads(m, i, stop) == [k \in 1 .. stop - i |-> ReadOp(m[i + k])]

\* Field i is a string that takes two calls.
TwoCalls(m, i) == i \in DOMAIN m /\ IsStr(m[i]) /\ m[i].str # <<>>

WriterBefore(m, j, next, t, rest) ==
  t = OpsAfter(m, j) \o next /\ rest = BytesAfter(m, j)

WriterInside(m, j, next, t, rest) ==
  /\ TwoCalls(m, j + 1)
  /\ t = <<WriteBytesOf(m[j + 1].str)>> \o (OpsAfter(m, j + 1) \o next)
  /\ rest = m[j + 1].str \o BytesAfter(m, j + 1)

\* The calls t begin with what is left to write of m, and go on with next.
WriterAt(m, next, t, rest) ==
  \E j \in 0 .. Len(m) : WriterBefore(m, j, next, t, rest) \/ WriterInside(m, j, next, t, rest)

ReaderBefore(m, i, stop, st, t, rest) ==
  t = Reads(m, i, stop) /\ st \o rest = BytesAfter(m, i)

ReaderInside(m, i, stop, st, t, rest) ==
  /\ i < stop /\ TwoCalls(m, i + 1)
  /\ t = <<[op |-> "recvBytes", size |-> Len(m[i + 1].str)]>> \o Reads(m, i + 1, stop)
  /\ st \o rest = m[i + 1].str \o BytesAfter(m, i + 1)

\* The fields g of m are read and the calls t will read it up to stop; st has
\* arrived of what is left.
ReaderAt(m, stop, st, g, t, rest) ==
  \E i \in 0 .. stop :
    /\ g = SubSeq(m, 1, i)
    /\ ReaderBefore(m, i, stop, st, t, rest) \/ ReaderInside(m, i, stop, st, t, rest)

(* What is left of a message, by its first field. *)
LEMMA MessageFacts ==
  ASSUME NEW m \in Seq(Fields)
  PROVE  /\ Len(m) \in Nat /\ \A i \in 1 .. Len(m) : m[i] \in Fields
         /\ \A i \in 0 .. Len(m) : BytesAfter(m, i) \in Seq(Byte) /\ OpsAfter(m, i) \in Seq(Op)
         /\ \A i \in 0 .. Len(m) - 1 :
              /\ BytesAfter(m, i) = FieldBytes(m[i + 1]) \o BytesAfter(m, i + 1)
              /\ OpsAfter(m, i) = FieldOps(m[i + 1]) \o OpsAfter(m, i + 1)
         /\ BytesAfter(m, Len(m)) = <<>> /\ OpsAfter(m, Len(m)) = <<>>
  <1>1. /\ Len(m) \in Nat /\ DOMAIN m = 1 .. Len(m)
        /\ \A i \in 1 .. Len(m) : m[i] \in Fields
    BY LenProperties, ElementOfSeq
  <1>2. PICK g : g = [k \in DOMAIN m |-> FieldBytes(m[k])]
    OBVIOUS
  <1>3. PICK h : h = [k \in DOMAIN m |-> FieldOps(m[k])]
    OBVIOUS
  <1>4. /\ \A k \in 1 .. Len(m) : FieldBytes(m[k]) \in Seq(Byte)
        /\ \A k \in 1 .. Len(m) : FieldOps(m[k]) \in Seq(Op)
    BY <1>1, FieldFacts
  <1>5. /\ g \in Seq(Seq(Byte)) /\ Len(g) = Len(m)
        /\ \A k \in 1 .. Len(m) : g[k] = FieldBytes(m[k])
    BY <1>1, <1>2, <1>4
  <1>6. /\ h \in Seq(Seq(Op)) /\ Len(h) = Len(m)
        /\ \A k \in 1 .. Len(m) : h[k] = FieldOps(m[k])
    BY <1>1, <1>3, <1>4
  <1>7. /\ After(g, Len(g)) = <<>>
        /\ \A i \in 0 .. Len(g) - 1 : After(g, i) = g[i + 1] \o After(g, i + 1)
        /\ \A i \in 0 .. Len(g) : After(g, i) \in Seq(Byte)
    BY <1>5, AfterFacts
  <1>8. /\ After(h, Len(h)) = <<>>
        /\ \A i \in 0 .. Len(h) - 1 : After(h, i) = h[i + 1] \o After(h, i + 1)
        /\ \A i \in 0 .. Len(h) : After(h, i) \in Seq(Op)
    BY <1>6, AfterFacts
  <1>9. \A i \in 0 .. Len(m) - 1 : i + 1 \in 1 .. Len(m)
    BY <1>1
  <1>10. \A i \in 0 .. Len(m) - 1 :
           /\ After(g, i) = FieldBytes(m[i + 1]) \o After(g, i + 1)
           /\ After(h, i) = FieldOps(m[i + 1]) \o After(h, i + 1)
    BY <1>5, <1>6, <1>7, <1>8, <1>9
  <1>11. \A i : BytesAfter(m, i) = After(g, i) /\ OpsAfter(m, i) = After(h, i)
    BY <1>2, <1>3 DEF BytesAfter, OpsAfter
  <1>12. /\ \A i \in 0 .. Len(m) : After(g, i) \in Seq(Byte) /\ After(h, i) \in Seq(Op)
         /\ After(g, Len(m)) = <<>> /\ After(h, Len(m)) = <<>>
    BY <1>5, <1>6, <1>7, <1>8
  <1> QED BY <1>1, <1>10, <1>11, <1>12

(* The reads, one by one. *)
LEMMA ReadsFacts ==
  ASSUME NEW m \in Seq(Fields), NEW stop \in 0 .. Len(m), NEW i \in 0 .. stop
  PROVE  /\ Reads(m, i, stop) \in Seq(ReadOps)
         /\ i = stop <=> Reads(m, i, stop) = <<>>
         /\ i < stop => /\ Head(Reads(m, i, stop)) = ReadOp(m[i + 1])
                        /\ Tail(Reads(m, i, stop)) = Reads(m, i + 1, stop)
  <1>1. stop \in Nat /\ i \in Nat /\ stop - i \in Nat
    BY MessageFacts
  <1>2. \A f : ReadOp(f) \in ReadOps
    BY DEF ReadOp, ReadOps
  <1>3. PICK r : r = Reads(m, i, stop)
    OBVIOUS
  <1>4. /\ r \in Seq(ReadOps) /\ Len(r) = stop - i
        /\ \A k \in 1 .. stop - i : r[k] = ReadOp(m[i + k])
    BY <1>1, <1>2, <1>3 DEF Reads
  <1>5. i = stop <=> r = <<>>
    BY <1>1, <1>4
  <1>6. ASSUME i < stop
        PROVE  Head(r) = ReadOp(m[i + 1]) /\ Tail(r) = Reads(m, i + 1, stop)
    <2>1. Head(r) = ReadOp(m[i + 1]) /\ r # <<>>
      BY <1>1, <1>4, <1>6
    <2>2. PICK q : q = Reads(m, i + 1, stop)
      OBVIOUS
    <2>3. stop - (i + 1) \in Nat
      BY <1>1, <1>6
    <2>4. /\ q \in Seq(ReadOps) /\ Len(q) = stop - (i + 1)
          /\ \A k \in 1 .. stop - (i + 1) : q[k] = ReadOp(m[(i + 1) + k])
      BY <1>2, <2>2, <2>3 DEF Reads
    <2>5. /\ Tail(r) \in Seq(ReadOps) /\ Len(Tail(r)) = Len(r) - 1
          /\ \A k \in 1 .. Len(Tail(r)) : Tail(r)[k] = r[k + 1]
      BY <1>4, <2>1, HeadTailProperties
    <2>6. Len(Tail(r)) = Len(q) /\ Len(q) = stop - (i + 1)
      BY <1>1, <1>4, <2>4, <2>5
    <2>7. ASSUME NEW k \in 1 .. Len(q)
          PROVE  Tail(r)[k] = q[k]
      <3>1. k + 1 \in 1 .. stop - i /\ i + (k + 1) = (i + 1) + k
        BY <1>1, <2>6
      <3>2. Tail(r)[k] = r[k + 1] /\ r[k + 1] = ReadOp(m[i + (k + 1)])
        BY <1>4, <2>5, <2>6, <3>1
      <3> QED BY <2>4, <2>6, <3>1, <3>2
    <2>8. Tail(r) = q
      BY <2>4, <2>5, <2>6, <2>7, SeqEqual
    <2> QED BY <2>1, <2>2, <2>8
  <1> QED BY <1>3, <1>4, <1>5, <1>6

(* The position of a reader that has a call left. *)
LEMMA ReaderFacts ==
  ASSUME NEW m \in Seq(Fields), NEW stop \in 0 .. Len(m), NEW i \in 0 .. stop,
         NEW st, NEW t, NEW rest
  PROVE  /\ ReaderBefore(m, i, stop, st, t, rest) =>
              /\ t \in Seq(ReadOps) /\ (t = <<>> <=> i = stop)
              /\ i < stop => /\ m[i + 1] \in Fields /\ Head(t) = ReadOp(m[i + 1])
                             /\ Tail(t) = Reads(m, i + 1, stop)
         /\ ReaderInside(m, i, stop, st, t, rest) =>
              /\ t \in Seq(ReadOps) /\ t # <<>> /\ i < stop
              /\ m[i + 1] \in Fields /\ IsStr(m[i + 1]) /\ m[i + 1].str \in Texts
              /\ Head(t) = [op |-> "recvBytes", size |-> Len(m[i + 1].str)]
              /\ Tail(t) = Reads(m, i + 1, stop)
  <1>1. /\ stop \in Nat /\ i \in Nat /\ Len(m) \in Nat
        /\ \A k \in 1 .. Len(m) : m[k] \in Fields
    BY MessageFacts
  <1>2. i < stop => i + 1 \in 0 .. stop /\ i + 1 \in 1 .. Len(m)
    BY <1>1
  <1>3. ReaderBefore(m, i, stop, st, t, rest) =>
          /\ t \in Seq(ReadOps) /\ (t = <<>> <=> i = stop)
          /\ i < stop => /\ m[i + 1] \in Fields /\ Head(t) = ReadOp(m[i + 1])
                         /\ Tail(t) = Reads(m, i + 1, stop)
    <2>1. PICK r : r = Reads(m, i, stop)
      OBVIOUS
    <2>2. /\ r \in Seq(ReadOps) /\ (i = stop <=> r = <<>>)
          /\ i < stop => Head(r) = ReadOp(m[i + 1]) /\ Tail(r) = Reads(m, i + 1, stop)
      BY ZenonT(60), <2>1, ReadsFacts
    <2>3. ReaderBefore(m, i, stop, st, t, rest) => t = r
      BY <2>1 DEF ReaderBefore
    <2> QED BY <1>1, <1>2, <2>2, <2>3
  <1>4. ASSUME ReaderInside(m, i, stop, st, t, rest)
        PROVE  /\ t \in Seq(ReadOps) /\ t # <<>> /\ i < stop
               /\ m[i + 1] \in Fields /\ IsStr(m[i + 1]) /\ m[i + 1].str \in Texts
               /\ Head(t) = [op |-> "recvBytes", size |-> Len(m[i + 1].str)]
               /\ Tail(t) = Reads(m, i + 1, stop)
    <2>1. /\ i < stop /\ IsStr(m[i + 1]) /\ m[i + 1] \in Fields
          /\ t = <<[op |-> "recvBytes", size |-> Len(m[i + 1].str)]>> \o Reads(m, i + 1, stop)
      BY <1>1, <1>2, <1>4 DEF ReaderInside, TwoCalls
    <2>2. m[i + 1].str \in Texts
      BY <2>1, FieldFacts
    <2>3. PICK o : o = [op |-> "recvBytes", size |-> Len(m[i + 1].str)]
      OBVIOUS
    <2>4. o \in ReadOps
      <3>1. Len(m[i + 1].str) \in Int
        BY <2>2, StrFacts
      <3> QED BY <2>3, <3>1 DEF ReadOps
    <2>5. PICK q : q = Reads(m, i + 1, stop)
      OBVIOUS
    <2>6. q \in Seq(ReadOps)
      BY <1>2, <2>1, <2>5, ReadsFacts
    <2>7. t = <<o>> \o q
      BY <2>1, <2>3, <2>5
    <2>8. t \in Seq(ReadOps) /\ t # <<>> /\ Head(t) = o /\ Tail(t) = q
      BY <2>4, <2>6, <2>7
    <2> QED BY <2>1, <2>2, <2>3, <2>5, <2>8
  <1> QED BY <1>3, <1>4

(* A reader reads, and when it has no call left has what it was to read. *)
LEMMA ReaderReads ==
  ASSUME NEW m \in Seq(Fields), NEW stop \in 0 .. Len(m), NEW st, NEW g, NEW t, NEW rest,
         ReaderAt(m, stop, st, g, t, rest)
  PROVE  t \in Seq(ReadOps) /\ (t = <<>> => g = SubSeq(m, 1, stop))
  <1>1. PICK i \in 0 .. stop :
          /\ g = SubSeq(m, 1, i)
          /\ ReaderBefore(m, i, stop, st, t, rest) \/ ReaderInside(m, i, stop, st, t, rest)
    BY DEF ReaderAt
  <1> QED BY <1>1, ReaderFacts

(* An integer is read whole. *)
LEMMA ReaderInt ==
  ASSUME NEW m \in Seq(Fields), NEW stop \in 0 .. Len(m),
         NEW st \in Seq(Byte), NEW g, NEW t, NEW rest \in Seq(Byte),
         ReaderAt(m, stop, st, g, t, rest), t # <<>>, Head(t).op = "recvInt",
         NEW bytes \in Prefixes(st), Len(bytes) = IntSize, NEW v \in IntsOf(bytes)
  PROVE  /\ SubSeq(st, Len(bytes) + 1, Len(st)) \in Seq(Byte)
         /\ ReaderAt(m, stop, SubSeq(st, Len(bytes) + 1, Len(st)), Append(g, [int |-> v]), Tail(t), rest)
  <1>1. PICK i \in 0 .. stop :
          /\ g = SubSeq(m, 1, i)
          /\ ReaderBefore(m, i, stop, st, t, rest) \/ ReaderInside(m, i, stop, st, t, rest)
    BY DEF ReaderAt
  <1>2. /\ ReaderBefore(m, i, stop, st, t, rest) /\ i < stop /\ m[i + 1] \in Fields
        /\ Head(t) = ReadOp(m[i + 1]) /\ Tail(t) = Reads(m, i + 1, stop)
    <2>1. ~ReaderInside(m, i, stop, st, t, rest)
      BY ReaderFacts
    <2>2. ReaderBefore(m, i, stop, st, t, rest) /\ i # stop
      BY <1>1, <2>1, ReaderFacts
    <2>3. stop \in Nat /\ i < stop
      BY <2>2, MessageFacts
    <2> QED BY <2>2, <2>3, ReaderFacts
  <1>3. PICK w \in Int : m[i + 1] = [int |-> w] /\ ~IsStr(m[i + 1])
    <2>1. m[i + 1] \in Fields /\ ReadOp(m[i + 1]).op = "recvInt"
      BY <1>2
    <2> QED BY <2>1, ReadOpTells
  <1>4. /\ Len(m) \in Nat /\ stop \in Nat /\ i \in 0 .. Len(m) - 1 /\ i + 1 \in 0 .. stop
        /\ i + 1 \in 0 .. Len(m)
    BY <1>2, MessageFacts
  <1>5. FieldBytes(m[i + 1]) = IntBytes(w)
    BY <1>3 DEF FieldBytes
  <1>6. st \o rest = IntBytes(w) \o BytesAfter(m, i + 1)
    BY <1>2, <1>4, <1>5, MessageFacts DEF ReaderBefore
  <1>7. /\ IntBytes(w) \in Seq(Byte) /\ Len(IntBytes(w)) = IntSize
        /\ IntsOf(IntBytes(w)) = {w} /\ BytesAfter(m, i + 1) \in Seq(Byte)
    BY <1>4, IntFacts, MessageFacts
  <1>8. /\ bytes = IntBytes(w) /\ SubSeq(st, Len(bytes) + 1, Len(st)) \in Seq(Byte)
        /\ SubSeq(st, Len(bytes) + 1, Len(st)) \o rest = BytesAfter(m, i + 1)
    <2>1. PICK c, d : c = IntBytes(w) /\ d = BytesAfter(m, i + 1)
      OBVIOUS
    <2>2. c \in Seq(Byte) /\ d \in Seq(Byte) /\ SameBytes(st, rest, c, d) /\ Len(bytes) = Len(c)
      BY <1>6, <1>7, <2>1 DEF SameBytes
    <2>3. /\ bytes = c /\ SubSeq(st, Len(bytes) + 1, Len(st)) \in Seq(Byte)
          /\ SubSeq(st, Len(bytes) + 1, Len(st)) \o rest = d
      BY SMTT(40), <2>2, TakePrefix
    <2> QED BY <2>1, <2>3
  <1>9. [int |-> v] = m[i + 1]
    BY <1>3, <1>7, <1>8
  <1>10. Append(g, [int |-> v]) = SubSeq(m, 1, i + 1)
    BY <1>1, <1>4, <1>9, OneMore
  <1>11. ReaderBefore(m, i + 1, stop, SubSeq(st, Len(bytes) + 1, Len(st)), Tail(t), rest)
    BY <1>2, <1>8 DEF ReaderBefore
  <1> QED BY <1>4, <1>8, <1>10, <1>11 DEF ReaderAt

(* So is a length, which is that of the string ... *)
LEMMA ReaderLength ==
  ASSUME NEW m \in Seq(Fields), NEW stop \in 0 .. Len(m),
         NEW st \in Seq(Byte), NEW g, NEW t, NEW rest \in Seq(Byte),
         ReaderAt(m, stop, st, g, t, rest), t # <<>>, Head(t).op = "recvLength",
         NEW bytes \in Prefixes(st), Len(bytes) = IntSize, NEW n \in IntsOf(bytes)
  PROVE  /\ n \in Nat /\ SubSeq(st, Len(bytes) + 1, Len(st)) \in Seq(Byte)
         /\ n = 0 => ReaderAt(m, stop, SubSeq(st, Len(bytes) + 1, Len(st)), Append(g, [str |-> <<>>]),
                              Tail(t), rest)
         /\ n > 0 => ReaderAt(m, stop, SubSeq(st, Len(bytes) + 1, Len(st)), g,
                              <<[op |-> "recvBytes", size |-> n]>> \o Tail(t), rest)
  <1>1. PICK i \in 0 .. stop :
          /\ g = SubSeq(m, 1, i)
          /\ ReaderBefore(m, i, stop, st, t, rest) \/ ReaderInside(m, i, stop, st, t, rest)
    BY DEF ReaderAt
  <1>2. /\ ReaderBefore(m, i, stop, st, t, rest) /\ i < stop /\ m[i + 1] \in Fields
        /\ Head(t) = ReadOp(m[i + 1]) /\ Tail(t) = Reads(m, i + 1, stop)
    <2>1. ~ReaderInside(m, i, stop, st, t, rest)
      BY ReaderFacts
    <2>2. ReaderBefore(m, i, stop, st, t, rest) /\ i # stop
      BY <1>1, <2>1, ReaderFacts
    <2>3. stop \in Nat /\ i < stop
      BY <2>2, MessageFacts
    <2> QED BY <2>2, <2>3, ReaderFacts
  <1>3. PICK s \in Texts : m[i + 1] = [str |-> s] /\ IsStr(m[i + 1])
    <2>1. m[i + 1] \in Fields /\ ReadOp(m[i + 1]).op = "recvLength"
      BY <1>2
    <2> QED BY <2>1, ReadOpTells
  <1>4. /\ Len(m) \in Nat /\ stop \in Nat /\ i \in 0 .. Len(m) - 1 /\ i + 1 \in 0 .. stop
        /\ i + 1 \in 0 .. Len(m) /\ i + 1 \in DOMAIN m
    <2>1. Len(m) \in Nat /\ DOMAIN m = 1 .. Len(m)
      BY LenProperties
    <2> QED BY <1>2, <2>1
  <1>5. m[i + 1].str = s /\ FieldBytes(m[i + 1]) = IntBytes(Len(s)) \o s
    BY <1>3 DEF FieldBytes
  <1>6. /\ s \in Seq(Byte) /\ Len(s) \in Nat /\ (Len(s) = 0 <=> s = <<>>)
        /\ BytesAfter(m, i + 1) \in Seq(Byte)
    BY <1>4, StrFacts, MessageFacts
  <1>7. /\ IntBytes(Len(s)) \in Seq(Byte) /\ Len(IntBytes(Len(s))) = IntSize
        /\ IntsOf(IntBytes(Len(s))) = {Len(s)}
    BY SMTT(40), <1>6, IntFacts
  <1>8. PICK d : d = s \o BytesAfter(m, i + 1)
    OBVIOUS
  <1>15. PICK c : c = IntBytes(Len(s))
    OBVIOUS
  <1>9. d \in Seq(Byte) /\ SameBytes(st, rest, c, d)
    <2>1. PICK f : f = FieldBytes(m[i + 1])
      OBVIOUS
    <2>2. PICK z : z = BytesAfter(m, i + 1)
      OBVIOUS
    <2>3. SameBytes(st, rest, f, z)
      BY <1>2, <1>4, <2>1, <2>2, MessageFacts DEF ReaderBefore, SameBytes
    <2>4. z \in Seq(Byte) /\ c \in Seq(Byte) /\ f = c \o s /\ d = s \o z
      BY <1>5, <1>6, <1>7, <1>8, <1>15, <2>1, <2>2
    <2>5. SameBytes(f, z, c, d) /\ d \in Seq(Byte)
      BY <1>6, <2>4, Regrouped
    <2> QED BY <2>3, <2>5, SameBytesTrans
  <1>10. PICK r : r = SubSeq(st, Len(bytes) + 1, Len(st))
    OBVIOUS
  <1>11. bytes = IntBytes(Len(s)) /\ r \in Seq(Byte) /\ r \o rest = d
    <2>1. c \in Seq(Byte) /\ Len(bytes) = Len(c)
      BY <1>7, <1>15
    <2>2. /\ bytes = c /\ SubSeq(st, Len(bytes) + 1, Len(st)) \in Seq(Byte)
          /\ SubSeq(st, Len(bytes) + 1, Len(st)) \o rest = d
      BY SMTT(40), <1>9, <2>1, TakePrefix
    <2> QED BY <1>10, <1>15, <2>2
  <1>12. n = Len(s)
    BY <1>7, <1>11
  <1>13. ASSUME n = 0
         PROVE  ReaderAt(m, stop, r, Append(g, [str |-> <<>>]), Tail(t), rest)
    <2>1. s = <<>> /\ d = BytesAfter(m, i + 1)
      BY <1>6, <1>8, <1>12, <1>13, ConcatEmptySeq
    <2>2. Append(g, [str |-> <<>>]) = SubSeq(m, 1, i + 1)
      BY <1>1, <1>3, <1>4, <2>1, OneMore
    <2>3. ReaderBefore(m, i + 1, stop, r, Tail(t), rest)
      BY <1>2, <1>11, <2>1 DEF ReaderBefore
    <2> QED BY <1>4, <2>2, <2>3 DEF ReaderAt
  <1>14. ASSUME n > 0
         PROVE  ReaderAt(m, stop, r, g, <<[op |-> "recvBytes", size |-> n]>> \o Tail(t), rest)
    <2>1. TwoCalls(m, i + 1)
      BY <1>3, <1>4, <1>5, <1>6, <1>12, <1>14 DEF TwoCalls
    <2>2. ReaderInside(m, i, stop, r, <<[op |-> "recvBytes", size |-> n]>> \o Tail(t), rest)
      BY <1>2, <1>5, <1>8, <1>11, <1>12, <2>1 DEF ReaderInside
    <2> QED BY <1>1, <2>2 DEF ReaderAt
  <1> QED BY <1>6, <1>10, <1>11, <1>12, <1>13, <1>14

(* ... and its bytes. *)
LEMMA ReaderBytes ==
  ASSUME NEW m \in Seq(Fields), NEW stop \in 0 .. Len(m),
         NEW st \in Seq(Byte), NEW g, NEW t, NEW rest \in Seq(Byte),
         ReaderAt(m, stop, st, g, t, rest), t # <<>>,
         NEW bytes \in Prefixes(st), NEW c, c = Head(t), c.op = "recvBytes", Len(bytes) = c.size
  PROVE  /\ Len(bytes) > 0 /\ SubSeq(st, Len(bytes) + 1, Len(st)) \in Seq(Byte)
         /\ ReaderAt(m, stop, SubSeq(st, Len(bytes) + 1, Len(st)), Append(g, [str |-> bytes]),
                     Tail(t), rest)
  <1>1. PICK i \in 0 .. stop :
          /\ g = SubSeq(m, 1, i)
          /\ ReaderBefore(m, i, stop, st, t, rest) \/ ReaderInside(m, i, stop, st, t, rest)
    BY DEF ReaderAt
  <1>2. ReaderInside(m, i, stop, st, t, rest)
    <2>1. stop \in Nat /\ (i = stop \/ i < stop)
      BY MessageFacts
    <2>2. \A f : ReadOp(f).op # "recvBytes"
      BY DEF ReadOp
    <2>3. ~ReaderBefore(m, i, stop, st, t, rest)
      <3>1. ReaderBefore(m, i, stop, st, t, rest) /\ i < stop => c = ReadOp(m[i + 1])
        BY ReaderFacts
      <3>2. ReaderBefore(m, i, stop, st, t, rest) /\ i = stop => t = <<>>
        BY ReaderFacts
      <3> QED BY <2>1, <2>2, <3>1, <3>2
    <2> QED BY <1>1, <2>3
  <1>3. /\ i < stop /\ m[i + 1] \in Fields /\ IsStr(m[i + 1])
        /\ c = [op |-> "recvBytes", size |-> Len(m[i + 1].str)]
        /\ Tail(t) = Reads(m, i + 1, stop)
    BY <1>2, ReaderFacts
  <1>4. /\ Len(m) \in Nat /\ stop \in Nat /\ i \in 0 .. Len(m) - 1 /\ i + 1 \in 0 .. stop
        /\ i + 1 \in 0 .. Len(m)
    BY SMTT(40), <1>3, MessageFacts
  <1>5. PICK s : s = m[i + 1].str
    OBVIOUS
  <1>6. s \in Texts /\ m[i + 1] = [str |-> s] /\ s # <<>>
    BY <1>2, <1>3, <1>5, FieldFacts DEF ReaderInside, TwoCalls
  <1>7. s \in Seq(Byte) /\ Len(s) \in Nat /\ Len(s) # 0 /\ BytesAfter(m, i + 1) \in Seq(Byte)
    BY <1>4, <1>6, StrFacts, MessageFacts
  <1>8. Len(bytes) = Len(s)
    BY <1>3, <1>5
  <1>9. /\ bytes = s /\ SubSeq(st, Len(bytes) + 1, Len(st)) \in Seq(Byte)
        /\ SubSeq(st, Len(bytes) + 1, Len(st)) \o rest = BytesAfter(m, i + 1)
    <2>1. PICK d : d = BytesAfter(m, i + 1)
      OBVIOUS
    <2>4. SameBytes(st, rest, m[i + 1].str, BytesAfter(m, i + 1))
      BY <1>2 DEF ReaderInside, SameBytes
    <2>2. SameBytes(st, rest, s, d) /\ d \in Seq(Byte)
      BY <1>5, <1>7, <2>1, <2>4
    <2>5. s \in Seq(Byte) /\ Len(bytes) = Len(s)
      BY <1>7, <1>8
    <2>6. \A x \in Prefixes(st) :
            Len(x) = Len(s) => /\ x = s /\ SubSeq(st, Len(x) + 1, Len(st)) \in Seq(Byte)
                               /\ SubSeq(st, Len(x) + 1, Len(st)) \o rest = d
      BY SMTT(40), <2>2, <2>5, TakePrefix
    <2>3. /\ bytes = s /\ SubSeq(st, Len(bytes) + 1, Len(st)) \in Seq(Byte)
          /\ SubSeq(st, Len(bytes) + 1, Len(st)) \o rest = d
      BY <2>5, <2>6
    <2> QED BY <2>1, <2>3
  <1>10. Append(g, [str |-> bytes]) = SubSeq(m, 1, i + 1)
    BY <1>1, <1>4, <1>6, <1>9, OneMore
  <1>11. ReaderBefore(m, i + 1, stop, SubSeq(st, Len(bytes) + 1, Len(st)), Tail(t), rest)
    BY <1>3, <1>9 DEF ReaderBefore
  <1>12. Len(bytes) > 0
    BY <1>7, <1>8
  <1> QED BY <1>4, <1>9, <1>10, <1>11, <1>12 DEF ReaderAt

(* The first of some calls, and the others. *)
LEMMA FirstCall ==
  ASSUME NEW S, NEW w \in S, NEW q \in Seq(S), NEW t, t = <<w>> \o q
  PROVE  t \in Seq(S) /\ t # <<>> /\ Head(t) = w /\ Tail(t) = q
  OBVIOUS

(* A field is an integer, or a length and a string. *)
LEMMA FieldWrites ==
  ASSUME NEW f \in Fields
  PROVE  \E v \in Int :
           LET w == [op |-> "writeInt", bytes |-> IntBytes(v)] IN
           \/ /\ ~(IsStr(f) /\ f.str # <<>>)
              /\ FieldOps(f) = <<w>> /\ FieldBytes(f) = IntBytes(v)
           \/ /\ IsStr(f) /\ f.str # <<>> /\ f.str \in Texts
              /\ FieldOps(f) = <<w>> \o <<WriteBytesOf(f.str)>>
              /\ FieldBytes(f) = IntBytes(v) \o f.str
  <1>1. CASE ~IsStr(f)
    <2>1. f.int \in Int
      BY <1>1, FieldFacts
    <2> QED BY <1>1, <2>1 DEF FieldOps, FieldBytes, WriteInt
  <1>2. CASE IsStr(f)
    <2>1. PICK s \in Texts : s = f.str
      BY <1>2, FieldFacts
    <2>2. /\ s \in Seq(Byte) /\ Len(s) \in Int
          /\ WriteStr(s) = WriteInt(Len(s)) \o (IF s = <<>> THEN <<>> ELSE <<WriteBytesOf(s)>>)
      BY StrFacts
    <2>3. PICK w : w = [op |-> "writeInt", bytes |-> IntBytes(Len(s))]
      OBVIOUS
    <2>4. WriteInt(Len(s)) = <<w>> /\ IntBytes(Len(s)) \in Seq(Byte)
      BY <2>2, <2>3, IntFacts
    <2>5. CASE s = <<>>
      <3>1. WriteStr(s) = <<w>> \o <<>>
        BY <2>2, <2>4, <2>5
      <3>2. WriteStr(s) = <<w>>
        BY <3>1
      <3>3. IntBytes(Len(s)) \o s = IntBytes(Len(s))
        BY <2>4, <2>5, ConcatEmptySeq
      <3> QED BY <1>2, <2>1, <2>2, <2>3, <2>5, <3>2, <3>3 DEF FieldOps, FieldBytes
    <2>6. CASE s # <<>>
      <3>1. WriteStr(s) = <<w>> \o <<WriteBytesOf(s)>>
        BY <2>2, <2>4, <2>6
      <3> QED BY <1>2, <2>1, <2>2, <2>3, <2>6, <3>1 DEF FieldOps, FieldBytes
    <2> QED BY <2>5, <2>6
  <1> QED BY <1>1, <1>2

Writes(t) == t # <<>> /\ Head(t).op \in {"writeInt", "writeBytes"}

\* What a writer leaves of t and of rest when it has made its first call.
WriterGoesOn(m, next, t, rest) ==
  /\ Head(t).bytes \in Seq(Byte) /\ rest # <<>>
  /\ \E rest2 \in Seq(Byte) : rest = Head(t).bytes \o rest2 /\ WriterAt(m, next, Tail(t), rest2)

(* Before a field, a writer writes its integer or its length ... *)
LEMMA WriterBeforeField ==
  ASSUME NEW m \in Seq(Fields), NEW next \in Seq(ReadOps), NEW j \in 0 .. Len(m) - 1,
         NEW t, NEW rest, WriterBefore(m, j, next, t, rest)
  PROVE  t \in Seq(Op) /\ rest \in Seq(Byte) /\ Writes(t) /\ WriterGoesOn(m, next, t, rest)
  <1>1. /\ m[j + 1] \in Fields /\ j + 1 \in 0 .. Len(m) /\ j + 1 \in DOMAIN m /\ j \in 0 .. Len(m)
        /\ Len(m) \in Nat
    BY MessageFacts
  <1>2. PICK ops : ops = OpsAfter(m, j + 1)
    OBVIOUS
  <1>3. PICK b : b = BytesAfter(m, j + 1)
    OBVIOUS
  <1>4. ops \in Seq(Op) /\ b \in Seq(Byte) /\ next \in Seq(Op)
    <2>1. next \in Seq(Op)
      BY SeqMonotonic DEF Op
    <2> QED BY <1>1, <1>2, <1>3, <2>1, MessageFacts
  <1>5. PICK f : f = m[j + 1]
    OBVIOUS
  <1>6. t = (FieldOps(f) \o ops) \o next
    BY <1>1, <1>2, <1>5, MessageFacts DEF WriterBefore
  <1>7. rest = FieldBytes(f) \o b
    BY <1>1, <1>3, <1>5, MessageFacts DEF WriterBefore
  <1>8. PICK v \in Int :
          LET w == [op |-> "writeInt", bytes |-> IntBytes(v)] IN
          \/ /\ ~(IsStr(f) /\ f.str # <<>>)
             /\ FieldOps(f) = <<w>> /\ FieldBytes(f) = IntBytes(v)
          \/ /\ IsStr(f) /\ f.str # <<>> /\ f.str \in Texts
             /\ FieldOps(f) = <<w>> \o <<WriteBytesOf(f.str)>>
             /\ FieldBytes(f) = IntBytes(v) \o f.str
    BY <1>1, <1>5, FieldWrites
  <1>9. PICK w : w = [op |-> "writeInt", bytes |-> IntBytes(v)]
    OBVIOUS
  <1>10. PICK ib : ib = IntBytes(v)
    OBVIOUS
  <1>11. ib \in Seq(Byte) /\ Len(ib) = IntSize /\ IntSize \in Nat \ {0}
    BY <1>10, IntFacts
  <1>12. w \in Op /\ w.op = "writeInt" /\ w.bytes = ib
    BY <1>9, <1>10, <1>11 DEF Op, WriteOp
  <1>13. CASE ~(IsStr(f) /\ f.str # <<>>)
    <2>1. t = (<<w>> \o ops) \o next /\ rest = ib \o b
      BY <1>6, <1>7, <1>8, <1>9, <1>10, <1>13
    <2>2. PICK q : q = ops \o next
      OBVIOUS
    <2>3. q \in Seq(Op) /\ t = <<w>> \o q
      BY SMTT(40), <1>4, <1>12, <2>1, <2>2
    <2>4. t \in Seq(Op) /\ t # <<>> /\ Head(t) = w /\ Tail(t) = q
      BY <1>12, <2>3, FirstCall
    <2>5. rest \in Seq(Byte) /\ rest # <<>>
      BY <1>4, <1>11, <2>1
    <2>6. WriterBefore(m, j + 1, next, Tail(t), b)
      BY <1>2, <1>3, <2>2, <2>4 DEF WriterBefore
    <2>7. WriterAt(m, next, Tail(t), b)
      BY <1>1, <2>6 DEF WriterAt
    <2> QED BY <1>4, <1>11, <1>12, <2>1, <2>4, <2>5, <2>7 DEF Writes, WriterGoesOn
  <1>14. CASE IsStr(f) /\ f.str # <<>>
    <2>1. PICK s \in Texts : s = f.str
      BY <1>8, <1>14
    <2>2. PICK o : o = WriteBytesOf(s)
      OBVIOUS
    <2>3. s \in Seq(Byte) /\ o \in Op
      BY <2>2, StrFacts
    <2>4. t = ((<<w>> \o <<o>>) \o ops) \o next
      BY <1>6, <1>8, <1>9, <1>14, <2>1, <2>2
    <2>14. rest = (ib \o s) \o b
      BY <1>7, <1>8, <1>10, <1>14, <2>1
    <2>5. PICK q : q = <<o>> \o (ops \o next)
      OBVIOUS
    <2>6. q \in Seq(Op) /\ t = <<w>> \o q
      <3>1. PICK c : c = <<w>>
        OBVIOUS
      <3>2. PICK d : d = <<o>>
        OBVIOUS
      <3>3. c \in Seq(Op) /\ d \in Seq(Op)
        BY <1>12, <2>3, <3>1, <3>2
      <3>4. PICK e : e = c \o d
        OBVIOUS
      <3>5. PICK z : z = ops \o next
        OBVIOUS
      <3>6. e \in Seq(Op) /\ z \in Seq(Op) /\ ops \in Seq(Op) /\ next \in Seq(Op)
        BY <1>4, <3>3, <3>4, <3>5
      <3>7. t = (e \o ops) \o next
        BY <2>4, <3>1, <3>2, <3>4, Zenon
      <3>8. (e \o ops) \o next = e \o (ops \o next)
        <4>1. e \in Seq(Op) /\ ops \in Seq(Op) /\ next \in Seq(Op)
          BY <3>6
        <4> QED BY SMTT(40), <4>1, ConcatAssociative
      <3>9. (c \o d) \o z = c \o (d \o z)
        <4>1. c \in Seq(Op) /\ d \in Seq(Op) /\ z \in Seq(Op)
          BY <3>3, <3>6
        <4> QED BY SMTT(40), <4>1, ConcatAssociative
      <3>10. t = c \o (d \o z)
        BY <3>4, <3>5, <3>7, <3>8, <3>9, Zenon
      <3>11. q = d \o z
        BY <2>5, <3>2, <3>5, Zenon
      <3>12. q \in Seq(Op)
        BY <3>3, <3>6, <3>11, ConcatProperties, Zenon
      <3>13. t = <<w>> \o q
        BY <3>1, <3>10, <3>11, Zenon
      <3> QED BY <3>12, <3>13
    <2>7. t \in Seq(Op) /\ t # <<>> /\ Head(t) = w /\ Tail(t) = q
      BY <1>12, <2>6, FirstCall
    <2>8. PICK r : r = s \o b
      OBVIOUS
    <2>9. r \in Seq(Byte) /\ rest = ib \o r /\ rest \in Seq(Byte)
      <3>1. ib \in Seq(Byte) /\ s \in Seq(Byte) /\ b \in Seq(Byte)
        BY <1>4, <1>11, <2>3
      <3>2. (ib \o s) \o b = ib \o (s \o b)
        BY SMTT(40), <3>1, ConcatAssociative
      <3>3. rest = ib \o r
        BY <2>8, <2>14, <3>2, Zenon
      <3>4. r \in Seq(Byte) /\ ib \o r \in Seq(Byte)
        <4>1. r \in Seq(Byte)
          BY <2>8, <3>1, ConcatProperties, Zenon
        <4> QED BY <3>1, <4>1, ConcatProperties, Zenon
      <3> QED BY <3>3, <3>4, Zenon
    <2>10. rest # <<>>
      BY <1>11, <2>9
    <2>11. WriterInside(m, j, next, Tail(t), r)
      BY <1>1, <1>2, <1>3, <1>5, <1>14, <2>1, <2>2, <2>5, <2>7, <2>8 DEF WriterInside, TwoCalls
    <2>12. WriterAt(m, next, Tail(t), r)
      BY <1>1, <2>11 DEF WriterAt
    <2> QED BY <1>11, <1>12, <2>7, <2>9, <2>10, <2>12 DEF Writes, WriterGoesOn
  <1> QED BY <1>13, <1>14

(* ... and after a length, the string. *)
LEMMA WriterInsideField ==
  ASSUME NEW m \in Seq(Fields), NEW next \in Seq(ReadOps), NEW j \in 0 .. Len(m),
         NEW t, NEW rest, WriterInside(m, j, next, t, rest)
  PROVE  t \in Seq(Op) /\ rest \in Seq(Byte) /\ Writes(t) /\ WriterGoesOn(m, next, t, rest)
  <1>1. /\ j + 1 \in 0 .. Len(m) /\ m[j + 1] \in Fields /\ IsStr(m[j + 1]) /\ m[j + 1].str # <<>>
    <2>1. j + 1 \in DOMAIN m /\ IsStr(m[j + 1]) /\ m[j + 1].str # <<>>
      BY DEF WriterInside, TwoCalls
    <2>2. j + 1 \in 1 .. Len(m) /\ Len(m) \in Nat
      BY <2>1, LenProperties
    <2> QED BY <2>1, <2>2, MessageFacts
  <1>2. PICK ops : ops = OpsAfter(m, j + 1)
    OBVIOUS
  <1>3. PICK b : b = BytesAfter(m, j + 1)
    OBVIOUS
  <1>4. ops \in Seq(Op) /\ b \in Seq(Byte) /\ next \in Seq(Op)
    <2>1. next \in Seq(Op)
      BY SeqMonotonic DEF Op
    <2> QED BY <1>1, <1>2, <1>3, <2>1, MessageFacts
  <1>5. PICK s \in Texts : s = m[j + 1].str
    BY <1>1, FieldFacts
  <1>6. PICK o : o = WriteBytesOf(s)
    OBVIOUS
  <1>7. s \in Seq(Byte) /\ o \in Op /\ o.op = "writeBytes" /\ o.bytes = s
    BY <1>6, StrFacts DEF WriteBytesOf
  <1>8. PICK q : q = ops \o next
    OBVIOUS
  <1>9. q \in Seq(Op)
    BY <1>4, <1>8
  <1>10. t = <<o>> \o q
    BY <1>2, <1>5, <1>6, <1>8 DEF WriterInside
  <1>11. t \in Seq(Op) /\ t # <<>> /\ Head(t) = o /\ Tail(t) = q
    BY <1>7, <1>9, <1>10, FirstCall
  <1>12. rest = s \o b
    BY <1>3, <1>5 DEF WriterInside
  <1>13. rest \in Seq(Byte) /\ rest # <<>>
    BY <1>1, <1>4, <1>5, <1>7, <1>12
  <1>14. WriterBefore(m, j + 1, next, Tail(t), b)
    BY <1>2, <1>3, <1>8, <1>11 DEF WriterBefore
  <1>15. WriterAt(m, next, Tail(t), b)
    BY <1>1, <1>14 DEF WriterAt
  <1> QED BY <1>4, <1>7, <1>11, <1>12, <1>13, <1>15 DEF Writes, WriterGoesOn

(* A writer writes until nothing is left, and then it goes on with next. *)
LEMMA WriterFacts ==
  ASSUME NEW m \in Seq(Fields), NEW next \in Seq(ReadOps), NEW t, NEW rest,
         WriterAt(m, next, t, rest)
  PROVE  /\ t \in Seq(Op) /\ rest \in Seq(Byte)
         /\ Writes(t) => WriterGoesOn(m, next, t, rest)
         /\ ~Writes(t) => t = next
         /\ rest = <<>> => t = next
  <1>1. PICK j \in 0 .. Len(m) :
          WriterBefore(m, j, next, t, rest) \/ WriterInside(m, j, next, t, rest)
    BY DEF WriterAt
  <1>2. CASE WriterInside(m, j, next, t, rest)
    BY <1>2, WriterInsideField DEF WriterGoesOn
  <1>3. CASE WriterBefore(m, j, next, t, rest) /\ j # Len(m)
    <2>1. j \in 0 .. Len(m) - 1
      BY <1>3, MessageFacts
    <2> QED BY <1>3, <2>1, WriterBeforeField DEF WriterGoesOn
  <1>4. CASE WriterBefore(m, j, next, t, rest) /\ j = Len(m)
    <2>1. next \in Seq(Op)
      BY SeqMonotonic DEF Op
    <2>2. t = <<>> \o next /\ rest = <<>>
      BY <1>4, MessageFacts DEF WriterBefore
    <2>3. t = next
      BY <2>1, <2>2, ConcatEmptySeq
    <2>4. ~Writes(t)
      <3>1. t # <<>> => Head(t) \in ReadOps
        BY <2>3
      <3>2. \A o \in ReadOps : o.op \notin {"writeInt", "writeBytes"}
        BY DEF ReadOps
      <3> QED BY <3>1, <3>2 DEF Writes
    <2> QED BY <2>1, <2>2, <2>3, <2>4, EmptySeq
  <1> QED BY <1>1, <1>2, <1>3, <1>4

(* What the writer writes arrives at the reader. *)
LEMMA ReaderArrives ==
  ASSUME NEW m \in Seq(Fields), NEW stop \in 0 .. Len(m),
         NEW st \in Seq(Byte), NEW g, NEW t, NEW b \in Seq(Byte), NEW rest2 \in Seq(Byte),
         NEW rest, rest = b \o rest2, ReaderAt(m, stop, st, g, t, rest)
  PROVE  st \o b \in Seq(Byte) /\ ReaderAt(m, stop, st \o b, g, t, rest2)
  <1>1. PICK e : e = st \o b
    OBVIOUS
  <1>2. PICK u : u = st \o rest
    OBVIOUS
  <1>3. e \in Seq(Byte) /\ e \o rest2 = u
    BY SMTT(40), <1>1, <1>2
  <1>4. PICK i \in 0 .. stop :
          /\ g = SubSeq(m, 1, i)
          /\ ReaderBefore(m, i, stop, st, t, rest) \/ ReaderInside(m, i, stop, st, t, rest)
    BY DEF ReaderAt
  <1>5. ReaderBefore(m, i, stop, st, t, rest) => ReaderBefore(m, i, stop, e, t, rest2)
    BY <1>2, <1>3 DEF ReaderBefore
  <1>6. ReaderInside(m, i, stop, st, t, rest) => ReaderInside(m, i, stop, e, t, rest2)
    BY <1>2, <1>3 DEF ReaderInside
  <1>7. ReaderAt(m, stop, e, g, t, rest2)
    BY <1>4, <1>5, <1>6 DEF ReaderAt
  <1> QED BY <1>1, <1>3, <1>7

-----------------------------------------------------------------------------
(* The requests and the answers, as messages.                              *)

(* At most two sequences, concatenated. *)
LEMMA FlattenShort ==
  ASSUME NEW g, NEW S, g \in Seq(S), Len(g) \in 0 .. 2
  PROVE  /\ Len(g) = 0 => FlattenSeq(g) = <<>>
         /\ Len(g) = 1 => FlattenSeq(g) = g[1]
         /\ Len(g) = 2 => FlattenSeq(g) = g[1] \o g[2]
  <1>1. CASE Len(g) = 0
    <2>1. g = <<>>
      BY <1>1, EmptySeq
    <2> QED BY <1>1, <2>1 DEF FlattenSeq
  <1>2. CASE Len(g) # 0
    <2> DEFINE IsIt(f) == f = [i \in 1 .. Len(g) |-> IF i = 1 THEN g[i] ELSE f[i - 1] \o g[i]]
    <2>1. \E f : IsIt(f)
      <3>1. PICK f : f = [i \in 1 .. Len(g) |-> IF i = 1 THEN g[1] ELSE g[1] \o g[2]]
        OBVIOUS
      <3>2. \A i \in 1 .. Len(g) : f[i] = IF i = 1 THEN g[i] ELSE f[i - 1] \o g[i]
        <4>1. \A i \in 1 .. Len(g) : f[i] = IF i = 1 THEN g[1] ELSE g[1] \o g[2]
          BY <3>1
        <4>2. Len(g) \in 1 .. 2
          BY <1>2
        <4> QED BY <4>1, <4>2
      <3>3. f = [i \in 1 .. Len(g) |-> f[i]]
        BY <3>1
      <3>4. IsIt(f)
        BY <3>2, <3>3
      <3> QED BY <3>4
    <2>2. PICK f : f = CHOOSE h : IsIt(h)
      OBVIOUS
    <2>3. IsIt(f)
      BY <2>1, <2>2
    <2>4. FlattenSeq(g) = f[Len(g)]
      BY <1>2, <2>2 DEF FlattenSeq
    <2>5. \A i \in 1 .. Len(g) : f[i] = IF i = 1 THEN g[i] ELSE f[i - 1] \o g[i]
      BY <2>3
    <2>6. CASE Len(g) = 1
      <3>1. f[1] = g[1]
        BY <2>5, <2>6
      <3> QED BY <2>4, <2>6, <3>1
    <2>7. CASE Len(g) = 2
      <3>1. 1 \in 1 .. Len(g) /\ 2 \in 1 .. Len(g) /\ 2 - 1 = 1
        BY <2>7
      <3>2. f[1] = g[1]
        BY <2>5, <3>1
      <3>3. f[2] = f[2 - 1] \o g[2]
        <4>1. \A i \in 1 .. Len(g) : i # 1 => f[i] = f[i - 1] \o g[i]
          BY <2>5
        <4>2. 2 \in 1 .. Len(g) /\ 2 # 1
          BY <3>1
        <4> QED BY <4>1, <4>2, Zenon
      <3>4. f[2] = g[1] \o g[2]
        BY <3>1, <3>2, <3>3
      <3> QED BY <2>4, <2>7, <3>4
    <2> QED BY <1>2, <2>6, <2>7
  <1> QED BY <1>1, <1>2

(* The calls that write the last fields of a message. *)
LEMMA OpsOfShort ==
  ASSUME NEW m \in Seq(Fields), NEW i \in Nat, NEW n \in 0 .. 2, Len(m) = i + n,
         NEW g, g \in Seq(Seq(Op)), Len(g) = n, \A k \in 1 .. n : g[k] = FieldOps(m[i + k])
  PROVE  FlattenSeq(g) = OpsAfter(m, i)
  <1>1. \A k \in 1 .. n : g[k] \in Seq(Op)
    BY ElementOfSeq
  <1>2. CASE n = 0
    <2>1. i = Len(m)
      BY <1>2
    <2>2. FlattenSeq(g) = <<>>
      BY <1>2, FlattenShort
    <2> QED BY <2>1, <2>2, MessageFacts
  <1>3. CASE n = 1
    <2>1. i + 1 = Len(m) /\ i \in 0 .. Len(m) - 1 /\ 1 \in 1 .. n
      BY <1>3
    <2>2. OpsAfter(m, i) = g[1] \o <<>>
      BY <2>1, MessageFacts
    <2>3. OpsAfter(m, i) = g[1]
      BY <1>1, <2>1, <2>2, ConcatEmptySeq
    <2>4. FlattenSeq(g) = g[1]
      BY <1>3, FlattenShort
    <2> QED BY <2>3, <2>4
  <1>4. CASE n = 2
    <2>1. /\ i + 1 \in 0 .. Len(m) - 1 /\ i \in 0 .. Len(m) - 1 /\ 1 \in 1 .. n
          /\ 2 \in 1 .. n /\ (i + 1) + 1 = Len(m) /\ (i + 1) + 1 = i + 2
      BY <1>4
    <2>2. OpsAfter(m, i + 1) = g[2] \o <<>>
      BY <2>1, MessageFacts
    <2>3. OpsAfter(m, i + 1) = g[2]
      BY <1>1, <2>1, <2>2, ConcatEmptySeq
    <2>4. OpsAfter(m, i) = g[1] \o g[2]
      BY <2>1, <2>3, MessageFacts
    <2>5. FlattenSeq(g) = g[1] \o g[2]
      BY <1>4, FlattenShort
    <2> QED BY <2>4, <2>5
  <1> QED BY <1>2, <1>3, <1>4

(* A string after another is received as often as there are strings. *)
LEMMA TimesFacts ==
  ASSUME NEW n \in 0 .. 2
  PROVE  /\ Times(n, RecvStlStr) = [k \in 1 .. n |-> [op |-> "recvLength"]]
         /\ Times(n, RecvStlStr) \in Seq(ReadOps)
  <1>1. PICK o : o = [op |-> "recvLength"]
    OBVIOUS
  <1>2. PICK g : g = [k \in 1 .. n |-> <<o>>]
    OBVIOUS
  <1>3. o \in ReadOps
    BY <1>1 DEF ReadOps
  <1>4. Times(n, RecvStlStr) = FlattenSeq(g)
    BY <1>1, <1>2 DEF Times, RecvStlStr
  <1>5. g \in Seq(Seq(ReadOps)) /\ Len(g) = n /\ \A k \in 1 .. n : g[k] = <<o>>
    BY <1>2, <1>3
  <1>6. PICK h : h = [k \in 1 .. n |-> o]
    OBVIOUS
  <1>7. h \in Seq(ReadOps)
    BY <1>3, <1>6
  <1>8. FlattenSeq(g) = h
    <2>1. CASE n = 0
      <3>1. h = <<>>
        BY <1>6, <2>1
      <3> QED BY <1>5, <2>1, <3>1, FlattenShort
    <2>2. CASE n = 1
      <3>1. h = <<o>>
        BY <1>6, <2>2
      <3>2. FlattenSeq(g) = g[1]
        BY <1>5, <2>2, FlattenShort
      <3> QED BY <1>5, <2>2, <3>1, <3>2
    <2>3. CASE n = 2
      <3>1. h = <<o>> \o <<o>>
        BY <1>6, <2>3
      <3>2. FlattenSeq(g) = g[1] \o g[2]
        BY <1>5, <2>3, FlattenShort
      <3>3. g[1] = <<o>> /\ g[2] = <<o>>
        BY <1>5, <2>3
      <3> QED BY <3>1, <3>2, <3>3
    <2> QED BY <2>1, <2>2, <2>3
  <1> QED BY <1>1, <1>4, <1>6, <1>7, <1>8

(* So are the strings at the end of a message. *)
LEMMA ReadsOfStrings ==
  ASSUME NEW m \in Seq(Fields), NEW i \in 0 .. Len(m), Len(m) - i \in 0 .. 2,
         \A k \in 1 .. Len(m) - i : IsStr(m[i + k])
  PROVE  Times(Len(m) - i, RecvStlStr) = Reads(m, i, Len(m))
  <1>1. \A k \in 1 .. Len(m) - i : ReadOp(m[i + k]) = [op |-> "recvLength"]
    BY DEF ReadOp
  <1> QED BY <1>1, TimesFacts DEF Reads

(* The server receives as many strings as the client sends. *)
LEMMA StringsAgree ==
  ASSUME NEW c \in 1 .. 11
  PROVE  /\ StringsReceived(CodeSent(c)) = StringsSent(c) /\ StringsSent(c) \in 0 .. 2
         /\ CodeSent(c) \in 1 .. 11
  BY DEF StringsReceived, CodeSent, StringsSent, VERIFY_COV, TRANSLATE_SENT, TRANSLATE_SENT_HYPINFO,
         OL_TRAIN_PAIR, TRAIN_ECM, START_CAT, ADD_STR_TO_PREF

(* What is asked for is two integers and some strings. *)
LEMMA AskedFacts ==
  ASSUME NEW r \in Requests
  PROVE  /\ r.code \in 1 .. 11 /\ Asked(r) \in Seq(Fields)
         /\ Len(Asked(r)) = 2 + StringsSent(r.code)
         /\ Asked(r)[1] = [int |-> CodeSent(r.code)] /\ Asked(r)[2] = [int |-> r.user]
         /\ \A k \in 1 .. StringsSent(r.code) :
              Asked(r)[2 + k] = [str |-> r.strings[k]] /\ r.strings[k] \in Texts
         /\ DOMAIN r.strings = 1 .. StringsSent(r.code) /\ r.user \in Int
  <1>1. /\ r.code \in 1 .. 11 /\ r.user \in Int /\ r.strings \in [1 .. StringsSent(r.code) -> Texts]
    BY ZenonT(60), ProtocolConstants DEF Requests
  <1>2. PICK n : n = StringsSent(r.code)
    OBVIOUS
  <1>3. n \in Nat /\ CodeSent(r.code) \in Int
    BY SMTT(40), <1>1, <1>2, StringsAgree
  <1>4. PICK x : x = r.strings
    OBVIOUS
  <1>5. PICK a : a = [k \in DOMAIN x |-> [str |-> x[k]]]
    OBVIOUS
  <1>6. DOMAIN x = 1 .. n /\ \A k \in 1 .. n : x[k] \in Texts
    BY <1>1, <1>2, <1>4
  <1>7. \A k \in 1 .. n : [str |-> x[k]] \in Fields
    BY <1>6 DEF Fields
  <1>8. a \in Seq(Fields) /\ Len(a) = n /\ \A k \in 1 .. n : a[k] = [str |-> x[k]]
    BY <1>3, <1>5, <1>6, <1>7
  <1>9. PICK e, f : e = [int |-> CodeSent(r.code)] /\ f = [int |-> r.user]
    OBVIOUS
  <1>10. e \in Fields /\ f \in Fields
    BY <1>1, <1>3, <1>9 DEF Fields
  <1>11. Asked(r) = <<e, f>> \o a
    BY <1>4, <1>5, <1>9 DEF Asked
  <1>12. PICK y : y = <<e, f>> \o a
    OBVIOUS
  <1>13. /\ y \in Seq(Fields) /\ Len(y) = 2 + n /\ y[1] = e /\ y[2] = f
         /\ \A k \in 1 .. n : y[2 + k] = a[k]
    BY <1>3, <1>8, <1>10, <1>12
  <1> QED BY <1>1, <1>2, <1>4, <1>6, <1>8, <1>9, <1>11, <1>12, <1>13

\* Every field of an answer is a string.
Strs(reply) == \A k \in 1 .. Len(reply) : IsStr(reply[k])

(* What is answered is two strings, or one, or an integer. *)
LEMMA RepliesShape ==
  ASSUME NEW t, NEW reply \in Replies(t)
  PROVE  /\ reply \in Seq(Fields) /\ Len(reply) \in 1 .. 2
         /\ t \in {TRANSLATE_SENT, TRANSLATE_SENT_HYPINFO} => Len(reply) = 2 /\ Strs(reply)
         /\ t \in {VERIFY_COV, START_CAT, ADD_STR_TO_PREF} => Len(reply) = 1 /\ Strs(reply)
         /\ t \in {OL_TRAIN_PAIR, TRAIN_ECM, PRINT_MODELS, RESET_PREF, END_SERVER} =>
              Len(reply) = 1 /\ ~IsStr(reply[1])
         /\ t \notin {END_CLIENT_DIALOG}
  <1> USE DEF TRANSLATE_SENT, TRANSLATE_SENT_HYPINFO, VERIFY_COV, START_CAT, ADD_STR_TO_PREF,
              OL_TRAIN_PAIR, TRAIN_ECM, PRINT_MODELS, RESET_PREF, END_SERVER, END_CLIENT_DIALOG
  <1>1. CASE t \in {TRANSLATE_SENT, TRANSLATE_SENT_HYPINFO}
    <2>1. Replies(t) = {<<[str |-> a], [str |-> b]>> : a \in Texts, b \in Texts}
      BY <1>1 DEF Replies
    <2>2. PICK a, b : a \in Texts /\ b \in Texts /\ reply = <<[str |-> a], [str |-> b]>>
      BY <2>1
    <2>3. PICK e, f : e = [str |-> a] /\ f = [str |-> b]
      OBVIOUS
    <2>4. e \in Fields /\ f \in Fields /\ IsStr(e) /\ IsStr(f)
      BY <2>2, <2>3 DEF Fields, IsStr
    <2>5. reply = <<e, f>>
      BY <2>2, <2>3
    <2>6. reply \in Seq(Fields) /\ Len(reply) = 2 /\ Strs(reply)
      BY <2>4, <2>5 DEF Strs
    <2> QED BY <1>1, <2>6
  <1>2. CASE t \in {VERIFY_COV, START_CAT, ADD_STR_TO_PREF}
    <2>1. Replies(t) = {<<[str |-> a]>> : a \in Texts}
      BY <1>2 DEF Replies
    <2>2. PICK a \in Texts : reply = <<[str |-> a]>>
      BY <2>1
    <2>3. PICK e : e = [str |-> a]
      OBVIOUS
    <2>4. e \in Fields /\ IsStr(e)
      BY <2>3 DEF Fields, IsStr
    <2>5. reply = <<e>>
      BY <2>2, <2>3
    <2>6. reply \in Seq(Fields) /\ Len(reply) = 1 /\ Strs(reply)
      BY <2>4, <2>5 DEF Strs
    <2> QED BY <1>2, <2>6
  <1>3. CASE t \notin {TRANSLATE_SENT, TRANSLATE_SENT_HYPINFO, VERIFY_COV, START_CAT, ADD_STR_TO_PREF}
    <2>1. \/ /\ t \in {OL_TRAIN_PAIR, TRAIN_ECM, PRINT_MODELS}
             /\ Replies(t) = {<<[int |-> ret]>> : ret \in {THOT_OK, THOT_ERROR}}
          \/ t \in {RESET_PREF, END_SERVER} /\ Replies(t) = {<<[int |-> THOT_OK]>>}
      BY <1>3 DEF Replies
    <2>2. PICK v \in Int : reply = <<[int |-> v]>>
      BY <2>1 DEF THOT_OK, THOT_ERROR
    <2>3. PICK e : e = [int |-> v]
      OBVIOUS
    <2>4. e \in Fields /\ ~IsStr(e)
      BY <2>3 DEF Fields, IsStr
    <2>5. reply = <<e>>
      BY <2>2, <2>3
    <2>6. reply \in Seq(Fields) /\ Len(reply) = 1 /\ ~IsStr(reply[1])
      BY <2>4, <2>5
    <2>7. t \notin {END_CLIENT_DIALOG}
      BY <2>1
    <2> QED BY <1>3, <2>6, <2>7
  <1> QED BY <1>1, <1>2, <1>3

(* What is written of the answer is its fields. *)
LEMMA ReplyWritten ==
  ASSUME NEW t, NEW reply \in Replies(t)
  PROVE  WriteReply(reply) = OpsAfter(reply, 0) /\ WriteReply(reply) \in Seq(Op)
  <1>1. reply \in Seq(Fields) /\ Len(reply) \in 1 .. 2 /\ DOMAIN reply = 1 .. Len(reply)
    BY RepliesShape, LenProperties
  <1>2. PICK g : g = [k \in DOMAIN reply |-> FieldOps(reply[k])]
    OBVIOUS
  <1>3. WriteReply(reply) = FlattenSeq(g)
    BY <1>2 DEF WriteReply, FieldOps, IsStr
  <1>4. PICK n \in 1 .. 2 : Len(reply) = n
    BY <1>1
  <1>5. \A k \in 1 .. n : FieldOps(reply[k]) \in Seq(Op)
    BY <1>1, <1>4, FieldFacts, ElementOfSeq
  <1>6. g \in Seq(Seq(Op)) /\ Len(g) = n /\ \A k \in 1 .. n : g[k] = FieldOps(reply[0 + k])
    BY <1>1, <1>2, <1>4, <1>5
  <1>7. FlattenSeq(g) = OpsAfter(reply, 0)
    <2>1. n \in 0 .. 2 /\ Len(reply) = 0 + n /\ 0 \in Nat
      BY <1>4
    <2> QED BY <1>1, <1>6, <2>1, OpsOfShort
  <1>8. OpsAfter(reply, 0) \in Seq(Op)
    <2>1. 0 \in 0 .. Len(reply)
      BY <1>1
    <2> QED BY <1>1, <2>1, MessageFacts
  <1> QED BY <1>3, <1>7, <1>8

(* What the client reads for an answer is what the server has answered. *)
LEMMA AnswerIsReply ==
  ASSUME NEW c \in 1 .. 11, NEW reply \in Replies(CodeSent(c))
  PROVE  AnswerRead(c) = Reads(reply, 0, Len(reply))
  <1> USE DEF TRANSLATE_SENT, TRANSLATE_SENT_HYPINFO, VERIFY_COV, START_CAT, ADD_STR_TO_PREF,
              OL_TRAIN_PAIR, TRAIN_ECM, PRINT_MODELS, RESET_PREF, END_SERVER, END_CLIENT_DIALOG
  <1>1. PICK t : t = CodeSent(c)
    OBVIOUS
  <1>2. /\ reply \in Seq(Fields) /\ Len(reply) \in 1 .. 2 /\ 0 \in 0 .. Len(reply)
        /\ t \in {TRANSLATE_SENT, TRANSLATE_SENT_HYPINFO} => Len(reply) = 2 /\ Strs(reply)
        /\ t \in {VERIFY_COV, START_CAT, ADD_STR_TO_PREF} => Len(reply) = 1 /\ Strs(reply)
        /\ t \in {OL_TRAIN_PAIR, TRAIN_ECM, PRINT_MODELS, RESET_PREF, END_SERVER} =>
              Len(reply) = 1 /\ ~IsStr(reply[1])
        /\ t \notin {END_CLIENT_DIALOG}
    BY <1>1, RepliesShape
  <1>3. ASSUME Strs(reply)
        PROVE  Times(Len(reply), RecvStlStr) = Reads(reply, 0, Len(reply))
    <2>1. PICK n \in 1 .. 2 : n = Len(reply)
      BY <1>2
    <2>2. \A k \in 1 .. n : ReadOp(reply[0 + k]) = [op |-> "recvLength"]
      BY <1>3, <2>1 DEF ReadOp, Strs
    <2>3. Times(n, RecvStlStr) = [k \in 1 .. n |-> [op |-> "recvLength"]]
      <3>1. n \in 0 .. 2
        OBVIOUS
      <3> QED BY <3>1, TimesFacts
    <2>4. Reads(reply, 0, n) = [k \in 1 .. n |-> [op |-> "recvLength"]]
      BY <2>2 DEF Reads
    <2> QED BY <2>1, <2>3, <2>4
  <1>4. CASE c \in {TRANSLATE_SENT, TRANSLATE_SENT_HYPINFO}
    <2>1. t \in {TRANSLATE_SENT, TRANSLATE_SENT_HYPINFO} /\ AnswerRead(c) = Times(2, RecvStlStr)
      BY <1>1, <1>4 DEF AnswerRead, CodeSent
    <2> QED BY <1>2, <1>3, <2>1
  <1>5. CASE c \in {VERIFY_COV, START_CAT, ADD_STR_TO_PREF}
    <2>1. t \in {VERIFY_COV, START_CAT, ADD_STR_TO_PREF} /\ AnswerRead(c) = RecvStlStr
      BY <1>1, <1>5 DEF AnswerRead, CodeSent
    <2>2. Times(1, RecvStlStr) = RecvStlStr
      BY TimesFacts DEF RecvStlStr
    <2> QED BY <1>2, <1>3, <2>1, <2>2
  <1>6. CASE c \in {OL_TRAIN_PAIR, TRAIN_ECM, PRINT_MODELS, RESET_PREF, END_SERVER}
    <2>1. t \in {OL_TRAIN_PAIR, TRAIN_ECM, PRINT_MODELS, RESET_PREF, END_SERVER}
          /\ AnswerRead(c) = RecvInt
      BY <1>1, <1>6 DEF AnswerRead, CodeSent
    <2>2. Len(reply) = 1 /\ ReadOp(reply[0 + 1]) = [op |-> "recvInt"]
      BY <1>2, <2>1 DEF ReadOp
    <2>3. Reads(reply, 0, 1) = <<[op |-> "recvInt"]>>
      BY <2>2 DEF Reads
    <2> QED BY <2>1, <2>2, <2>3 DEF RecvInt
  <1>7. c = END_CLIENT_DIALOG => t = END_CLIENT_DIALOG
    BY <1>1 DEF CodeSent
  <1>8. c # END_CLIENT_DIALOG
    BY <1>2, <1>7
  <1> QED BY <1>4, <1>5, <1>6, <1>8

(* The reads of the answer begin with an integer, and there are some unless the
   dialog ends. *)
LEMMA AnswerFacts ==
  ASSUME NEW c \in 1 .. 11
  PROVE  /\ AnswerRead(c) \in Seq(ReadOps)
         /\ AnswerRead(c) = <<>> => c = END_CLIENT_DIALOG
         /\ AnswerRead(c) # <<>> => Head(AnswerRead(c)).op \in {"recvInt", "recvLength"}
  <1>1. PICK o, e : o = [op |-> "recvLength"] /\ e = [op |-> "recvInt"]
    OBVIOUS
  <1>2. o \in ReadOps /\ e \in ReadOps /\ o.op = "recvLength" /\ e.op = "recvInt"
    BY <1>1 DEF ReadOps
  <1>3. \/ AnswerRead(c) \in {Times(2, RecvStlStr), <<o>>, <<e>>}
        \/ AnswerRead(c) = <<>> /\ c = END_CLIENT_DIALOG
    BY <1>1 DEF AnswerRead, RecvStlStr, RecvInt, TRANSLATE_SENT, TRANSLATE_SENT_HYPINFO, VERIFY_COV,
                START_CAT, ADD_STR_TO_PREF, END_CLIENT_DIALOG
  <1>4. /\ Times(2, RecvStlStr) \in Seq(ReadOps) /\ Times(2, RecvStlStr) # <<>>
        /\ Head(Times(2, RecvStlStr)).op = "recvLength"
    <2>1. Times(2, RecvStlStr) = [k \in 1 .. 2 |-> o]
      BY <1>1, TimesFacts
    <2>2. PICK h : h = [k \in 1 .. 2 |-> o]
      OBVIOUS
    <2>3. h \in Seq(ReadOps) /\ h # <<>> /\ Head(h) = o
      BY <1>2, <2>2
    <2> QED BY <1>2, <2>1, <2>2, <2>3
  <1>5. \A x \in {<<o>>, <<e>>} : x \in Seq(ReadOps) /\ x # <<>> /\ Head(x).op \in {"recvInt", "recvLength"}
    <2>1. /\ <<o>> \in Seq(ReadOps) /\ <<o>> # <<>> /\ Head(<<o>>) = o
          /\ <<e>> \in Seq(ReadOps) /\ <<e>> # <<>> /\ Head(<<e>>) = e
      BY <1>2
    <2> QED BY <1>2, <2>1
  <1> QED BY <1>3, <1>4, <1>5, EmptySeq

(* What the client writes is what is asked for, and then it reads the answer;
   the server reads two integers, and as many strings as follow. *)
LEMMA DialogFacts ==
  ASSUME NEW r \in Requests
  PROVE  /\ Dialog(r) = OpsAfter(Asked(r), 0) \o AnswerRead(r.code)
         /\ RecvInt \o RecvInt = Reads(Asked(r), 0, 2)
         /\ Times(StringsReceived(CodeSent(r.code)), RecvStlStr) = Reads(Asked(r), 2, Len(Asked(r)))
  <1>1. PICK m : m = Asked(r)
    OBVIOUS
  <1>2. PICK n \in 0 .. 2 : n = StringsSent(r.code) /\ n = StringsReceived(CodeSent(r.code))
    BY AskedFacts, StringsAgree
  <1>3. /\ r.code \in 1 .. 11 /\ m \in Seq(Fields) /\ Len(m) = 2 + n
        /\ m[1] = [int |-> CodeSent(r.code)] /\ m[2] = [int |-> r.user]
        /\ \A k \in 1 .. n : m[2 + k] = [str |-> r.strings[k]] /\ r.strings[k] \in Texts
        /\ DOMAIN r.strings = 1 .. n /\ r.user \in Int /\ CodeSent(r.code) \in Int
    <2>1. /\ r.code \in 1 .. 11 /\ m \in Seq(Fields) /\ Len(m) = 2 + n
          /\ DOMAIN r.strings = 1 .. n /\ r.user \in Int
      BY <1>1, <1>2, AskedFacts
    <2>2. CodeSent(r.code) \in Int
      BY <2>1, StringsAgree
    <2>3. m[1] = [int |-> CodeSent(r.code)] /\ m[2] = [int |-> r.user]
      BY <1>1, AskedFacts
    <2>4. \A k \in 1 .. n : m[2 + k] = [str |-> r.strings[k]] /\ r.strings[k] \in Texts
      BY <1>1, <1>2, AskedFacts
    <2> QED BY <2>1, <2>2, <2>3, <2>4
  <1>4. /\ ~IsStr(m[1]) /\ m[1].int = CodeSent(r.code) /\ ~IsStr(m[2]) /\ m[2].int = r.user
        /\ \A k \in 1 .. n : IsStr(m[2 + k]) /\ m[2 + k].str = r.strings[k]
    <2>1. /\ \A v : ~IsStr([int |-> v]) /\ [int |-> v].int = v
          /\ \A v : IsStr([str |-> v]) /\ [str |-> v].str = v
      BY DEF IsStr
    <2>2. ~IsStr(m[1]) /\ m[1].int = CodeSent(r.code) /\ ~IsStr(m[2]) /\ m[2].int = r.user
      BY <1>3, <2>1
    <2>3. \A k \in 1 .. n : IsStr(m[2 + k]) /\ m[2 + k].str = r.strings[k]
      BY ZenonT(60), <1>3, <2>1
    <2> QED BY <2>2, <2>3
  <1>5. WriteStrs(r.strings) = OpsAfter(m, 2)
    <2>1. PICK g : g = [k \in DOMAIN r.strings |-> WriteStr(r.strings[k])]
      OBVIOUS
    <2>2. \A k \in 1 .. n : WriteStr(r.strings[k]) \in Seq(Op)
      BY <1>3, StrFacts
    <2>3. \A k \in 1 .. n : WriteStr(r.strings[k]) = FieldOps(m[2 + k])
      BY <1>4 DEF FieldOps
    <2>4. g \in Seq(Seq(Op)) /\ Len(g) = n /\ \A k \in 1 .. n : g[k] = FieldOps(m[2 + k])
      BY <1>3, <2>1, <2>2, <2>3
    <2>5. FlattenSeq(g) = OpsAfter(m, 2)
      BY ZenonT(60), <1>3, <2>4, OpsOfShort
    <2> QED BY <2>1, <2>5 DEF WriteStrs
  <1>6. PICK w1, w2 : w1 = WriteInt(CodeSent(r.code)) /\ w2 = WriteInt(r.user)
    OBVIOUS
  <1>7. PICK ops, ar : ops = OpsAfter(m, 2) /\ ar = AnswerRead(r.code)
    OBVIOUS
  <1>8. /\ 2 \in 0 .. Len(m) /\ 0 \in 0 .. Len(m) - 1 /\ 1 \in 0 .. Len(m) - 1
        /\ 0 + 1 = 1 /\ 1 + 1 = 2
    BY <1>3
  <1>9. w1 \in Seq(Op) /\ w2 \in Seq(Op) /\ ops \in Seq(Op) /\ ar \in Seq(Op)
    <2>1. ar \in Seq(Op)
      BY <1>3, <1>7, AnswerFacts, SeqMonotonic DEF Op
    <2> QED BY <1>3, <1>6, <1>7, <1>8, <2>1, IntFacts, MessageFacts
  <1>10. OpsAfter(m, 0) = w1 \o (w2 \o ops)
    <2>1. OpsAfter(m, 1) = FieldOps(m[2]) \o OpsAfter(m, 2)
      BY <1>3, <1>8, MessageFacts
    <2>2. OpsAfter(m, 0) = FieldOps(m[1]) \o OpsAfter(m, 1)
      BY <1>3, <1>8, MessageFacts
    <2>3. FieldOps(m[1]) = w1 /\ FieldOps(m[2]) = w2
      BY <1>4, <1>6 DEF FieldOps
    <2> QED BY <1>7, <2>1, <2>2, <2>3
  <1>11. Dialog(r) = OpsAfter(m, 0) \o ar
    <2>1. Dialog(r) = ((w1 \o w2) \o ops) \o ar
      BY <1>5, <1>6, <1>7 DEF Dialog
    <2>2. PICK x : x = (w1 \o w2) \o ops
      OBVIOUS
    <2>3. PICK y : y = w2 \o ops
      OBVIOUS
    <2>4. x = w1 \o y
      <3>1. (w1 \o w2) \o ops = w1 \o (w2 \o ops)
        BY SMTT(40), <1>9, ConcatAssociative
      <3> QED BY <2>2, <2>3, <3>1, Zenon
    <2> QED BY <1>10, <2>1, <2>2, <2>3, <2>4
  <1>12. RecvInt \o RecvInt = Reads(m, 0, 2)
    <2>1. PICK e : e = [op |-> "recvInt"]
      OBVIOUS
    <2>2. ReadOp(m[0 + 1]) = e /\ ReadOp(m[0 + 2]) = e
      BY <1>4, <2>1 DEF ReadOp
    <2>3. Reads(m, 0, 2) = [k \in 1 .. 2 |-> e]
      BY <2>2 DEF Reads
    <2>4. <<e>> \o <<e>> = [k \in 1 .. 2 |-> e]
      OBVIOUS
    <2> QED BY <2>1, <2>3, <2>4 DEF RecvInt
  <1>13. Times(n, RecvStlStr) = Reads(m, 2, Len(m))
    <2>1. \A k \in 1 .. n : ReadOp(m[2 + k]) = [op |-> "recvLength"]
      BY <1>4 DEF ReadOp
    <2>2. Times(n, RecvStlStr) = [k \in 1 .. n |-> [op |-> "recvLength"]]
      BY TimesFacts
    <2>3. Len(m) - 2 = n
      BY <1>3
    <2> QED BY <2>1, <2>2, <2>3 DEF Reads
  <1> QED BY <1>1, <1>2, <1>7, <1>11, <1>12, <1>13

-----------------------------------------------------------------------------
(* What a step does to the two sides.                                      *)

ClientStates == {"running", "ok", "refused", "error", "dead"}
ServerStates == {"accept", "args", "reply", "abandoned", "dead", "closed"}

TypesOK ==
  /\ request \in Requests
  /\ DOMAIN state = Sides /\ state.client \in ClientStates /\ state.server \in ServerStates
  /\ DOMAIN todo = Sides /\ \A s \in Sides : todo[s] \in Seq(Op)
  /\ stream \in [Sides -> Seq(Byte)]
  /\ DOMAIN got = Sides /\ bad \in [Sides -> SUBSET {"part", "all"}]

\* s is one of the two sides, and p the other.
Pair(s, p) == s \in Sides /\ p \in Sides /\ s # p /\ Peer[s] = p /\ Sides = {s, p}

(* Each side is the other's peer. *)
LEMMA Pairs ==
  /\ Pair("client", "server") /\ Pair("server", "client")
  /\ \A s \in Sides : \E p : Pair(s, p)
  BY DEF Pair, Sides, Peer

(* What a side has read is an integer if it was read as one. *)
LEMMA IntsOfTyped ==
  ASSUME NEW bytes \in Seq(Byte), NEW v \in IntsOf(bytes)
  PROVE  v \in Int
  <1>1. CASE bytes # <<>> /\ "int" \in DOMAIN bytes[1] /\ bytes = IntBytes(bytes[1].int)
    <2>1. v = bytes[1].int
      BY <1>1 DEF IntsOf
    <2>2. bytes[1] \in Byte
      BY <1>1
    <2>3. \A c \in Char : "int" \notin DOMAIN c
      BY ProtocolConstants DEF Char
    <2>4. bytes[1] \in [int : Int, byte : 1 .. IntSize]
      BY <1>1, <2>2, <2>3 DEF Byte
    <2> QED BY <2>1, <2>4
  <1>2. CASE ~(bytes # <<>> /\ "int" \in DOMAIN bytes[1] /\ bytes = IntBytes(bytes[1].int))
    <2>1. v \in Garbage
      BY <1>2 DEF IntsOf
    <2> QED BY <2>1, ProtocolConstants
  <1> QED BY <1>1, <1>2

(* What has not arrived is not read, and what is left of it is bytes. *)
LEMMA PrefixFacts ==
  ASSUME NEW a \in Seq(Byte), NEW x \in Prefixes(a)
  PROVE  /\ x \in Seq(Byte) /\ Len(x) \in Nat /\ SubSeq(a, Len(x) + 1, Len(a)) \in Seq(Byte)
         /\ a = <<>> => Len(x) = 0
  <1>1. PICK l \in 0 .. Len(a) : x = SubSeq(a, 1, l)
    BY DEF Prefixes
  <1>2. Len(a) \in Nat /\ \A i \in 1 .. Len(a) : a[i] \in Byte
    BY LenProperties, ElementOfSeq
  <1>3. x \in Seq(Byte) /\ Len(x) = l
    <2>1. \A i \in 1 .. l : a[i] \in Byte
      BY <1>1, <1>2
    <2>2. /\ SubSeq(a, 1, l) \in Seq(Byte)
          /\ Len(SubSeq(a, 1, l)) = IF 1 <= l THEN l - 1 + 1 ELSE 0
      BY <1>1, <2>1, SubSeqProperties
    <2> QED BY <1>1, <1>2, <2>2
  <1>4. SubSeq(a, l + 1, Len(a)) \in Seq(Byte)
    <2>1. \A i \in l + 1 .. Len(a) : a[i] \in Byte
      BY <1>1, <1>2
    <2> QED BY <1>1, <1>2, <2>1, SubSeqProperties
  <1>5. a = <<>> => Len(a) = 0
    OBVIOUS
  <1> QED BY <1>1, <1>2, <1>3, <1>4, <1>5

(* A recv changes what has arrived at s, and what its reads have missed. *)
LEMMA RecvEffect ==
  ASSUME TypesOK, NEW s, NEW p, Pair(s, p), NEW wanted,
         NEW bytes \in Prefixes(stream[s]), Recv(s, wanted, bytes)
  PROVE  /\ request' = request /\ done' = done
         /\ stream' \in [Sides -> Seq(Byte)] /\ stream'[p] = stream[p]
         /\ stream'[s] = SubSeq(stream[s], Len(bytes) + 1, Len(stream[s]))
         /\ stream[s] \in Seq(Byte) /\ bytes \in Seq(Byte)
         /\ bad' \in [Sides -> SUBSET {"part", "all"}] /\ bad'[p] = bad[p] /\ bad[s] \subseteq bad'[s]
         /\ bad'[s] = {} => Len(bytes) = wanted
         /\ stream[s] = <<>> => Len(bytes) = 0 /\ Closed(p)
  <1> DEFINE n == Len(bytes)
  <1>1. s \in Sides /\ p \in Sides /\ s # p /\ Peer[s] = p
    BY DEF Pair
  <1>2. stream \in [Sides -> Seq(Byte)] /\ bad \in [Sides -> SUBSET {"part", "all"}]
    BY DEF TypesOK
  <1>3. PICK a : a = stream[s]
    OBVIOUS
  <1>4. a \in Seq(Byte)
    BY <1>1, <1>2, <1>3
  <1>5. /\ bytes \in Seq(Byte) /\ n \in Nat /\ SubSeq(a, n + 1, Len(a)) \in Seq(Byte)
        /\ a = <<>> => n = 0
    BY <1>3, <1>4, PrefixFacts
  <1>6. /\ request' = request /\ done' = done
        /\ stream' = [stream EXCEPT ![s] = SubSeq(a, n + 1, Len(a))]
    BY <1>3 DEF Recv
  <1>7. bad' = [bad EXCEPT ![s] = CASE n = wanted -> bad[s]
                                    [] n = 0      -> bad[s] \cup {"all"}
                                    [] OTHER      -> bad[s] \cup {"part"}]
    BY DEF Recv
  <1>8. n = 0 => Closed(p)
    BY <1>1 DEF Recv
  <1>9. stream' \in [Sides -> Seq(Byte)] /\ stream'[p] = stream[p] /\ stream'[s] = SubSeq(a, n + 1, Len(a))
    BY <1>1, <1>2, <1>5, <1>6
  <1>10. PICK b : b = CASE n = wanted -> bad[s]
                        [] n = 0      -> bad[s] \cup {"all"}
                        [] OTHER      -> bad[s] \cup {"part"}
    OBVIOUS
  <1>11. b \in {bad[s], bad[s] \cup {"all"}, bad[s] \cup {"part"}} /\ (b = {} => n = wanted)
    BY <1>10
  <1>12. bad' \in [Sides -> SUBSET {"part", "all"}] /\ bad'[p] = bad[p] /\ bad'[s] = b
    <2>1. bad' = [bad EXCEPT ![s] = b]
      BY <1>7, <1>10
    <2>2. b \in SUBSET {"part", "all"}
      BY <1>1, <1>2, <1>11
    <2> QED BY <1>1, <1>2, <2>1, <2>2
  <1>13. bad[s] \subseteq bad'[s] /\ (bad'[s] = {} => n = wanted)
    BY <1>11, <1>12
  <1> QED BY <1>3, <1>4, <1>5, <1>6, <1>8, <1>9, <1>12, <1>13

(* The first of some calls and the others have the type of the calls. *)
LEMMA TailTyped ==
  ASSUME NEW S, NEW t \in Seq(S), t # <<>>
  PROVE  Head(t) \in S /\ Tail(t) \in Seq(S)
  OBVIOUS

\* A read of s: what it leaves alone, what it cannot do, and that a whole read
\* takes the reader of any message to where it should be next.
ReadOne(s, p) ==
  /\ TypesOK' /\ request' = request /\ done' = done
  /\ ~Closed(s) /\ todo[s] # <<>> /\ ~Writes(todo[s])
  /\ state'[p] = state[p] /\ todo'[p] = todo[p] /\ stream'[p] = stream[p]
  /\ got'[p] = got[p] /\ bad'[p] = bad[p]
  /\ state'[s] \in {state[s], "dead"}
  /\ todo[s] \in Seq(ReadOps) => todo'[s] \in Seq(ReadOps)
  /\ bad[s] \subseteq bad'[s]
  /\ stream[s] = <<>> /\ Head(todo[s]).op \in {"recvInt", "recvLength"} =>
       bad'[s] # {} /\ Closed(p)
  /\ bad'[s] = {} => \A m \in Seq(Fields) : \A stop \in 0 .. Len(m) : \A rest \in Seq(Byte) :
       ReaderAt(m, stop, stream[s], got[s], todo[s], rest) =>
         state'[s] = state[s] /\ ReaderAt(m, stop, stream'[s], got'[s], todo'[s], rest)

(* The types after a step of s that leaves the other side and the request alone. *)
LEMMA TypesAfter ==
  ASSUME TypesOK, NEW s, NEW p, Pair(s, p), request' = request,
         DOMAIN state' = Sides, state'[p] = state[p], state'[s] \in {state[s], "dead"},
         DOMAIN todo' = Sides, todo'[p] = todo[p], todo'[s] \in Seq(Op),
         stream' \in [Sides -> Seq(Byte)], DOMAIN got' = Sides,
         bad' \in [Sides -> SUBSET {"part", "all"}]
  PROVE  TypesOK'
  <1>1. state'.client \in ClientStates /\ state'.server \in ServerStates
    BY DEF TypesOK, ClientStates, ServerStates, Pair, Sides
  <1>2. \A x \in Sides : todo'[x] \in Seq(Op)
    BY DEF TypesOK, Pair
  <1> QED BY <1>1, <1>2 DEF TypesOK

(* A read of an integer. *)
LEMMA ReadIntEffect ==
  ASSUME TypesOK, NEW s, NEW p, Pair(s, p), ReadInt(s)
  PROVE  ReadOne(s, p)
  <1>1. PICK bytes \in Prefixes(stream[s]) :
          Recv(s, IntSize, bytes) /\ \E v \in IntsOf(bytes) : Field(s, [int |-> v])
    BY DEF ReadInt
  <1>2. PICK v \in IntsOf(bytes) : Field(s, [int |-> v])
    BY <1>1
  <1>3. ~Closed(s) /\ todo[s] # <<>> /\ Head(todo[s]).op = "recvInt"
    BY DEF ReadInt, Calls
  <1>4. s \in Sides /\ p \in Sides /\ s # p /\ todo[s] \in Seq(Op)
    BY DEF Pair, TypesOK
  <1>5. /\ state' = state
        /\ DOMAIN todo' = Sides /\ todo'[s] = Tail(todo[s]) /\ todo'[p] = todo[p]
        /\ DOMAIN got' = Sides /\ got'[s] = Append(got[s], [int |-> v]) /\ got'[p] = got[p]
    BY <1>2, <1>4 DEF Field, TypesOK
  <1>6. /\ request' = request /\ done' = done
        /\ stream' \in [Sides -> Seq(Byte)] /\ stream'[p] = stream[p]
        /\ stream'[s] = SubSeq(stream[s], Len(bytes) + 1, Len(stream[s]))
        /\ stream[s] \in Seq(Byte) /\ bytes \in Seq(Byte)
        /\ bad' \in [Sides -> SUBSET {"part", "all"}] /\ bad'[p] = bad[p] /\ bad[s] \subseteq bad'[s]
        /\ bad'[s] = {} => Len(bytes) = IntSize
        /\ stream[s] = <<>> => Len(bytes) = 0 /\ Closed(p)
    BY <1>1, RecvEffect
  <1>7. todo'[s] \in Seq(Op) /\ (todo[s] \in Seq(ReadOps) => todo'[s] \in Seq(ReadOps))
    BY <1>3, <1>4, <1>5, TailTyped
  <1>8. DOMAIN state' = Sides
    BY <1>5 DEF TypesOK
  <1>9. TypesOK'
    BY <1>5, <1>6, <1>7, <1>8, TypesAfter
  <1>10. ~Writes(todo[s])
    BY <1>3 DEF Writes
  <1>11. stream[s] = <<>> => bad'[s] # {} /\ Closed(p)
    BY <1>6, ProtocolConstants
  <1>12. ASSUME bad'[s] = {}, NEW m \in Seq(Fields), NEW stop \in 0 .. Len(m), NEW rest \in Seq(Byte),
                ReaderAt(m, stop, stream[s], got[s], todo[s], rest)
         PROVE  ReaderAt(m, stop, stream'[s], got'[s], todo'[s], rest)
    <2>1. Len(bytes) = IntSize
      BY <1>6, <1>12
    <2>2. ReaderAt(m, stop, SubSeq(stream[s], Len(bytes) + 1, Len(stream[s])),
                   Append(got[s], [int |-> v]), Tail(todo[s]), rest)
      BY <1>3, <1>6, <1>12, <2>1, ReaderInt
    <2> QED BY <1>5, <1>6, <2>2
  <1> QED BY <1>3, <1>5, <1>6, <1>7, <1>9, <1>10, <1>11, <1>12 DEF ReadOne

(* A read of a length. *)
LEMMA ReadLengthEffect ==
  ASSUME TypesOK, NEW s, NEW p, Pair(s, p), ReadLength(s)
  PROVE  ReadOne(s, p)
  <1>1. PICK bytes \in Prefixes(stream[s]) :
          /\ Recv(s, IntSize, bytes)
          /\ \E n \in IntsOf(bytes) :
               \/ n = 0 /\ Field(s, [str |-> <<>>])
               \/ /\ n > 0 /\ UNCHANGED <<state, got>>
                  /\ todo' = [todo EXCEPT ![s] = <<[op |-> "recvBytes", size |-> n]>> \o Tail(@)]
               \/ /\ n < 0 /\ UNCHANGED got
                  /\ state' = [state EXCEPT ![s] = "dead"] /\ todo' = [todo EXCEPT ![s] = <<>>]
    BY DEF ReadLength
  <1>2. PICK n \in IntsOf(bytes) :
               \/ n = 0 /\ Field(s, [str |-> <<>>])
               \/ /\ n > 0 /\ UNCHANGED <<state, got>>
                  /\ todo' = [todo EXCEPT ![s] = <<[op |-> "recvBytes", size |-> n]>> \o Tail(@)]
               \/ /\ n < 0 /\ UNCHANGED got
                  /\ state' = [state EXCEPT ![s] = "dead"] /\ todo' = [todo EXCEPT ![s] = <<>>]
    BY <1>1
  <1>3. ~Closed(s) /\ todo[s] # <<>> /\ Head(todo[s]).op = "recvLength"
    BY DEF ReadLength, Calls
  <1>4. s \in Sides /\ p \in Sides /\ s # p /\ todo[s] \in Seq(Op)
    BY DEF Pair, TypesOK
  <1>6. /\ request' = request /\ done' = done
        /\ stream' \in [Sides -> Seq(Byte)] /\ stream'[p] = stream[p]
        /\ stream'[s] = SubSeq(stream[s], Len(bytes) + 1, Len(stream[s]))
        /\ stream[s] \in Seq(Byte) /\ bytes \in Seq(Byte)
        /\ bad' \in [Sides -> SUBSET {"part", "all"}] /\ bad'[p] = bad[p] /\ bad[s] \subseteq bad'[s]
        /\ bad'[s] = {} => Len(bytes) = IntSize
        /\ stream[s] = <<>> => Len(bytes) = 0 /\ Closed(p)
    BY <1>1, RecvEffect
  <1>10. ~Writes(todo[s])
    BY <1>3 DEF Writes
  <1>11. stream[s] = <<>> => bad'[s] # {} /\ Closed(p)
    BY <1>6, ProtocolConstants
  <1>13. n \in Int
    BY <1>6, IntsOfTyped
  <1>14. PICK u : u = <<[op |-> "recvBytes", size |-> n]>> \o Tail(todo[s])
    OBVIOUS
  <1>15. ASSUME NEW S, [op |-> "recvBytes", size |-> n] \in S, todo[s] \in Seq(S)
         PROVE  u \in Seq(S)
    <2>1. Tail(todo[s]) \in Seq(S)
      BY <1>3, <1>15, TailTyped
    <2> QED BY <1>14, <1>15, <2>1, FirstCall
  <1>16. [op |-> "recvBytes", size |-> n] \in Op /\ [op |-> "recvBytes", size |-> n] \in ReadOps
    BY <1>13 DEF Op, ReadOps
  <1>17. u \in Seq(Op) /\ (todo[s] \in Seq(ReadOps) => u \in Seq(ReadOps))
    BY <1>4, <1>15, <1>16
  <1>18. Tail(todo[s]) \in Seq(Op) /\ (todo[s] \in Seq(ReadOps) => Tail(todo[s]) \in Seq(ReadOps))
    BY <1>3, <1>4, TailTyped
  <1>19. ASSUME bad'[s] = {}, NEW m \in Seq(Fields), NEW stop \in 0 .. Len(m), NEW rest \in Seq(Byte),
                ReaderAt(m, stop, stream[s], got[s], todo[s], rest)
         PROVE  /\ n \in Nat
                /\ n = 0 => ReaderAt(m, stop, stream'[s], Append(got[s], [str |-> <<>>]), Tail(todo[s]), rest)
                /\ n > 0 => ReaderAt(m, stop, stream'[s], got[s], u, rest)
    <2>1. Len(bytes) = IntSize
      BY <1>6, <1>19
    <2>2. PICK z : z = SubSeq(stream[s], Len(bytes) + 1, Len(stream[s]))
      OBVIOUS
    <2>3. /\ n \in Nat
          /\ n = 0 => ReaderAt(m, stop, z, Append(got[s], [str |-> <<>>]), Tail(todo[s]), rest)
          /\ n > 0 => ReaderAt(m, stop, z, got[s],
                               <<[op |-> "recvBytes", size |-> n]>> \o Tail(todo[s]), rest)
      BY <1>3, <1>6, <1>19, <2>1, <2>2, ReaderLength
    <2> QED BY <1>6, <1>14, <2>2, <2>3
  <1>20. CASE n = 0 /\ Field(s, [str |-> <<>>])
    <2>1. /\ state' = state
          /\ DOMAIN todo' = Sides /\ todo'[s] = Tail(todo[s]) /\ todo'[p] = todo[p]
          /\ DOMAIN got' = Sides /\ got'[s] = Append(got[s], [str |-> <<>>]) /\ got'[p] = got[p]
      BY <1>20, <1>4 DEF Field, TypesOK
    <2>2. DOMAIN state' = Sides
      BY <2>1 DEF TypesOK
    <2>3. TypesOK'
      BY <1>6, <1>18, <2>1, <2>2, TypesAfter
    <2>4. bad'[s] = {} => \A m \in Seq(Fields) : \A stop \in 0 .. Len(m) : \A rest \in Seq(Byte) :
            ReaderAt(m, stop, stream[s], got[s], todo[s], rest) =>
              state'[s] = state[s] /\ ReaderAt(m, stop, stream'[s], got'[s], todo'[s], rest)
      BY <1>19, <1>20, <2>1
    <2> QED BY <1>3, <1>6, <1>10, <1>11, <1>18, <2>1, <2>3, <2>4 DEF ReadOne
  <1>21. CASE /\ n > 0 /\ UNCHANGED <<state, got>>
              /\ todo' = [todo EXCEPT ![s] = <<[op |-> "recvBytes", size |-> n]>> \o Tail(@)]
    <2>1. /\ state' = state /\ got' = got
          /\ DOMAIN todo' = Sides /\ todo'[s] = u /\ todo'[p] = todo[p]
      BY <1>21, <1>4, <1>14 DEF TypesOK
    <2>2. DOMAIN state' = Sides /\ DOMAIN got' = Sides
      BY <2>1 DEF TypesOK
    <2>3. TypesOK'
      BY <1>6, <1>17, <2>1, <2>2, TypesAfter
    <2>4. bad'[s] = {} => \A m \in Seq(Fields) : \A stop \in 0 .. Len(m) : \A rest \in Seq(Byte) :
            ReaderAt(m, stop, stream[s], got[s], todo[s], rest) =>
              state'[s] = state[s] /\ ReaderAt(m, stop, stream'[s], got'[s], todo'[s], rest)
      BY <1>19, <1>21, <2>1
    <2> QED BY <1>3, <1>6, <1>10, <1>11, <1>17, <2>1, <2>3, <2>4 DEF ReadOne
  <1>22. CASE /\ n < 0 /\ UNCHANGED got
              /\ state' = [state EXCEPT ![s] = "dead"] /\ todo' = [todo EXCEPT ![s] = <<>>]
    <2>1. /\ got' = got /\ DOMAIN state' = Sides /\ state'[s] = "dead" /\ state'[p] = state[p]
          /\ DOMAIN todo' = Sides /\ todo'[s] = <<>> /\ todo'[p] = todo[p]
      BY <1>22, <1>4 DEF TypesOK
    <2>2. DOMAIN got' = Sides /\ todo'[s] \in Seq(Op) /\ todo'[s] \in Seq(ReadOps)
      BY <2>1 DEF TypesOK
    <2>3. TypesOK'
      BY <1>6, <2>1, <2>2, TypesAfter
    <2>4. bad'[s] = {} => \A m \in Seq(Fields) : \A stop \in 0 .. Len(m) : \A rest \in Seq(Byte) :
            ReaderAt(m, stop, stream[s], got[s], todo[s], rest) =>
              state'[s] = state[s] /\ ReaderAt(m, stop, stream'[s], got'[s], todo'[s], rest)
      <3>1. ~(n < 0 /\ n \in Nat)
        OBVIOUS
      <3> QED BY <1>19, <1>22, <3>1
    <2> QED BY <1>3, <1>6, <1>10, <1>11, <2>1, <2>2, <2>3, <2>4 DEF ReadOne
  <1> QED BY <1>2, <1>20, <1>21, <1>22

(* A read of a string. *)
LEMMA ReadBytesEffect ==
  ASSUME TypesOK, NEW s, NEW p, Pair(s, p), ReadBytes(s)
  PROVE  ReadOne(s, p)
  <1>1. PICK bytes \in Prefixes(stream[s]) :
          Recv(s, Head(todo[s]).size, bytes) /\ Field(s, [str |-> bytes])
    BY DEF ReadBytes
  <1>2. PICK c : c = Head(todo[s])
    OBVIOUS
  <1>3. ~Closed(s) /\ todo[s] # <<>> /\ c.op = "recvBytes"
    BY <1>2 DEF ReadBytes, Calls
  <1>4. s \in Sides /\ p \in Sides /\ s # p /\ todo[s] \in Seq(Op)
    BY DEF Pair, TypesOK
  <1>5. /\ state' = state
        /\ DOMAIN todo' = Sides /\ todo'[s] = Tail(todo[s]) /\ todo'[p] = todo[p]
        /\ DOMAIN got' = Sides /\ got'[s] = Append(got[s], [str |-> bytes]) /\ got'[p] = got[p]
    BY <1>1, <1>4 DEF Field, TypesOK
  <1>6. /\ request' = request /\ done' = done
        /\ stream' \in [Sides -> Seq(Byte)] /\ stream'[p] = stream[p]
        /\ stream'[s] = SubSeq(stream[s], Len(bytes) + 1, Len(stream[s]))
        /\ stream[s] \in Seq(Byte) /\ bytes \in Seq(Byte)
        /\ bad' \in [Sides -> SUBSET {"part", "all"}] /\ bad'[p] = bad[p] /\ bad[s] \subseteq bad'[s]
        /\ bad'[s] = {} => Len(bytes) = c.size
    <2>1. Recv(s, c.size, bytes)
      BY <1>1, <1>2
    <2> QED BY <2>1, RecvEffect
  <1>7. todo'[s] \in Seq(Op) /\ (todo[s] \in Seq(ReadOps) => todo'[s] \in Seq(ReadOps))
    BY <1>3, <1>4, <1>5, TailTyped
  <1>8. DOMAIN state' = Sides
    BY <1>5 DEF TypesOK
  <1>9. TypesOK'
    BY <1>5, <1>6, <1>7, <1>8, TypesAfter
  <1>10. ~Writes(todo[s]) /\ Head(todo[s]).op \notin {"recvInt", "recvLength"}
    BY <1>2, <1>3 DEF Writes
  <1>12. ASSUME bad'[s] = {}, NEW m \in Seq(Fields), NEW stop \in 0 .. Len(m), NEW rest \in Seq(Byte),
                ReaderAt(m, stop, stream[s], got[s], todo[s], rest)
         PROVE  ReaderAt(m, stop, stream'[s], got'[s], todo'[s], rest)
    <2>1. Len(bytes) = c.size
      BY <1>6, <1>12
    <2>2. ReaderAt(m, stop, SubSeq(stream[s], Len(bytes) + 1, Len(stream[s])),
                   Append(got[s], [str |-> bytes]), Tail(todo[s]), rest)
      BY <1>2, <1>3, <1>6, <1>12, <2>1, ReaderBytes
    <2> QED BY <1>5, <1>6, <2>2
  <1> QED BY <1>3, <1>5, <1>6, <1>7, <1>9, <1>10, <1>12 DEF ReadOne

\* A write of s.
WroteOne(s, p) ==
  /\ TypesOK' /\ UNCHANGED <<request, state, got, done, bad>>
  /\ ~Closed(s) /\ Writes(todo[s])
  /\ todo'[s] = Tail(todo[s]) /\ todo'[p] = todo[p]
  /\ stream'[p] = stream[p] \o Head(todo[s]).bytes /\ stream'[s] = stream[s]

(* A write is of bytes. *)
LEMMA WriteEffect ==
  ASSUME TypesOK, NEW s, NEW p, Pair(s, p), Write(s)
  PROVE  WroteOne(s, p)
  <1>1. s \in Sides /\ p \in Sides /\ s # p /\ Peer[s] = p
    BY DEF Pair
  <1>2. UNCHANGED <<request, state, got, done, bad>> /\ ~Closed(s) /\ Writes(todo[s])
    BY DEF Write, Calls, Writes
  <1>3. todo[s] \in Seq(Op) /\ todo[s] # <<>>
    BY <1>1, <1>2 DEF TypesOK, Writes
  <1>4. PICK c : c = Head(todo[s])
    OBVIOUS
  <1>5. c \in Op /\ Tail(todo[s]) \in Seq(Op)
    BY <1>3, <1>4, TailTyped
  <1>6. c \in WriteOp
    <2>1. c.op \in {"writeInt", "writeBytes"}
      BY <1>2, <1>4 DEF Writes
    <2> QED BY <1>5, <2>1 DEF Op, ReadOps
  <1>7. c.bytes \in Seq(Byte)
    BY <1>6 DEF WriteOp
  <1>8. PICK a : a = stream[p]
    OBVIOUS
  <1>9. PICK b : b = a \o c.bytes
    OBVIOUS
  <1>10. stream \in [Sides -> Seq(Byte)] /\ b \in Seq(Byte)
    <2>1. stream \in [Sides -> Seq(Byte)]
      BY DEF TypesOK
    <2>2. a \in Seq(Byte)
      BY <1>1, <1>8, <2>1
    <2> QED BY <1>7, <1>9, <2>1, <2>2, ConcatProperties
  <1>11. stream' = [stream EXCEPT ![p] = b]
    BY <1>1, <1>4, <1>8, <1>9 DEF Write
  <1>12. stream' \in [Sides -> Seq(Byte)] /\ stream'[p] = b /\ stream'[s] = stream[s]
    BY <1>1, <1>10, <1>11
  <1>13. DOMAIN todo' = Sides /\ todo'[s] = Tail(todo[s]) /\ todo'[p] = todo[p]
    <2>1. todo' = [todo EXCEPT ![s] = Tail(@)] /\ DOMAIN todo = Sides
      BY DEF Write, TypesOK
    <2> QED BY <1>1, <2>1
  <1>14. DOMAIN state' = Sides /\ DOMAIN got' = Sides /\ bad' \in [Sides -> SUBSET {"part", "all"}]
    BY <1>2 DEF TypesOK
  <1>15. TypesOK'
    BY <1>2, <1>5, <1>12, <1>13, <1>14, TypesAfter
  <1> QED BY <1>2, <1>4, <1>8, <1>9, <1>12, <1>13, <1>15 DEF WroteOne

\* A side ends: what it has not done yet it never does.
Ends(s, p) ==
  /\ TypesOK' /\ UNCHANGED <<request, stream, got, done, bad>>
  /\ state'[p] = state[p] /\ todo'[p] = todo[p] /\ todo'[s] = <<>>
  /\ state'[s] \in {"error", "dead", "closed"}

\* A write of a string fails, and the side goes on.
Skips(s, p) ==
  /\ TypesOK' /\ UNCHANGED <<request, state, stream, got, done, bad>>
  /\ ~Closed(s) /\ Closed(p) /\ Writes(todo[s])
  /\ todo'[s] = Tail(todo[s]) /\ todo'[p] = todo[p]

(* An exception ends a side. *)
LEMMA ThrowEffect ==
  ASSUME TypesOK, NEW s, NEW p, Pair(s, p), Throw(s), UNCHANGED <<request, stream, got, done, bad>>
  PROVE  Ends(s, p)
  <1>1. s \in Sides /\ p \in Sides /\ s # p
    BY DEF Pair
  <1>2. /\ DOMAIN state' = Sides /\ state'[p] = state[p]
        /\ state'[s] = IF s = "client" THEN "error" ELSE "closed"
        /\ DOMAIN todo' = Sides /\ todo'[s] = <<>> /\ todo'[p] = todo[p]
    BY <1>1 DEF Throw, TypesOK
  <1>3. state'.client \in ClientStates /\ state'.server \in ServerStates
    BY <1>2 DEF TypesOK, ClientStates, ServerStates, Pair, Sides
  <1>4. \A x \in Sides : todo'[x] \in Seq(Op)
    <2>1. todo[p] \in Seq(Op) /\ Sides = {s, p}
      BY DEF TypesOK, Pair
    <2> QED BY <1>2, <2>1, EmptySeq
  <1>5. TypesOK'
    BY <1>2, <1>3, <1>4 DEF TypesOK
  <1> QED BY <1>2, <1>5 DEF Ends

(* A write that fails ends a side, or is skipped. *)
LEMMA WriteFailsEffect ==
  ASSUME TypesOK, NEW s, NEW p, Pair(s, p), WriteFails(s)
  PROVE  Ends(s, p) \/ Skips(s, p)
  <1>1. UNCHANGED <<request, stream, got, done, bad>> /\ Reset(s)
    BY DEF WriteFails
  <1>2. CASE Throw(s)
    BY <1>1, <1>2, ThrowEffect
  <1>3. CASE Calls(s, "writeBytes") /\ todo' = [todo EXCEPT ![s] = Tail(@)] /\ UNCHANGED state
    <2>1. s \in Sides /\ p \in Sides /\ s # p /\ Closed(p)
      BY <1>1 DEF Pair, Reset
    <2>2. ~Closed(s) /\ Writes(todo[s])
      BY <1>3 DEF Calls, Writes
    <2>3. todo[s] \in Seq(Op) /\ todo[s] # <<>>
      BY <2>1, <2>2 DEF TypesOK, Writes
    <2>4. Tail(todo[s]) \in Seq(Op)
      BY <2>3, TailTyped
    <2>5. DOMAIN todo' = Sides /\ todo'[s] = Tail(todo[s]) /\ todo'[p] = todo[p]
      BY <1>3, <2>1 DEF TypesOK
    <2>6. /\ DOMAIN state' = Sides /\ DOMAIN got' = Sides /\ bad' \in [Sides -> SUBSET {"part", "all"}]
          /\ stream' \in [Sides -> Seq(Byte)]
      BY <1>1, <1>3 DEF TypesOK
    <2>7. TypesOK'
      BY <1>1, <1>3, <2>4, <2>5, <2>6, TypesAfter
    <2> QED BY <1>1, <1>3, <2>1, <2>2, <2>5, <2>7 DEF Skips
  <1> QED BY <1>2, <1>3 DEF WriteFails

(* A recv that fails ends a side. *)
LEMMA RecvFailsEffect ==
  ASSUME TypesOK, NEW s, NEW p, Pair(s, p), RecvFails(s)
  PROVE  Ends(s, p)
  <1>1. UNCHANGED <<request, stream, got, done, bad>> /\ Throw(s)
    BY DEF RecvFails
  <1> QED BY <1>1, ThrowEffect

(* So does the death of the client, or the end of the request's thread. *)
LEMMA EndEffect ==
  ASSUME TypesOK
  PROVE  /\ ClientDies => Ends("client", "server")
         /\ CloseConnection => Ends("server", "client")
  <1>1. ASSUME ClientDies
        PROVE  Ends("client", "server")
    <2>1. /\ UNCHANGED <<request, stream, got, done, bad>>
          /\ DOMAIN state' = Sides /\ state'.client = "dead" /\ state'.server = state.server
          /\ DOMAIN todo' = Sides /\ todo'.client = <<>> /\ todo'.server = todo.server
      BY <1>1 DEF ClientDies, TypesOK, Sides
    <2>2. \A x \in Sides : todo'[x] \in Seq(Op)
      <3>1. todo.server \in Seq(Op)
        BY DEF TypesOK, Sides
      <3> QED BY <2>1, <3>1, EmptySeq DEF Sides
    <2>3. TypesOK'
      BY <2>1, <2>2 DEF TypesOK, ClientStates
    <2> QED BY <2>1, <2>3 DEF Ends
  <1>2. ASSUME CloseConnection
        PROVE  Ends("server", "client")
    <2>1. /\ UNCHANGED <<request, todo, stream, got, done, bad>>
          /\ DOMAIN state' = Sides /\ state'.server = "closed" /\ state'.client = state.client
          /\ todo.server = <<>>
      BY <1>2 DEF CloseConnection, Idle, TypesOK, Sides
    <2>2. TypesOK'
      BY <2>1 DEF TypesOK, ServerStates
    <2> QED BY <2>1, <2>2 DEF Ends
  <1> QED BY <1>1, <1>2

-----------------------------------------------------------------------------
(* The inductive invariant.                                                *)

\* The client has still to write rest of what it asks for, if it is alive.
ClientWrites(r, st, t, rest) ==
  st = "running" => WriterAt(Asked(r), AnswerRead(r.code), t, rest)

\* The main thread reads two fields, and the request's thread all.
StopAt(r, st) == IF st = "accept" THEN 2 ELSE Len(Asked(r))

\* Before there is an answer the client has none.
Silent ==
  done = <<>> /\ bad.client = {} =>
    /\ stream.client = <<>> /\ got.client = <<>>
    /\ \E rest \in Seq(Byte) : ClientWrites(request, state.client, todo.client, rest)

\* While the server reads, it has not done anything, nor has the client
\* missed anything.
First == state.server \in {"accept", "args"} => done = <<>> /\ bad.client = {}
ReadsFirst == done = <<>> => todo.server \in Seq(ReadOps)

\* An operation is the last thing but the answer.
Once ==
  done # <<>> => state.server \in {"reply", "closed", "dead"} /\ done[1].reply \in Seq(Fields)

\* It is the one that was asked for.
AskedTrue == bad.server = {} /\ done # <<>> => done[1].asked = Asked(request)

\* What the server has read, what has arrived, and what the client has still to
\* write are what the client asks for.
Asking ==
  bad.server = {} /\ state.server \in {"accept", "args"} =>
    \E rest \in Seq(Byte) :
      /\ ReaderAt(Asked(request), StopAt(request, state.server), stream.server, got.server,
                  todo.server, rest)
      /\ ClientWrites(request, state.client, todo.client, rest)

\* The same of the answer.
Answering ==
  done # <<>> /\ bad.server = {} /\ bad.client = {} /\ state.client = "running" =>
    \E rest \in Seq(Byte) :
      /\ ReaderAt(done[1].reply, Len(done[1].reply), stream.client, got.client, todo.client, rest)
      /\ state.server = "reply" => WriterAt(done[1].reply, <<>>, todo.server, rest)

\* The client has ended with the answer.
Answered ==
  bad.server = {} /\ bad.client = {} /\ state.client \in {"ok", "refused"}
    /\ request.code # END_CLIENT_DIALOG =>
      /\ done # <<>> /\ got.client = done[1].reply
      /\ state.client = Outcome(request.code, done[1].reply)

ProtocolInv ==
  /\ TypesOK /\ Silent /\ First /\ ReadsFirst /\ Once /\ AskedTrue /\ Asking /\ Answering /\ Answered

(* A side that has not ended is in one of the states of a dialog. *)
LEMMA OpenStates ==
  ASSUME TypesOK
  PROVE  /\ ~Closed("client") => state.client = "running"
         /\ Closed("client") => state.client # "running"
         /\ ~Closed("server") => state.server \in {"accept", "args", "reply", "abandoned"}
         /\ Closed("server") => state.server \notin {"accept", "args", "reply", "abandoned"}
  BY DEF TypesOK, Closed, ClientStates, ServerStates

(* What is asked for is a message, of which the main thread reads a part. *)
LEMMA AskedMessage ==
  ASSUME TypesOK, NEW st
  PROVE  /\ Asked(request) \in Seq(Fields) /\ StopAt(request, st) \in 0 .. Len(Asked(request))
         /\ AnswerRead(request.code) \in Seq(ReadOps) /\ request.code \in 1 .. 11
  <1>1. request \in Requests
    BY DEF TypesOK
  <1>2. /\ request.code \in 1 .. 11 /\ Asked(request) \in Seq(Fields)
        /\ Len(Asked(request)) = 2 + StringsSent(request.code)
    BY <1>1, AskedFacts
  <1>3. StringsSent(request.code) \in 0 .. 2
    BY <1>2, StringsAgree
  <1>4. StopAt(request, st) \in 0 .. Len(Asked(request))
    BY <1>2, <1>3 DEF StopAt
  <1>5. AnswerRead(request.code) \in Seq(ReadOps)
    BY <1>2, AnswerFacts
  <1> QED BY <1>2, <1>4, <1>5

(* What has been read of a message can be read on from there ... *)
LEMMA ReaderContinues ==
  ASSUME NEW m \in Seq(Fields), NEW stop \in 0 .. Len(m), NEW stop2 \in stop .. Len(m),
         NEW st, NEW g, NEW rest, ReaderAt(m, stop, st, g, <<>>, rest)
  PROVE  ReaderAt(m, stop2, st, g, Reads(m, stop, stop2), rest)
  <1>1. PICK i \in 0 .. stop :
          /\ g = SubSeq(m, 1, i)
          /\ ReaderBefore(m, i, stop, st, <<>>, rest) \/ ReaderInside(m, i, stop, st, <<>>, rest)
    BY DEF ReaderAt
  <1>2. i = stop /\ ReaderBefore(m, i, stop, st, <<>>, rest)
    BY <1>1, ReaderFacts
  <1>3. stop \in 0 .. stop2
    BY MessageFacts
  <1>4. ReaderBefore(m, stop, stop2, st, Reads(m, stop, stop2), rest)
    BY <1>2 DEF ReaderBefore
  <1> QED BY <1>1, <1>2, <1>3, <1>4 DEF ReaderAt

(* ... and at its end nothing is left. *)
LEMMA ReaderEnds ==
  ASSUME NEW m \in Seq(Fields), NEW st \in Seq(Byte), NEW g, NEW rest \in Seq(Byte),
         ReaderAt(m, Len(m), st, g, <<>>, rest)
  PROVE  g = m /\ rest = <<>>
  <1>1. PICK i \in 0 .. Len(m) :
          /\ g = SubSeq(m, 1, i)
          /\ ReaderBefore(m, i, Len(m), st, <<>>, rest) \/ ReaderInside(m, i, Len(m), st, <<>>, rest)
    BY DEF ReaderAt
  <1>2. Len(m) \in 0 .. Len(m)
    BY MessageFacts
  <1>3. i = Len(m) /\ ReaderBefore(m, i, Len(m), st, <<>>, rest)
    BY <1>1, <1>2, ReaderFacts
  <1>4. st \o rest = <<>>
    BY <1>3, MessageFacts DEF ReaderBefore
  <1>5. rest = <<>>
    BY <1>4
  <1>6. g = m
    BY <1>1, <1>3, SubSeqFull
  <1> QED BY <1>5, <1>6

(* A reader at the beginning of a message, and its writer. *)
LEMMA MessageBegins ==
  ASSUME NEW m \in Seq(Fields), NEW stop \in 0 .. Len(m), NEW next \in Seq(ReadOps)
  PROVE  /\ BytesAfter(m, 0) \in Seq(Byte)
         /\ ReaderAt(m, stop, <<>>, <<>>, Reads(m, 0, stop), BytesAfter(m, 0))
         /\ WriterAt(m, next, OpsAfter(m, 0) \o next, BytesAfter(m, 0))
  <1>1. Len(m) \in Nat /\ 0 \in 0 .. stop /\ 0 \in 0 .. Len(m)
    BY MessageFacts
  <1>2. PICK b : b = BytesAfter(m, 0)
    OBVIOUS
  <1>3. b \in Seq(Byte)
    BY <1>1, <1>2, MessageFacts
  <1>4. <<>> \o b = b
    BY <1>3, ConcatEmptySeq
  <1>5. ReaderBefore(m, 0, stop, <<>>, Reads(m, 0, stop), b)
    BY <1>2, <1>4 DEF ReaderBefore
  <1>6. SubSeq(m, 1, 0) = <<>>
    OBVIOUS
  <1>7. WriterBefore(m, 0, next, OpsAfter(m, 0) \o next, b)
    BY <1>2 DEF WriterBefore
  <1> QED BY <1>1, <1>2, <1>3, <1>5, <1>6, <1>7 DEF ReaderAt, WriterAt

(* The invariant holds before anything is read or written. *)
LEMMA ProtocolInit ==
  ASSUME Init
  PROVE  ProtocolInv
  <1>1. /\ request \in Requests /\ state.client = "running" /\ state.server = "accept"
        /\ DOMAIN state = Sides /\ DOMAIN todo = Sides /\ DOMAIN got = Sides
        /\ todo.client = Dialog(request) /\ todo.server = RecvInt \o RecvInt
        /\ stream.client = <<>> /\ stream.server = <<>> /\ got.client = <<>> /\ got.server = <<>>
        /\ done = <<>> /\ bad.client = {} /\ bad.server = {}
    BY DEF Init, Sides
  <1>2. PICK m : m = Asked(request)
    OBVIOUS
  <1>3. PICK ar : ar = AnswerRead(request.code)
    OBVIOUS
  <1>4. /\ request.code \in 1 .. 11 /\ m \in Seq(Fields)
        /\ Len(m) = 2 + StringsSent(request.code) /\ StringsSent(request.code) \in 0 .. 2
    BY <1>1, <1>2, AskedFacts, StringsAgree
  <1>5. ar \in Seq(ReadOps) /\ ar \in Seq(Op)
    BY <1>3, <1>4, AnswerFacts, SeqMonotonic DEF Op
  <1>6. Dialog(request) = OpsAfter(m, 0) \o ar /\ RecvInt \o RecvInt = Reads(m, 0, 2)
    BY <1>1, <1>2, <1>3, DialogFacts
  <1>7. 2 \in 0 .. Len(m)
    BY <1>4
  <1>8. /\ BytesAfter(m, 0) \in Seq(Byte)
        /\ ReaderAt(m, 2, <<>>, <<>>, todo.server, BytesAfter(m, 0))
        /\ WriterAt(m, ar, todo.client, BytesAfter(m, 0))
    BY <1>1, <1>4, <1>5, <1>6, <1>7, MessageBegins
  <1>9. todo.client \in Seq(Op)
    BY <1>4, <1>5, <1>8, WriterFacts
  <1>10. todo.server \in Seq(ReadOps) /\ todo.server \in Seq(Op)
    BY <1>4, <1>7, <1>8, ReaderReads, SeqMonotonic DEF Op
  <1>11. TypesOK
    <2>1. stream \in [Sides -> Seq(Byte)] /\ bad \in [Sides -> SUBSET {"part", "all"}]
      BY EmptySeq DEF Init
    <2>2. \A s \in Sides : todo[s] \in Seq(Op)
      BY <1>9, <1>10 DEF Sides
    <2> QED BY <1>1, <2>1, <2>2 DEF TypesOK, ClientStates, ServerStates
  <1>12. \A st : ClientWrites(request, st, todo.client, BytesAfter(m, 0))
    BY <1>2, <1>3, <1>8 DEF ClientWrites
  <1>13. Asking
    BY <1>1, <1>2, <1>8, <1>12 DEF Asking, StopAt
  <1>14. Silent
    BY <1>1, <1>8, <1>12 DEF Silent
  <1> QED BY <1>1, <1>10, <1>11, <1>13, <1>14
          DEF ProtocolInv, First, ReadsFirst, Once, AskedTrue, Answering, Answered

(* The invariant outlives the client ... *)
LEMMA ClientEndsKeeps ==
  ASSUME ProtocolInv, Ends("client", "server")
  PROVE  ProtocolInv'
  <1>1. /\ TypesOK' /\ request' = request /\ stream' = stream /\ got' = got /\ done' = done /\ bad' = bad
        /\ state'.server = state.server /\ todo'.server = todo.server
        /\ state'.client \in {"error", "dead", "closed"}
    BY DEF Ends
  <1>2. \A rest : ClientWrites(request, state'.client, todo'.client, rest)
    BY <1>1 DEF ClientWrites
  <1>3. Silent'
    BY <1>1, <1>2, EmptySeq DEF ProtocolInv, Silent
  <1>4. First' /\ ReadsFirst' /\ Once' /\ AskedTrue'
    BY <1>1 DEF ProtocolInv, First, ReadsFirst, Once, AskedTrue
  <1>5. Asking'
    BY <1>1, <1>2 DEF ProtocolInv, Asking
  <1>6. Answering' /\ Answered'
    BY <1>1 DEF Answering, Answered
  <1> QED BY <1>1, <1>3, <1>4, <1>5, <1>6 DEF ProtocolInv

(* ... and the server. *)
LEMMA ServerEndsKeeps ==
  ASSUME ProtocolInv, Ends("server", "client")
  PROVE  ProtocolInv'
  <1>1. /\ TypesOK' /\ request' = request /\ stream' = stream /\ got' = got /\ done' = done /\ bad' = bad
        /\ state'.client = state.client /\ todo'.client = todo.client /\ todo'.server = <<>>
        /\ state'.server \in {"error", "dead", "closed"} /\ state'.server # "error"
    BY DEF Ends, TypesOK, ServerStates
  <1>2. Silent'
    BY <1>1 DEF ProtocolInv, Silent
  <1>3. First' /\ Asking'
    BY <1>1 DEF First, Asking
  <1>4. ReadsFirst'
    BY <1>1, EmptySeq DEF ReadsFirst
  <1>5. Once' /\ AskedTrue' /\ Answered'
    BY <1>1 DEF ProtocolInv, Once, AskedTrue, Answered
  <1>6. Answering'
    BY <1>1 DEF ProtocolInv, Answering
  <1> QED BY <1>1, <1>2, <1>3, <1>4, <1>5, <1>6 DEF ProtocolInv

(* What the client has still to ask for, after one of its writes. *)
LEMMA ClientGoesOn ==
  ASSUME TypesOK, NEW rest \in Seq(Byte), ClientWrites(request, state.client, todo.client, rest),
         ~Closed("client"), Writes(todo.client)
  PROVE  \E rest2 \in Seq(Byte) :
           /\ rest = Head(todo.client).bytes \o rest2 /\ Head(todo.client).bytes \in Seq(Byte)
           /\ ClientWrites(request, state.client, Tail(todo.client), rest2)
  <1>1. WriterAt(Asked(request), AnswerRead(request.code), todo.client, rest)
    BY OpenStates DEF ClientWrites
  <1>2. WriterGoesOn(Asked(request), AnswerRead(request.code), todo.client, rest)
    BY <1>1, AskedMessage, WriterFacts
  <1> QED BY <1>2 DEF WriterGoesOn, ClientWrites

(* A client that is to read has nothing left to ask for. *)
LEMMA ClientReadsAnswer ==
  ASSUME TypesOK, NEW rest \in Seq(Byte), ClientWrites(request, state.client, todo.client, rest),
         state.client = "running"
  PROVE  /\ ~Writes(todo.client) => todo.client = AnswerRead(request.code)
         /\ rest = <<>> => todo.client = AnswerRead(request.code)
  <1>1. WriterAt(Asked(request), AnswerRead(request.code), todo.client, rest)
    BY DEF ClientWrites
  <1> QED BY <1>1, AskedMessage, WriterFacts

(* Reads are not writes. *)
LEMMA ReadsDoNotWrite ==
  ASSUME NEW t \in Seq(ReadOps)
  PROVE  ~Writes(t)
  <1>1. t # <<>> => Head(t) \in ReadOps
    OBVIOUS
  <1> QED BY <1>1 DEF Writes, ReadOps

(* Once the operation has run, the client only reads. *)
LEMMA ReadsAfterOperation ==
  ASSUME ProtocolInv, done # <<>>, bad.server = {}, bad.client = {}, state.client = "running"
  PROVE  ~Writes(todo.client)
  <1>1. PICK rest \in Seq(Byte) :
          ReaderAt(done[1].reply, Len(done[1].reply), stream.client, got.client, todo.client, rest)
    BY DEF ProtocolInv, Answering
  <1>2. done[1].reply \in Seq(Fields)
    BY DEF ProtocolInv, Once
  <1>3. Len(done[1].reply) \in 0 .. Len(done[1].reply)
    BY <1>2, MessageFacts
  <1>4. todo.client \in Seq(ReadOps)
    BY <1>1, <1>2, <1>3, ReaderReads
  <1> QED BY <1>4, ReadsDoNotWrite

(* The client writes, and the server has yet to read it. *)
LEMMA ClientWriteKeeps ==
  ASSUME ProtocolInv, WroteOne("client", "server")
  PROVE  ProtocolInv'
  <1>1. /\ TypesOK' /\ request' = request /\ state' = state /\ got' = got /\ done' = done /\ bad' = bad
        /\ ~Closed("client") /\ Writes(todo.client)
        /\ todo'.client = Tail(todo.client) /\ todo'.server = todo.server
        /\ stream'.server = stream.server \o Head(todo.client).bytes /\ stream'.client = stream.client
    BY DEF WroteOne
  <1>2. TypesOK /\ state.client = "running"
    BY <1>1, OpenStates DEF ProtocolInv
  <1>3. Silent'
    <2>1. ASSUME done = <<>>, bad.client = {}
          PROVE  \E rest \in Seq(Byte) : ClientWrites(request, state.client, Tail(todo.client), rest)
      <3>1. PICK rest \in Seq(Byte) : ClientWrites(request, state.client, todo.client, rest)
        BY <2>1 DEF ProtocolInv, Silent
      <3> QED BY <1>1, <1>2, <3>1, ClientGoesOn
    <2> QED BY <1>1, <2>1 DEF ProtocolInv, Silent
  <1>4. First' /\ ReadsFirst' /\ Once' /\ AskedTrue'
    BY <1>1 DEF ProtocolInv, First, ReadsFirst, Once, AskedTrue
  <1>5. Asking'
    <2>1. ASSUME bad.server = {}, state.server \in {"accept", "args"}
          PROVE  \E rest \in Seq(Byte) :
                   /\ ReaderAt(Asked(request), StopAt(request, state.server), stream'.server, got.server,
                               todo.server, rest)
                   /\ ClientWrites(request, state.client, Tail(todo.client), rest)
      <3>1. PICK rest \in Seq(Byte) :
              /\ ReaderAt(Asked(request), StopAt(request, state.server), stream.server, got.server,
                          todo.server, rest)
              /\ ClientWrites(request, state.client, todo.client, rest)
        BY <2>1 DEF ProtocolInv, Asking
      <3>2. PICK rest2 \in Seq(Byte) :
              /\ rest = Head(todo.client).bytes \o rest2 /\ Head(todo.client).bytes \in Seq(Byte)
              /\ ClientWrites(request, state.client, Tail(todo.client), rest2)
        BY <1>1, <1>2, <3>1, ClientGoesOn
      <3>3. stream.server \in Seq(Byte)
        BY <1>2 DEF TypesOK, Sides
      <3>4. /\ Asked(request) \in Seq(Fields)
            /\ StopAt(request, state.server) \in 0 .. Len(Asked(request))
        BY <1>2, AskedMessage
      <3>5. ReaderAt(Asked(request), StopAt(request, state.server),
                     stream.server \o Head(todo.client).bytes, got.server, todo.server, rest2)
        BY <3>1, <3>2, <3>3, <3>4, ReaderArrives
      <3> QED BY <1>1, <3>2, <3>5
    <2> QED BY <1>1, <2>1 DEF Asking
  <1>6. Answering'
    BY <1>1, <1>2, ReadsAfterOperation DEF Answering
  <1>7. Answered'
    BY <1>1, <1>2 DEF Answered
  <1> QED BY <1>1, <1>3, <1>4, <1>5, <1>6, <1>7 DEF ProtocolInv

(* The server writes, and the client has yet to read it. *)
LEMMA ServerWriteKeeps ==
  ASSUME ProtocolInv, WroteOne("server", "client")
  PROVE  ProtocolInv'
  <1>1. /\ TypesOK' /\ request' = request /\ state' = state /\ got' = got /\ done' = done /\ bad' = bad
        /\ ~Closed("server") /\ Writes(todo.server)
        /\ todo'.server = Tail(todo.server) /\ todo'.client = todo.client
        /\ stream'.client = stream.client \o Head(todo.server).bytes /\ stream'.server = stream.server
    BY DEF WroteOne
  <1>2. TypesOK
    BY DEF ProtocolInv
  <1>3. done # <<>>
    BY <1>1, ReadsDoNotWrite DEF ProtocolInv, ReadsFirst
  <1>4. state.server = "reply" /\ done[1].reply \in Seq(Fields)
    BY <1>1, <1>2, <1>3, OpenStates DEF ProtocolInv, Once
  <1>5. Silent' /\ First' /\ ReadsFirst' /\ Asking'
    BY <1>1, <1>3, <1>4 DEF Silent, First, ReadsFirst, Asking
  <1>6. Once' /\ AskedTrue' /\ Answered'
    BY <1>1 DEF ProtocolInv, Once, AskedTrue, Answered
  <1>7. Answering'
    <2>1. ASSUME bad.server = {}, bad.client = {}, state.client = "running"
          PROVE  \E rest \in Seq(Byte) :
                   /\ ReaderAt(done[1].reply, Len(done[1].reply), stream'.client, got.client, todo.client, rest)
                   /\ WriterAt(done[1].reply, <<>>, Tail(todo.server), rest)
      <3>1. PICK m : m = done[1].reply
        OBVIOUS
      <3>2. PICK rest \in Seq(Byte) :
              /\ ReaderAt(m, Len(m), stream.client, got.client, todo.client, rest)
              /\ WriterAt(m, <<>>, todo.server, rest)
        BY <1>3, <1>4, <2>1, <3>1 DEF ProtocolInv, Answering
      <3>3. m \in Seq(Fields) /\ Len(m) \in 0 .. Len(m)
        BY <1>4, <3>1, MessageFacts
      <3>4. WriterGoesOn(m, <<>>, todo.server, rest)
        BY <1>1, <3>2, <3>3, WriterFacts, EmptySeq
      <3>5. PICK rest2 \in Seq(Byte) :
              /\ rest = Head(todo.server).bytes \o rest2 /\ Head(todo.server).bytes \in Seq(Byte)
              /\ WriterAt(m, <<>>, Tail(todo.server), rest2)
        BY <3>4 DEF WriterGoesOn
      <3>6. stream.client \in Seq(Byte)
        BY <1>2 DEF TypesOK, Sides
      <3>7. ReaderAt(m, Len(m), stream.client \o Head(todo.server).bytes, got.client, todo.client, rest2)
        BY <3>2, <3>3, <3>5, <3>6, ReaderArrives
      <3> QED BY <1>1, <3>1, <3>5, <3>7
    <2> QED BY <1>1, <2>1 DEF Answering
  <1> QED BY <1>1, <1>5, <1>6, <1>7 DEF ProtocolInv

(* The client skips a string that nobody will read. *)
LEMMA ClientSkipKeeps ==
  ASSUME ProtocolInv, Skips("client", "server")
  PROVE  ProtocolInv'
  <1>1. /\ TypesOK' /\ request' = request /\ state' = state /\ got' = got /\ done' = done /\ bad' = bad
        /\ stream' = stream /\ ~Closed("client") /\ Closed("server") /\ Writes(todo.client)
        /\ todo'.client = Tail(todo.client) /\ todo'.server = todo.server
    BY DEF Skips
  <1>2. TypesOK /\ state.client = "running" /\ state.server \notin {"accept", "args", "reply"}
    BY <1>1, OpenStates DEF ProtocolInv
  <1>3. Silent'
    <2>1. ASSUME done = <<>>, bad.client = {}
          PROVE  \E rest \in Seq(Byte) : ClientWrites(request, state.client, Tail(todo.client), rest)
      <3>1. PICK rest \in Seq(Byte) : ClientWrites(request, state.client, todo.client, rest)
        BY <2>1 DEF ProtocolInv, Silent
      <3> QED BY <1>1, <1>2, <3>1, ClientGoesOn
    <2> QED BY <1>1, <2>1 DEF ProtocolInv, Silent
  <1>4. First' /\ ReadsFirst' /\ Once' /\ AskedTrue'
    BY <1>1 DEF ProtocolInv, First, ReadsFirst, Once, AskedTrue
  <1>5. Asking' /\ Answered'
    BY <1>1, <1>2 DEF Asking, Answered
  <1>6. Answering'
    BY <1>1, <1>2, ReadsAfterOperation DEF Answering
  <1> QED BY <1>1, <1>3, <1>4, <1>5, <1>6 DEF ProtocolInv

(* So does the server. *)
LEMMA ServerSkipKeeps ==
  ASSUME ProtocolInv, Skips("server", "client")
  PROVE  ProtocolInv'
  <1>1. /\ TypesOK' /\ request' = request /\ state' = state /\ got' = got /\ done' = done /\ bad' = bad
        /\ stream' = stream /\ ~Closed("server") /\ Closed("client") /\ Writes(todo.server)
        /\ todo'.server = Tail(todo.server) /\ todo'.client = todo.client
    BY DEF Skips
  <1>2. TypesOK /\ state.client # "running"
    BY <1>1, OpenStates DEF ProtocolInv
  <1>3. done # <<>>
    BY <1>1, ReadsDoNotWrite DEF ProtocolInv, ReadsFirst
  <1>4. state.server \notin {"accept", "args"}
    BY <1>3 DEF ProtocolInv, First
  <1>5. Silent' /\ First' /\ ReadsFirst' /\ Asking' /\ Answering'
    BY <1>1, <1>2, <1>3, <1>4 DEF Silent, First, ReadsFirst, Asking, Answering
  <1>6. Once' /\ AskedTrue' /\ Answered'
    BY <1>1 DEF ProtocolInv, Once, AskedTrue, Answered
  <1> QED BY <1>1, <1>5, <1>6 DEF ProtocolInv

(* The client does not read before the server answers, and then it reads the
   answer. *)
LEMMA ClientReadKeeps ==
  ASSUME ProtocolInv, ReadOne("client", "server")
  PROVE  ProtocolInv'
  <1>1. /\ TypesOK' /\ request' = request /\ done' = done
        /\ ~Closed("client") /\ todo.client # <<>> /\ ~Writes(todo.client)
        /\ state'.server = state.server /\ todo'.server = todo.server /\ stream'.server = stream.server
        /\ got'.server = got.server /\ bad'.server = bad.server
        /\ state'.client \in {state.client, "dead"} /\ bad.client \subseteq bad'.client
        /\ stream.client = <<>> /\ Head(todo.client).op \in {"recvInt", "recvLength"} =>
             bad'.client # {} /\ Closed("server")
    BY DEF ReadOne
  <1>2. TypesOK /\ state.client = "running"
    BY <1>1, OpenStates DEF ProtocolInv
  <1>3. ASSUME done = <<>>, bad.client = {}
        PROVE  bad'.client # {} /\ Closed("server")
    <2>1. PICK rest \in Seq(Byte) : ClientWrites(request, state.client, todo.client, rest)
      BY <1>3 DEF ProtocolInv, Silent
    <2>2. todo.client = AnswerRead(request.code)
      BY <1>1, <1>2, <2>1, ClientReadsAnswer
    <2>3. Head(todo.client).op \in {"recvInt", "recvLength"}
      BY <1>1, <1>2, <2>2, AskedMessage, AnswerFacts
    <2>4. stream.client = <<>>
      BY <1>3 DEF ProtocolInv, Silent
    <2> QED BY <1>1, <2>3, <2>4
  <1>4. state.server \notin {"accept", "args"}
    <2>1. state.server \in {"accept", "args"} => Closed("server")
      BY <1>3 DEF ProtocolInv, First
    <2> QED BY <1>2, <2>1, OpenStates
  <1>5. Silent'
    <2>1. ~(done = <<>> /\ bad'.client = {})
      BY <1>1, <1>3
    <2> QED BY <1>1, <2>1 DEF Silent
  <1>6. First' /\ Asking'
    BY <1>1, <1>4 DEF First, Asking
  <1>7. ReadsFirst' /\ Once' /\ AskedTrue'
    BY <1>1 DEF ProtocolInv, ReadsFirst, Once, AskedTrue
  <1>8. Answered'
    BY <1>1, <1>2 DEF Answered
  <1>9. Answering'
    <2>1. ASSUME done # <<>>, bad.server = {}, bad'.client = {}
          PROVE  \E rest \in Seq(Byte) :
                   /\ ReaderAt(done[1].reply, Len(done[1].reply), stream'.client, got'.client, todo'.client, rest)
                   /\ state.server = "reply" => WriterAt(done[1].reply, <<>>, todo.server, rest)
      <3>1. PICK m : m = done[1].reply
        OBVIOUS
      <3>2. bad.client = {}
        BY <1>1, <2>1
      <3>3. PICK rest \in Seq(Byte) :
              /\ ReaderAt(m, Len(m), stream.client, got.client, todo.client, rest)
              /\ state.server = "reply" => WriterAt(m, <<>>, todo.server, rest)
        BY <1>2, <2>1, <3>1, <3>2 DEF ProtocolInv, Answering
      <3>4. m \in Seq(Fields)
        BY <2>1, <3>1 DEF ProtocolInv, Once
      <3>5. Len(m) \in 0 .. Len(m)
        BY <3>4, MessageFacts
      <3>6. ReaderAt(m, Len(m), stream'.client, got'.client, todo'.client, rest)
        BY <2>1, <3>3, <3>4, <3>5 DEF ReadOne
      <3> QED BY <3>1, <3>3, <3>6
    <2> QED BY <1>1, <2>1 DEF Answering
  <1> QED BY <1>1, <1>5, <1>6, <1>7, <1>8, <1>9 DEF ProtocolInv

(* The server reads what the client asks for, and nothing after it. *)
LEMMA ServerReadKeeps ==
  ASSUME ProtocolInv, ReadOne("server", "client")
  PROVE  ProtocolInv'
  <1>1. /\ TypesOK' /\ request' = request /\ done' = done
        /\ ~Closed("server") /\ todo.server # <<>> /\ ~Writes(todo.server)
        /\ state'.client = state.client /\ todo'.client = todo.client /\ stream'.client = stream.client
        /\ got'.client = got.client /\ bad'.client = bad.client
        /\ state'.server \in {state.server, "dead"} /\ bad.server \subseteq bad'.server
        /\ todo.server \in Seq(ReadOps) => todo'.server \in Seq(ReadOps)
    BY DEF ReadOne
  <1>2. TypesOK
    BY DEF ProtocolInv
  <1>3. Silent' /\ First' /\ ReadsFirst'
    BY <1>1 DEF ProtocolInv, Silent, First, ReadsFirst
  <1>4. bad'.server = {} => bad.server = {}
    BY <1>1
  <1>5. Once' /\ AskedTrue'
    BY <1>1, <1>4 DEF ProtocolInv, Once, AskedTrue
  <1>6. Answered'
    BY <1>1, <1>4 DEF ProtocolInv, Answered
  <1>7. Asking'
    <2>1. ASSUME bad'.server = {}, state'.server \in {"accept", "args"}
          PROVE  \E rest \in Seq(Byte) :
                   /\ ReaderAt(Asked(request), StopAt(request, state'.server), stream'.server, got'.server,
                               todo'.server, rest)
                   /\ ClientWrites(request, state.client, todo.client, rest)
      <3>1. state'.server = state.server /\ bad.server = {}
        BY <1>1, <1>4, <2>1
      <3>2. PICK rest \in Seq(Byte) :
              /\ ReaderAt(Asked(request), StopAt(request, state.server), stream.server, got.server,
                          todo.server, rest)
              /\ ClientWrites(request, state.client, todo.client, rest)
        BY <2>1, <3>1 DEF ProtocolInv, Asking
      <3>3. /\ Asked(request) \in Seq(Fields)
            /\ StopAt(request, state.server) \in 0 .. Len(Asked(request))
        BY <1>2, AskedMessage
      <3>4. ReaderAt(Asked(request), StopAt(request, state.server), stream'.server, got'.server,
                     todo'.server, rest)
        BY <2>1, <3>2, <3>3 DEF ReadOne
      <3> QED BY <3>1, <3>2, <3>4
    <2> QED BY <1>1, <2>1 DEF Asking
  <1>8. Answering'
    <2>1. ASSUME done # <<>>, bad.server = {}, bad.client = {}, state.client = "running"
          PROVE  FALSE
      <3>1. state.server = "reply" /\ done[1].reply \in Seq(Fields)
        BY <1>1, <1>2, <2>1, OpenStates DEF ProtocolInv, Once
      <3>2. PICK rest \in Seq(Byte) : WriterAt(done[1].reply, <<>>, todo.server, rest)
        BY <2>1, <3>1 DEF ProtocolInv, Answering
      <3>3. todo.server = <<>>
        BY <1>1, <3>1, <3>2, WriterFacts, EmptySeq
      <3> QED BY <1>1, <3>3
    <2> QED BY <1>1, <1>4, <2>1 DEF Answering
  <1> QED BY <1>1, <1>3, <1>5, <1>6, <1>7, <1>8 DEF ProtocolInv

(* The client ends with the answer it has read. *)
LEMMA ClientEndKeeps ==
  ASSUME ProtocolInv, ClientEnds
  PROVE  ProtocolInv'
  <1>1. TypesOK
    BY DEF ProtocolInv
  <1>2. /\ state.client = "running" /\ todo.client = <<>>
        /\ request' = request /\ todo' = todo /\ stream' = stream /\ got' = got /\ done' = done /\ bad' = bad
    BY DEF ClientEnds, Idle
  <1>3. /\ DOMAIN state' = Sides /\ state'.server = state.server
        /\ state'.client = Outcome(request.code, got.client)
    BY <1>1 DEF ClientEnds, TypesOK, Sides
  <1>4. state'.client \in {"ok", "refused"}
    BY <1>3 DEF Outcome
  <1>5. TypesOK'
    BY <1>1, <1>2, <1>3, <1>4 DEF TypesOK, ClientStates
  <1>6. \A rest : ClientWrites(request, state'.client, todo.client, rest)
    BY <1>4 DEF ClientWrites
  <1>7. Silent'
    BY <1>2, <1>6, EmptySeq DEF ProtocolInv, Silent
  <1>8. First' /\ ReadsFirst' /\ Once' /\ AskedTrue'
    BY <1>2, <1>3 DEF ProtocolInv, First, ReadsFirst, Once, AskedTrue
  <1>9. Asking'
    BY <1>2, <1>3, <1>6 DEF ProtocolInv, Asking
  <1>10. Answering'
    BY <1>4 DEF Answering
  <1>11. Answered'
    <2>1. ASSUME bad.server = {}, bad.client = {}, request.code # END_CLIENT_DIALOG
          PROVE  done # <<>> /\ got.client = done[1].reply
      <3>1. ~Writes(todo.client)
        BY <1>2 DEF Writes
      <3>2. done # <<>>
        <4>1. ASSUME done = <<>>
              PROVE  FALSE
          <5>1. PICK rest \in Seq(Byte) : ClientWrites(request, state.client, todo.client, rest)
            BY <2>1, <4>1 DEF ProtocolInv, Silent
          <5>2. AnswerRead(request.code) = <<>>
            BY <1>1, <1>2, <3>1, <5>1, ClientReadsAnswer
          <5> QED BY <1>1, <2>1, <5>2, AskedMessage, AnswerFacts
        <4> QED BY <4>1
      <3>3. PICK m : m = done[1].reply
        OBVIOUS
      <3>4. PICK rest \in Seq(Byte) : ReaderAt(m, Len(m), stream.client, got.client, <<>>, rest)
        BY <1>2, <2>1, <3>2, <3>3 DEF ProtocolInv, Answering
      <3>5. m \in Seq(Fields) /\ stream.client \in Seq(Byte)
        BY <1>1, <3>2, <3>3 DEF ProtocolInv, Once, TypesOK, Sides
      <3>6. got.client = m
        BY <3>4, <3>5, ReaderEnds
      <3> QED BY <3>2, <3>3, <3>6
    <2> QED BY <1>2, <1>3, <2>1 DEF Answered
  <1> QED BY <1>5, <1>7, <1>8, <1>9, <1>10, <1>11 DEF ProtocolInv

(* The thread reads on from where the main thread has stopped. *)
LEMMA StartKeeps ==
  ASSUME ProtocolInv, StartThread
  PROVE  ProtocolInv'
  <1>1. TypesOK
    BY DEF ProtocolInv
  <1>2. /\ state.server = "accept" /\ todo.server = <<>> /\ done = <<>>
        /\ request' = request /\ stream' = stream /\ got' = got /\ done' = done /\ bad' = bad
    BY DEF StartThread, Idle, ProtocolInv, First
  <1>3. PICK n \in 0 .. 2 : n = StringsReceived(got.server[1].int)
    BY DEF StringsReceived
  <1>4. Times(n, RecvStlStr) \in Seq(ReadOps)
    BY TimesFacts
  <1>5. /\ DOMAIN state' = Sides /\ state'.client = state.client
        /\ DOMAIN todo' = Sides /\ todo'.client = todo.client
        /\ \/ state'.server \in {"closed", "abandoned"} /\ todo'.server = <<>>
           \/ state'.server = "args" /\ todo'.server = Times(n, RecvStlStr)
    BY <1>1, <1>2, <1>3 DEF StartThread, TypesOK, Sides
  <1>6. todo'.server \in Seq(ReadOps) /\ todo'.server \in Seq(Op)
    <2>1. todo'.server \in Seq(ReadOps)
      BY <1>4, <1>5, EmptySeq
    <2> QED BY <2>1, SeqMonotonic DEF Op
  <1>7. TypesOK'
    <2>1. \A s \in Sides : todo'[s] \in Seq(Op)
      BY <1>1, <1>5, <1>6 DEF TypesOK, Sides
    <2> QED BY <1>1, <1>2, <1>5, <2>1 DEF TypesOK, ServerStates
  <1>8. Silent' /\ AskedTrue' /\ Answered'
    BY <1>2, <1>5 DEF ProtocolInv, Silent, AskedTrue, Answered
  <1>9. First'
    BY <1>2 DEF ProtocolInv, First
  <1>10. ReadsFirst' /\ Once' /\ Answering'
    BY <1>2, <1>6 DEF ReadsFirst, Once, Answering
  <1>11. Asking'
    <2>1. ASSUME bad.server = {}, state'.server = "args"
          PROVE  \E rest \in Seq(Byte) :
                   /\ ReaderAt(Asked(request), Len(Asked(request)), stream.server, got.server,
                               todo'.server, rest)
                   /\ ClientWrites(request, state.client, todo.client, rest)
      <3>1. PICK m : m = Asked(request)
        OBVIOUS
      <3>2. /\ m \in Seq(Fields) /\ Len(m) = 2 + StringsSent(request.code) /\ request \in Requests
            /\ m[1] = [int |-> CodeSent(request.code)] /\ request.code \in 1 .. 11
        BY <1>1, <3>1, AskedFacts DEF TypesOK
      <3>3. StringsSent(request.code) \in 0 .. 2
        BY <3>2, StringsAgree
      <3>4. 2 \in 0 .. Len(m) /\ Len(m) \in 2 .. Len(m) /\ 1 \in 1 .. 2
        BY <3>2, <3>3
      <3>5. PICK rest \in Seq(Byte) :
              /\ ReaderAt(m, 2, stream.server, got.server, <<>>, rest)
              /\ ClientWrites(request, state.client, todo.client, rest)
        BY <1>2, <2>1, <3>1 DEF ProtocolInv, Asking, StopAt
      <3>6. got.server = SubSeq(m, 1, 2)
        BY <3>2, <3>4, <3>5, ReaderReads
      <3>7. got.server[1] = m[1]
        BY <3>2, <3>4, <3>6
      <3>8. got.server[1].int = CodeSent(request.code)
        BY <3>2, <3>7
      <3>9. Times(n, RecvStlStr) = Reads(m, 2, Len(m))
        BY <1>3, <3>1, <3>2, <3>8, DialogFacts
      <3>10. ReaderAt(m, Len(m), stream.server, got.server, Reads(m, 2, Len(m)), rest)
        BY <3>2, <3>4, <3>5, ReaderContinues
      <3> QED BY <1>5, <2>1, <3>1, <3>5, <3>9, <3>10
    <2>2. state'.server # "accept"
      BY <1>5
    <2> QED BY <1>2, <1>5, <2>1, <2>2 DEF Asking, StopAt
  <1> QED BY <1>7, <1>8, <1>9, <1>10, <1>11 DEF ProtocolInv

(* An operation has an answer for a client that waits for it. *)
LEMMA ReplyBegins ==
  ASSUME ProtocolInv, bad.server = {}, bad.client = {}, state.client = "running",
         state.server = "args", todo.server = <<>>, NEW reply \in Replies(got.server[1].int)
  PROVE  \E rest \in Seq(Byte) :
           /\ ReaderAt(reply, Len(reply), stream.client, got.client, todo.client, rest)
           /\ WriterAt(reply, <<>>, WriteReply(reply), rest)
  <1>1. TypesOK
    BY DEF ProtocolInv
  <1>2. PICK m : m = Asked(request)
    OBVIOUS
  <1>3. /\ m \in Seq(Fields) /\ request.code \in 1 .. 11 /\ m[1] = [int |-> CodeSent(request.code)]
    BY <1>1, <1>2, AskedFacts DEF TypesOK
  <1>4. PICK rest \in Seq(Byte) :
          /\ ReaderAt(m, Len(m), stream.server, got.server, <<>>, rest)
          /\ ClientWrites(request, state.client, todo.client, rest)
    BY <1>2 DEF ProtocolInv, Asking, StopAt
  <1>5. got.server = m /\ rest = <<>>
    <2>1. stream.server \in Seq(Byte)
      BY <1>1 DEF TypesOK, Sides
    <2> QED BY <1>3, <1>4, <2>1, ReaderEnds
  <1>6. reply \in Replies(CodeSent(request.code))
    BY <1>3, <1>5
  <1>7. todo.client = Reads(reply, 0, Len(reply))
    <2>1. todo.client = AnswerRead(request.code)
      BY <1>1, <1>4, <1>5, ClientReadsAnswer
    <2> QED BY <1>3, <1>6, <2>1, AnswerIsReply
  <1>8. stream.client = <<>> /\ got.client = <<>>
    BY DEF ProtocolInv, First, Silent
  <1>9. reply \in Seq(Fields) /\ Len(reply) \in 0 .. Len(reply)
    BY <1>6, RepliesShape, MessageFacts
  <1>10. WriteReply(reply) = OpsAfter(reply, 0) /\ WriteReply(reply) \in Seq(Op)
    BY <1>6, ReplyWritten
  <1>11. WriteReply(reply) = OpsAfter(reply, 0) \o <<>>
    BY <1>10, ConcatEmptySeq
  <1>12. /\ BytesAfter(reply, 0) \in Seq(Byte)
         /\ ReaderAt(reply, Len(reply), <<>>, <<>>, Reads(reply, 0, Len(reply)), BytesAfter(reply, 0))
         /\ WriterAt(reply, <<>>, OpsAfter(reply, 0) \o <<>>, BytesAfter(reply, 0))
    BY <1>9, MessageBegins, EmptySeq
  <1> QED BY <1>7, <1>8, <1>11, <1>12

(* The operation is the one that is asked for. *)
LEMMA OperateKeeps ==
  ASSUME ProtocolInv, Operate
  PROVE  ProtocolInv'
  <1>1. TypesOK
    BY DEF ProtocolInv
  <1>2. /\ state.server = "args" /\ todo.server = <<>> /\ done = <<>>
        /\ request' = request /\ stream' = stream /\ got' = got /\ bad' = bad
    BY DEF Operate, Idle, ProtocolInv, First
  <1>3. DOMAIN state' = Sides /\ state'.client = state.client /\ state'.server = "reply"
    BY <1>1 DEF Operate, TypesOK, Sides
  <1>4. CASE UNCHANGED <<done, todo>>
    <2>1. TypesOK'
      BY <1>1, <1>2, <1>3, <1>4 DEF TypesOK, ServerStates
    <2>2. Silent' /\ Answered'
      BY <1>2, <1>3, <1>4 DEF ProtocolInv, Silent, Answered
    <2>3. ReadsFirst'
      BY <1>2, <1>4 DEF ProtocolInv, ReadsFirst
    <2>4. First' /\ Once' /\ AskedTrue' /\ Asking' /\ Answering'
      BY <1>2, <1>3, <1>4 DEF First, Once, AskedTrue, Asking, Answering
    <2> QED BY <2>1, <2>2, <2>3, <2>4 DEF ProtocolInv
  <1>5. ASSUME NEW reply \in Replies(got.server[1].int),
               done' = <<[asked |-> got.server, reply |-> reply]>>,
               todo' = [todo EXCEPT !.server = WriteReply(reply)]
        PROVE  ProtocolInv'
    <2>1. done' # <<>> /\ done'[1].asked = got.server /\ done'[1].reply = reply
      BY <1>5
    <2>2. DOMAIN todo' = Sides /\ todo'.client = todo.client /\ todo'.server = WriteReply(reply)
      BY <1>1, <1>5 DEF TypesOK, Sides
    <2>3. reply \in Seq(Fields) /\ WriteReply(reply) \in Seq(Op)
      BY <1>5, RepliesShape, ReplyWritten
    <2>4. TypesOK'
      <3>1. \A s \in Sides : todo'[s] \in Seq(Op)
        BY <1>1, <2>2, <2>3 DEF TypesOK, Sides
      <3> QED BY <1>1, <1>2, <1>3, <2>2, <3>1 DEF TypesOK, ServerStates
    <2>5. Silent' /\ First' /\ ReadsFirst' /\ Asking'
      BY <1>3, <2>1 DEF Silent, First, ReadsFirst, Asking
    <2>6. Once'
      BY <1>3, <2>1, <2>3 DEF Once
    <2>7. AskedTrue'
      <3>1. ASSUME bad.server = {}
            PROVE  got.server = Asked(request)
        <4>1. PICK m : m = Asked(request)
          OBVIOUS
        <4>2. PICK rest \in Seq(Byte) : ReaderAt(m, Len(m), stream.server, got.server, <<>>, rest)
          BY <1>2, <3>1, <4>1 DEF ProtocolInv, Asking, StopAt
        <4>3. m \in Seq(Fields) /\ stream.server \in Seq(Byte)
          BY <1>1, <4>1, AskedMessage DEF TypesOK, Sides
        <4> QED BY <4>1, <4>2, <4>3, ReaderEnds
      <3> QED BY <1>2, <2>1, <3>1 DEF AskedTrue
    <2>8. Answering'
      <3>1. ASSUME bad.server = {}, bad.client = {}, state.client = "running"
            PROVE  \E rest \in Seq(Byte) :
                     /\ ReaderAt(reply, Len(reply), stream.client, got.client, todo.client, rest)
                     /\ WriterAt(reply, <<>>, WriteReply(reply), rest)
        BY <1>2, <1>5, <3>1, ReplyBegins
      <3> QED BY <1>2, <1>3, <2>1, <2>2, <3>1 DEF Answering
    <2>9. Answered'
      BY <1>2, <1>3 DEF ProtocolInv, Answered
    <2> QED BY <2>4, <2>5, <2>6, <2>7, <2>8, <2>9 DEF ProtocolInv
  <1> QED BY <1>4, <1>5 DEF Operate

(* Every step preserves the invariant. *)
LEMMA ProtocolStep ==
  ASSUME ProtocolInv, [Next]_vars
  PROVE  ProtocolInv'
  <1>1. TypesOK /\ Pair("client", "server") /\ Pair("server", "client")
    BY Pairs DEF ProtocolInv
  <1>2. CASE UNCHANGED vars
    <2>1. UNCHANGED <<request, state, todo, stream, got, done, bad>>
      BY <1>2 DEF vars
    <2>2. TypesOK' /\ Silent' /\ First' /\ ReadsFirst'
      BY <2>1 DEF ProtocolInv, TypesOK, Silent, First, ReadsFirst
    <2>3. Once' /\ AskedTrue' /\ Asking' /\ Answering' /\ Answered'
      BY <2>1 DEF ProtocolInv, Once, AskedTrue, Asking, Answering, Answered
    <2> QED BY <2>2, <2>3 DEF ProtocolInv
  <1>3. CASE ClientDies
    BY <1>1, <1>3, EndEffect, ClientEndsKeeps
  <1>4. CASE Socket("client")
    <2>1. CASE Write("client")
      BY <1>1, <2>1, WriteEffect, ClientWriteKeeps
    <2>2. CASE WriteFails("client")
      BY <1>1, <2>2, WriteFailsEffect, ClientEndsKeeps, ClientSkipKeeps
    <2>3. CASE ReadInt("client")
      BY <1>1, <2>3, ReadIntEffect, ClientReadKeeps
    <2>4. CASE ReadLength("client")
      BY <1>1, <2>4, ReadLengthEffect, ClientReadKeeps
    <2>5. CASE ReadBytes("client")
      BY <1>1, <2>5, ReadBytesEffect, ClientReadKeeps
    <2>6. CASE RecvFails("client")
      BY <1>1, <2>6, RecvFailsEffect, ClientEndsKeeps
    <2> QED BY <1>4, <2>1, <2>2, <2>3, <2>4, <2>5, <2>6 DEF Socket
  <1>5. CASE Socket("server")
    <2>1. CASE Write("server")
      BY <1>1, <2>1, WriteEffect, ServerWriteKeeps
    <2>2. CASE WriteFails("server")
      BY <1>1, <2>2, WriteFailsEffect, ServerEndsKeeps, ServerSkipKeeps
    <2>3. CASE ReadInt("server")
      BY <1>1, <2>3, ReadIntEffect, ServerReadKeeps
    <2>4. CASE ReadLength("server")
      BY <1>1, <2>4, ReadLengthEffect, ServerReadKeeps
    <2>5. CASE ReadBytes("server")
      BY <1>1, <2>5, ReadBytesEffect, ServerReadKeeps
    <2>6. CASE RecvFails("server")
      BY <1>1, <2>6, RecvFailsEffect, ServerEndsKeeps
    <2> QED BY <1>5, <2>1, <2>2, <2>3, <2>4, <2>5, <2>6 DEF Socket
  <1>6. CASE ClientEnds
    BY <1>6, ClientEndKeeps
  <1>7. CASE StartThread
    BY <1>7, StartKeeps
  <1>8. CASE Operate
    BY <1>8, OperateKeeps
  <1>9. CASE CloseConnection
    BY <1>1, <1>9, EndEffect, ServerEndsKeeps
  <1>10. Next => \/ ClientDies \/ ClientEnds \/ StartThread \/ Operate \/ CloseConnection
                \/ Socket("client") \/ Socket("server")
    BY DEF Next, SideStep, Sides
  <1> QED BY <1>2, <1>3, <1>4, <1>5, <1>6, <1>7, <1>8, <1>9, <1>10

(* In every reachable state what has been read, what has arrived and what is
   still to be written make the request, and then the answer. *)
THEOREM ProtocolInvariance == Spec => []ProtocolInv
  <1>1. Init => ProtocolInv
    BY ProtocolInit
  <1>2. ProtocolInv /\ [Next]_vars => ProtocolInv'
    BY ProtocolStep
  <1> QED BY <1>1, <1>2, PTL DEF Spec

(* As long as no read of the server has been torn or come up empty, the
   operation it runs is the one the client asks for; and as long as none of the
   client's has either, the client ends with that operation's answer. *)
THEOREM AnswersTrue == Spec => []AnswersAreTrue
  <1>1. ProtocolInv => AnswersAreTrue
    <2>1. ASSUME ProtocolInv, bad = [s \in Sides |-> {}]
          PROVE  bad.server = {} /\ bad.client = {}
      BY <2>1 DEF Sides
    <2> QED BY <2>1 DEF ProtocolInv, AskedTrue, Answered, AnswersAreTrue
  <1> QED BY <1>1, ProtocolInvariance, PTL

(* Whatever is lost or torn, a request runs one operation and no other. *)
THEOREM OneOperation == Spec => [][done # <<>> => UNCHANGED done]_vars
  <1>1. ASSUME ProtocolInv, [Next]_vars, done # <<>>
        PROVE  UNCHANGED done
    <2>1. CASE UNCHANGED vars
      BY <2>1 DEF vars
    <2>2. CASE ClientDies \/ ClientEnds \/ StartThread \/ CloseConnection
      BY <2>2 DEF ClientDies, ClientEnds, StartThread, CloseConnection
    <2>3. ASSUME NEW s \in Sides, Socket(s)
          PROVE  UNCHANGED done
      <3>1. CASE Write(s) \/ WriteFails(s) \/ RecvFails(s)
        BY <3>1 DEF Write, WriteFails, RecvFails
      <3>2. \A wanted, bytes : Recv(s, wanted, bytes) => UNCHANGED done
        BY DEF Recv
      <3>3. CASE ReadInt(s) \/ ReadLength(s) \/ ReadBytes(s)
        BY <3>2, <3>3 DEF ReadInt, ReadLength, ReadBytes
      <3> QED BY <2>3, <3>1, <3>3 DEF Socket
    <2>4. CASE Operate
      BY <1>1, <2>4 DEF Operate, Idle, ProtocolInv, First
    <2> QED BY <1>1, <2>1, <2>2, <2>3, <2>4 DEF Next, SideStep
  <1>2. ProtocolInv /\ [Next]_vars => [done # <<>> => UNCHANGED done]_vars
    BY <1>1
  <1> QED BY <1>2, ProtocolInvariance, PTL DEF Spec
=============================================================================
