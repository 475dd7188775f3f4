----------------------------- MODULE SignalsProofs -----------------------------
(***************************************************************************)
(* The binary header read back, and what peers hear of signals, for any    *)
(* names, types and contents, any listeners, and any sizes of the header   *)
(* that satisfy the module's assumption, those of the code among them.     *)
(***************************************************************************)
EXTENDS Signals, ConnectionProofs, SequenceTheorems

(***************************************************************************)
(* Cutting the middle out of a concatenation.                              *)
(***************************************************************************)
LEMMA MiddleOfConcat ==
  ASSUME NEW S, NEW s \in Seq(S), NEW t \in Seq(S), NEW u \in Seq(S)
  PROVE  /\ s \o t \o u \in Seq(S)
         /\ Len(s \o t \o u) = Len(s) + Len(t) + Len(u)
         /\ SubSeq(s \o t \o u, Len(s) + 1, Len(s) + Len(t)) = t
<1> DEFINE all == s \o t \o u
           m == SubSeq(all, Len(s) + 1, Len(s) + Len(t))
<1>0. Len(s) \in Nat /\ Len(t) \in Nat /\ Len(u) \in Nat
  BY LenProperties
<1>1. /\ s \o t \in Seq(S) /\ Len(s \o t) = Len(s) + Len(t)
      /\ \A i \in 1 .. Len(s) + Len(t) : (s \o t)[i] = IF i <= Len(s) THEN s[i] ELSE t[i - Len(s)]
  BY ConcatProperties
<1>2. /\ all \in Seq(S) /\ Len(all) = Len(s \o t) + Len(u)
      /\ \A i \in 1 .. Len(s \o t) + Len(u) :
           all[i] = IF i <= Len(s \o t) THEN (s \o t)[i] ELSE u[i - Len(s \o t)]
  BY <1>1, ConcatProperties
<1> HIDE DEF all
<1>3. \A i \in Len(s) + 1 .. Len(s) + Len(t) : all[i] = t[i - Len(s)]
  BY <1>0, <1>1, <1>2
<1>4. \A i \in Len(s) + 1 .. Len(s) + Len(t) : all[i] \in S
  BY <1>0, <1>1, <1>2, ElementOfSeq
<1>5. /\ m \in Seq(S) /\ Len(m) = IF Len(s) + 1 <= Len(s) + Len(t) THEN Len(t) ELSE 0
      /\ \A i \in 1 .. Len(t) : m[i] = all[Len(s) + i]
  <2>1. Len(s) + 1 \in Int /\ Len(s) + Len(t) \in Int
    BY <1>0
  <2>2. /\ m \in Seq(S)
        /\ Len(m) = IF Len(s) + 1 <= Len(s) + Len(t) THEN Len(s) + Len(t) - (Len(s) + 1) + 1 ELSE 0
        /\ \A i \in 1 .. Len(s) + Len(t) - (Len(s) + 1) + 1 : m[i] = all[Len(s) + 1 + i - 1]
    BY <1>4, <2>1, SubSeqProperties
  <2> HIDE DEF m
  <2>3. QED
    BY <1>0, <2>2
<1> HIDE DEF m
<1>6. Len(m) = Len(t) /\ \A i \in 1 .. Len(m) : m[i] = t[i]
  <2>1. Len(m) = Len(t)
    BY <1>0, <1>5
  <2>2. ASSUME NEW i \in 1 .. Len(t) PROVE m[i] = t[i]
    <3>1. Len(s) + i \in Len(s) + 1 .. Len(s) + Len(t) /\ Len(s) + i - Len(s) = i
      BY <1>0
    <3>2. all[Len(s) + i] = t[Len(s) + i - Len(s)]
      BY <1>3, <3>1
    <3>3. QED
      BY <1>5, <3>1, <3>2
  <2>3. QED
    BY <2>1, <2>2
<1>7. m = t
  BY <1>5, <1>6, SeqEqual
<1>8. all \in Seq(S) /\ Len(all) = Len(s) + Len(t) + Len(u)
  BY <1>0, <1>1, <1>2
<1>9. SubSeq(all, Len(s) + 1, Len(s) + Len(t)) = t
  BY <1>7 DEF m
<1>10. QED
  BY <1>8, <1>9, Zenon DEF all

-------------------------------------------------------------------------------
(***************************************************************************)
(* The header.                                                             *)
(***************************************************************************)
LEMMA Sizes ==
  /\ NameLimit \in Nat /\ HeaderSize \in Nat /\ ByteRange \in Nat \ {0}
  /\ 0 .. NameLimit \subseteq Byte
  /\ 4 + 3 * NameLimit <= HeaderSize
BY SignalsAssumption DEF Byte

\* What the header holds of a name is its prefix, and its size fits a byte.
LEMMA CutFacts ==
  ASSUME NEW name \in Name
  PROVE  Cut(name) \in Name /\ Len(Cut(name)) \in 0 .. NameLimit /\ Cut(name) = Prefix(name)
<1> DEFINE n == IF Len(name) < NameLimit THEN Len(name) ELSE NameLimit
<1>0. name \in Seq(Byte) /\ Len(name) \in Nat /\ NameLimit \in Nat
  BY Sizes, LenProperties DEF Name
<1>1. n \in Nat /\ n <= Len(name) /\ n <= NameLimit
  BY <1>0
<1>2. \A i \in 1 .. n : name[i] \in Byte
  BY <1>0, <1>1, ElementOfSeq
<1>3. Cut(name) = SubSeq(name, 1, n)
  BY DEF Cut
<1>4. Len(name) <= NameLimit => n = Len(name)
  BY <1>0
<1>5. Len(name) > NameLimit => n = NameLimit
  BY <1>0
<1> HIDE DEF n
<1>6. SubSeq(name, 1, n) \in Seq(Byte) /\ Len(SubSeq(name, 1, n)) = IF 1 <= n THEN n - 1 + 1 ELSE 0
  BY <1>1, <1>2, SubSeqProperties
<1>7. Len(Cut(name)) \in 0 .. NameLimit
  BY <1>0, <1>1, <1>3, <1>6
<1>8. Cut(name) = Prefix(name)
  <2>1. CASE Len(name) <= NameLimit
    BY <1>0, <1>3, <1>4, <2>1, SubSeqFull DEF Prefix
  <2>2. CASE Len(name) > NameLimit
    <3>1. ~(Len(name) <= NameLimit)
      BY <1>0, <2>2
    <3>2. QED
      BY <1>3, <1>5, <2>2, <3>1 DEF Prefix
  <2>3. QED
    BY <1>0, <2>1, <2>2
<1>9. QED
  BY <1>3, <1>6, <1>7, <1>8 DEF Name

(***************************************************************************)
(* The names one after the other, seen from each of the first two.         *)
(***************************************************************************)
\* Concatenation and part of a sequence, as operators the provers leave alone.
Glue(x, y) == x \o y

Part(x, first, last) == SubSeq(x, first, last)

LEMMA GlueType ==
  ASSUME NEW S
  PROVE  \A x, y \in Seq(S) : Glue(x, y) \in Seq(S) /\ Len(Glue(x, y)) = Len(x) + Len(y)
BY DEF Glue

LEMMA GlueAssociative ==
  ASSUME NEW S
  PROVE  \A x, y, z \in Seq(S) : Glue(Glue(x, y), z) = Glue(x, Glue(y, z))
<1>1. ASSUME NEW x \in Seq(S), NEW y \in Seq(S), NEW z \in Seq(S)
      PROVE  (x \o y) \o z = x \o (y \o z)
  OBVIOUS
<1>2. QED
  BY <1>1, Zenon DEF Glue

LEMMA GlueHead ==
  ASSUME NEW S
  PROVE  \A x, y \in Seq(S) : \A i \in 1 .. Len(x) : Glue(x, y)[i] = x[i]
BY DEF Glue

LEMMA GluePart ==
  ASSUME NEW S
  PROVE  \A x, y, z \in Seq(S) : Part(Glue(Glue(x, y), z), Len(x) + 1, Len(x) + Len(y)) = y
BY MiddleOfConcat DEF Glue, Part

\* A header's sizes, names and padding before a rest, and what is read back.
Message(f, b, k, a, p, v) == Glue(Glue(Glue(f, Glue(Glue(b, k), a)), p), v)

IsReadBack(data, f, b, k, a, p, v) ==
  /\ data \in Name
  /\ Len(data) = 4 + (Len(b) + Len(k) + Len(a)) + Len(p) + Len(v)
  /\ \A i \in 1 .. 4 : data[i] = f[i]
  /\ Part(data, 5, 4 + Len(b)) = b
  /\ Part(data, 5 + Len(b), 4 + Len(b) + Len(k)) = k
  /\ Part(data, Len(data) - Len(v) + 1, Len(data)) = v

(***************************************************************************)
(* What is read back from four elements, three sequences, a padding and a  *)
(* rest.                                                                   *)
(***************************************************************************)
LEMMA ReadBack ==
  ASSUME NEW f \in Name, NEW b \in Name, NEW k \in Name, NEW a \in Name,
         NEW p \in Name, NEW v \in Name, Len(f) = 4,
         NEW message, message = Message(f, b, k, a, p, v)
  PROVE  IsReadBack(message, f, b, k, a, p, v)
<1> DEFINE names == Glue(Glue(b, k), a)
           head == Glue(Glue(f, names), p)
           data == Glue(head, v)
           fb == Glue(f, b)
           rest == Glue(a, Glue(p, v))
           kr == Glue(k, rest)
<1>0. f \in Seq(Byte) /\ b \in Seq(Byte) /\ k \in Seq(Byte) /\ a \in Seq(Byte) /\ p \in Seq(Byte) /\ v \in Seq(Byte)
  BY DEF Name
\* The names seen from each of the first two.
<1>1. fb \in Seq(Byte) /\ Glue(p, v) \in Seq(Byte) /\ Glue(b, k) \in Seq(Byte) /\ Glue(k, a) \in Seq(Byte)
  BY <1>0, GlueType
<1>2. rest \in Seq(Byte) /\ Glue(fb, k) \in Seq(Byte)
  BY <1>0, <1>1, GlueType
<1>3. kr \in Seq(Byte) /\ Glue(Glue(fb, k), a) \in Seq(Byte)
  BY <1>0, <1>2, GlueType
<1>4. data = Glue(Glue(fb, k), rest)
  <2>1. names = Glue(b, Glue(k, a))
    BY <1>0, GlueAssociative
  <2>2. Glue(f, Glue(b, Glue(k, a))) = Glue(fb, Glue(k, a))
    BY <1>0, <1>1, GlueAssociative
  <2>3. Glue(fb, Glue(k, a)) = Glue(Glue(fb, k), a)
    BY <1>0, <1>1, GlueAssociative
  <2>4. Glue(Glue(Glue(Glue(fb, k), a), p), v) = Glue(Glue(Glue(fb, k), a), Glue(p, v))
    BY <1>0, <1>3, GlueAssociative
  <2>5. Glue(Glue(Glue(fb, k), a), Glue(p, v)) = Glue(Glue(fb, k), rest)
    BY <1>0, <1>1, <1>2, GlueAssociative
  <2>6. QED
    BY <2>1, <2>2, <2>3, <2>4, <2>5, Zenon
<1>5. Glue(Glue(fb, k), rest) = Glue(fb, kr)
  BY <1>0, <1>1, <1>2, GlueAssociative
<1>6. /\ Len(b) \in Nat /\ Len(k) \in Nat /\ Len(v) \in Nat /\ Len(a) \in Nat /\ Len(p) \in Nat
      /\ Len(fb) = 4 + Len(b)
  BY <1>0, GlueType, LenProperties
<1> HIDE DEF rest, kr, names
<1>7. Part(data, 5, 4 + Len(b)) = b
  <2>1. Part(Glue(Glue(f, b), kr), Len(f) + 1, Len(f) + Len(b)) = b
    BY <1>0, <1>3, GluePart
  <2>2. Part(data, Len(f) + 1, Len(f) + Len(b)) = b
    BY <1>4, <1>5, <2>1, Zenon
  <2>3. Len(f) + 1 = 5
    OBVIOUS
  <2> HIDE DEF data
  <2>4. QED
    BY <2>2, <2>3
<1> HIDE DEF fb
<1>8. Part(data, 5 + Len(b), 4 + Len(b) + Len(k)) = k
  <2>1. Part(Glue(Glue(fb, k), rest), Len(fb) + 1, Len(fb) + Len(k)) = k
    BY <1>0, <1>1, <1>2, GluePart
  <2>2. Part(data, Len(fb) + 1, Len(fb) + Len(k)) = k
    BY <1>4, <2>1, Zenon
  <2>3. Len(fb) + 1 = 5 + Len(b) /\ Len(fb) + Len(k) = 4 + Len(b) + Len(k)
    BY <1>6
  <2> HIDE DEF data
  <2>4. QED
    BY <2>2, <2>3
<1>9. \A i \in 1 .. 4 : data[i] = f[i]
  <2>1. SUFFICES ASSUME NEW i \in 1 .. 4 PROVE data[i] = f[i]
    OBVIOUS
  <2>2. data = Glue(fb, kr)
    BY <1>4, <1>5, Zenon
  <2>3. i \in 1 .. Len(f) /\ i \in 1 .. Len(fb)
    BY <1>6
  <2> HIDE DEF data
  <2>4. Glue(fb, kr)[i] = fb[i]
    BY <1>0, <1>1, <1>3, <2>3, GlueHead
  <2>5. fb[i] = f[i]
    BY <1>0, <2>3, GlueHead DEF fb
  <2>6. QED
    BY <2>2, <2>4, <2>5
\* The length, and the rest.
<1>10. names \in Seq(Byte) /\ Len(names) = Len(b) + Len(k) + Len(a)
  <2>1. Glue(b, k) \in Seq(Byte) /\ Len(Glue(b, k)) = Len(b) + Len(k)
    BY <1>0, GlueType
  <2>2. names \in Seq(Byte) /\ Len(names) = Len(Glue(b, k)) + Len(a)
    BY <1>0, <2>1, GlueType DEF names
  <2>3. QED
    BY <2>1, <2>2
<1>11. head \in Seq(Byte) /\ Len(head) = 4 + (Len(b) + Len(k) + Len(a)) + Len(p)
  <2>1. Glue(f, names) \in Seq(Byte) /\ Len(Glue(f, names)) = 4 + Len(names)
    BY <1>0, <1>10, GlueType
  <2>2. head \in Seq(Byte) /\ Len(head) = Len(Glue(f, names)) + Len(p)
    BY <1>0, <2>1, GlueType
  <2>3. QED
    BY <1>10, <2>1, <2>2
<1>12. data = Glue(head, v)
  OBVIOUS
<1> HIDE DEF head, data
<1>13. data \in Seq(Byte) /\ Len(data) = Len(head) + Len(v)
  BY <1>0, <1>11, <1>12, GlueType
<1>14. Part(data, Len(data) - Len(v) + 1, Len(data)) = v
  <2>1. << >> \in Seq(Byte) /\ Glue(data, << >>) = data
    BY <1>13, ConcatEmptySeq, EmptySeq DEF Glue
  <2>2. Part(Glue(Glue(head, v), << >>), Len(head) + 1, Len(head) + Len(v)) = v
    BY <1>0, <1>11, <2>1, GluePart
  <2>3. Len(data) - Len(v) + 1 = Len(head) + 1
    BY <1>6, <1>11, <1>13
  <2>4. QED
    BY <1>12, <1>13, <2>1, <2>2, <2>3
<1>15. Len(data) = 4 + (Len(b) + Len(k) + Len(a)) + Len(p) + Len(v)
  BY <1>11, <1>13
<1>16. QED
  <2>1. data = message
    BY Zenon DEF data, head, names, Message
  <2>2. QED
    BY <1>7, <1>8, <1>9, <1>13, <1>14, <1>15, <2>1, Zenon DEF Name, IsReadBack

LEMMA PaddingFacts ==
  ASSUME NEW n \in Nat
  PROVE  Padding(n) \in Name /\ Len(Padding(n)) = n
<1>1. 0 \in Byte
  BY Sizes
<1>2. QED
  BY <1>1 DEF Padding, Name

Carries(data, type, bucket, key, value) ==
  /\ data \in Name
  /\ Len(data) = HeaderSize + Len(value)
  /\ BufferToHeader(data) = [type |-> type, bucket |-> Prefix(bucket), key |-> Prefix(key)]
  /\ SubSeq(data, HeaderSize + 1, Len(data)) = value

(***************************************************************************)
(* The header takes its fixed size whatever it holds, and reading it back  *)
(* from the head of a message yields the type and the prefixes.            *)
(***************************************************************************)
LEMMA HeaderFacts ==
  ASSUME NEW type \in Byte, NEW bucket \in Name, NEW key \in Name, NEW api_key \in Name,
         NEW value \in Name
  PROVE  Carries(HeaderToBuffer(type, bucket, key, api_key) \o value, type, bucket, key, value)
<1> DEFINE b == Cut(bucket)
           k == Cut(key)
           a == Cut(api_key)
           first == <<type, Len(b), Len(k), Len(a)>>
           names == b \o k \o a
           pad == Padding(HeaderSize - 4 - Len(names))
           data == HeaderToBuffer(type, bucket, key, api_key) \o value
<1>1. /\ b \in Seq(Byte) /\ k \in Seq(Byte) /\ a \in Seq(Byte) /\ value \in Seq(Byte)
      /\ Len(b) \in 0 .. NameLimit /\ Len(k) \in 0 .. NameLimit /\ Len(a) \in 0 .. NameLimit
      /\ b = Prefix(bucket) /\ k = Prefix(key)
  BY CutFacts DEF Name
<1>2. first \in Seq(Byte) /\ Len(first) = 4
  <2> HIDE DEF b, k, a
  <2>1. Len(b) \in Byte /\ Len(k) \in Byte /\ Len(a) \in Byte
    BY <1>1, Sizes
  <2>2. QED
    BY <2>1
<1>3. HeaderToBuffer(type, bucket, key, api_key) = first \o names \o pad
  BY DEF HeaderToBuffer
<1> HIDE DEF b, k, a
<1>4. names \in Seq(Byte) /\ Len(names) = Len(b) + Len(k) + Len(a)
  BY <1>1, MiddleOfConcat
<1>5. HeaderSize - 4 - Len(names) \in Nat /\ Len(value) \in Nat
  BY <1>1, <1>4, Sizes, LenProperties
<1>6. pad \in Seq(Byte) /\ Len(pad) = HeaderSize - 4 - Len(names)
  BY <1>5, PaddingFacts DEF Name
<1> HIDE DEF pad
<1>7. data = Message(first, b, k, a, pad, value)
  BY <1>3, Zenon DEF Glue, Message
<1> HIDE DEF first, data
<1>8. IsReadBack(data, first, b, k, a, pad, value)
  <2>1. /\ first \in Name /\ b \in Name /\ k \in Name /\ a \in Name /\ pad \in Name
        /\ value \in Name /\ Len(first) = 4
    BY <1>1, <1>2, <1>6 DEF Name
  <2>2. QED
    BY <1>7, <2>1, ReadBack, Zenon
<1>9. Len(data) = HeaderSize + Len(value) /\ Len(data) - Len(value) + 1 = HeaderSize + 1
  BY <1>1, <1>4, <1>5, <1>6, <1>8, Sizes DEF IsReadBack
<1>10. SubSeq(data, HeaderSize + 1, Len(data)) = value
  BY <1>8, <1>9, Zenon DEF Part, IsReadBack
<1>11. data[1] = type /\ data[2] = Len(b) /\ data[3] = Len(k)
  BY <1>8 DEF first, IsReadBack
<1>12. /\ SubSeq(data, 5, 4 + data[2]) = b
       /\ SubSeq(data, 5 + data[2], 4 + data[2] + data[3]) = k
  BY <1>8, <1>11, Zenon DEF Part, IsReadBack
<1>13. BufferToHeader(data) = [type |-> type, bucket |-> Prefix(bucket), key |-> Prefix(key)]
  BY <1>1, <1>11, <1>12, Zenon DEF BufferToHeader
<1>14. QED
  BY <1>8, <1>9, <1>10, <1>13, Zenon DEF data, IsReadBack, Carries

(***************************************************************************)
(* What the peer decodes of a binary signal is the event it stands for.    *)
(***************************************************************************)
LEMMA RoundTrip ==
  ASSUME NEW s \in Signals, Signal[s].kind = "binary"
  PROVE  /\ Encode(s) \in Name /\ Len(Encode(s)) >= HeaderSize
         /\ Decode(Encode(s)) = Announced(s)
         /\ Announced(s) \in Events
<1> DEFINE type == Signal[s].type % ByteRange
           bucket == Signal[s].bucket
           key == Signal[s].key
           value == Signal[s].value
<1>1. /\ bucket \in Name /\ key \in Name /\ value \in Name /\ ApiKey \in Name
      /\ Signal[s].type \in Int
  BY SignalsAssumption DEF Arguments
<1>2. type \in Byte
  BY <1>1, Sizes DEF Byte
<1>3. Encode(s) = HeaderToBuffer(type, bucket, key, ApiKey) \o value
  BY DEF Encode
<1> HIDE DEF type, bucket, key, value
<1>4. Carries(Encode(s), type, bucket, key, value)
  BY <1>1, <1>2, <1>3, HeaderFacts, Zenon
<1>5. Len(Encode(s)) >= HeaderSize /\ Encode(s) \in Name
  BY <1>1, <1>4, Sizes, LenProperties DEF Name, Carries
<1> DEFINE event == [type |-> type, bucket |-> Prefix(bucket), key |-> Prefix(key), content |-> value]
<1>6. Decode(Encode(s)) = event
  <2>1. /\ BufferToHeader(Encode(s)).type = type
        /\ BufferToHeader(Encode(s)).bucket = Prefix(bucket)
        /\ BufferToHeader(Encode(s)).key = Prefix(key)
    BY <1>4 DEF Carries
  <2>2. QED
    BY <1>4, <2>1, Zenon DEF Decode, Carries
<1>7. Announced(s) = event
  BY DEF Announced, type, bucket, key, value
<1>8. Prefix(bucket) \in Name /\ Prefix(key) \in Name
  BY <1>1, CutFacts, Zenon
<1>9. event \in Events
  BY <1>1, <1>2, <1>8 DEF Events
<1> HIDE DEF event
<1>10. QED
  BY <1>5, <1>6, <1>7, <1>9, Zenon

\* The frames of signals, and their events.
LEMMA FrameFacts ==
  ASSUME NEW s \in Signals
  PROVE  /\ Frame(s) \in Frames /\ Frame(s).from = s /\ Frame(s).kind = Signal[s].kind
         /\ Signal[s].kind = "raw" => Len(Frame(s).data) < HeaderSize
         /\ Signal[s].kind = "binary" =>
              /\ Len(Frame(s).data) >= HeaderSize
              /\ Decode(Frame(s).data) = Announced(s)
         /\ Signal[s].kind = "text" => TextEvent(s) = Announced(s)
         /\ Signal[s].kind # "raw" => Announced(s) \in Events
<1>1. /\ Signal[s].kind \in {"text", "binary", "raw"} /\ Signal[s].value \in Name
      /\ Signal[s].bucket \in Name /\ Signal[s].key \in Name
      /\ Signal[s].kind = "raw" => Len(Signal[s].value) < HeaderSize
  BY SignalsAssumption DEF Arguments
<1>2. << >> \in Name
  BY EmptySeq DEF Name
<1>3. CASE Signal[s].kind = "text"
  <2>1. Frame(s) = [from |-> s, kind |-> "text", data |-> << >>]
    BY <1>3 DEF Frame
  <2>2. TextEvent(s) = Announced(s)
    BY <1>3 DEF Announced
  <2>3. 0 \in Byte
    BY Sizes
  <2>4. TextEvent(s) \in Events
    BY <1>1, <2>3 DEF TextEvent, Events
  <2>5. QED
    BY <1>2, <1>3, <2>1, <2>2, <2>4 DEF Frames
<1>4. CASE Signal[s].kind = "raw"
  <2>1. Frame(s) = [from |-> s, kind |-> "raw", data |-> Signal[s].value]
    BY <1>4 DEF Frame
  <2>2. QED
    BY <1>1, <1>4, <2>1 DEF Frames
<1>5. CASE Signal[s].kind = "binary"
  <2>1. Frame(s) = [from |-> s, kind |-> "binary", data |-> Encode(s)]
    BY <1>5 DEF Frame
  <2>2. QED
    BY <1>5, <2>1, RoundTrip DEF Frames
<1>6. QED
  BY <1>1, <1>3, <1>4, <1>5

-------------------------------------------------------------------------------
(***************************************************************************)
(* Every step is a step of the life cycle, or leaves it alone.             *)
(***************************************************************************)
LEMMA StepRefines == [Next]_vars => [ConnNext]_connVars
<1> SUFFICES ASSUME [Next]_vars
             PROVE  ConnNext \/ UNCHANGED connVars
  OBVIOUS
<1> USE DEF ConnNext, Transport, IoHandler, TimeoutThread, CloseCall
<1>1. ASSUME NEW s \in Signals, TestConnected(s) \/ SendSignal(s) \/ OtherClientSends(s)
      PROVE  UNCHANGED connVars
  BY <1>1 DEF TestConnected, SendSignal, OtherClientSends
<1>2. CASE Broadcast \/ LosePeer \/ ReceiveText \/ ReceiveBinary
  BY <1>2 DEF Broadcast, LosePeer, ReceiveText, ReceiveBinary
<1>3. CASE LoseLink \/ Destroy
  BY <1>3 DEF LoseLink, Destroy
<1>4. CASE ConnOnly
  BY <1>4 DEF ConnOnly
<1>5. CASE UNCHANGED vars
  BY <1>5 DEF vars
<1>6. QED
  BY <1>1, <1>2, <1>3, <1>4, <1>5 DEF Next

(***************************************************************************)
(* Signals leave the life cycle of the connection as it is: they only read *)
(* connected_ and the state of the link.                                   *)
(***************************************************************************)
THEOREM SignalsRefineConnection == SafeSpec => ConnSafeSpec
<1>1. Init => ConnInit
  BY DEF Init
<1>2. [Next]_vars => [ConnNext]_connVars
  BY StepRefines
<1>3. QED
  BY <1>1, <1>2, PTL DEF SafeSpec, ConnSafeSpec

-------------------------------------------------------------------------------
\* A frame on its way is the frame of a signal that was sent.
Sent == {Frame(s) : s \in {s \in Signals : call[s] = "sent"}}

WireInv == uplink \in Seq(Sent) /\ downlink \in Seq(Sent)

\* Nothing is heard of a signal that did not arrive, and what is heard of one
\* that did was heard by the listeners it matches.
HeardArrived == \A h \in heard : h.from \in arrived

SignalsInv ==
  /\ ConnInv
  /\ TypeOK
  /\ WireInv
  /\ HeardArrived
  /\ HeardAsSignalled
  /\ ListenersHear

LEMMA InitInv == Init => SignalsInv
<1> SUFFICES ASSUME Init PROVE SignalsInv
  OBVIOUS
<1>1. ConnInv
  BY ConnInvInit DEF Init
<1>2. << >> \in Seq(Frames) /\ Len(<< >>) = 0
  BY EmptySeq
<1>3. TypeOK
  BY <1>1, <1>2 DEF Init, TypeOK, ConnInv
<1>4. WireInv
  BY EmptySeq DEF Init, WireInv
<1>5. HeardArrived /\ HeardAsSignalled /\ ListenersHear
  BY DEF Init, HeardArrived, HeardAsSignalled, ListenersHear
<1>6. QED
  BY <1>1, <1>3, <1>4, <1>5 DEF SignalsInv

\* A call that was sent stays sent, so frames stay on the wire.
LEMMA SentStays ==
  ASSUME TypeOK, [Next]_vars, NEW s \in Signals, call[s] = "sent"
  PROVE  call'[s] = "sent"
<1>1. ASSUME NEW t \in Signals, TestConnected(t) \/ SendSignal(t) \/ OtherClientSends(t)
      PROVE  call'[s] = "sent"
  BY <1>1 DEF TestConnected, SendSignal, OtherClientSends, TypeOK
<1>2. CASE Broadcast \/ LosePeer \/ ReceiveText \/ ReceiveBinary
  BY <1>2 DEF Broadcast, LosePeer, ReceiveText, ReceiveBinary
<1>3. CASE LoseLink \/ Destroy \/ ConnOnly \/ UNCHANGED vars
  BY <1>3 DEF LoseLink, Destroy, ConnOnly, signalVars, vars
<1>4. QED
  BY <1>1, <1>2, <1>3 DEF Next

LEMMA SentGrows == TypeOK /\ [Next]_vars => Sent \subseteq Sent'
<1> SUFFICES ASSUME TypeOK, [Next]_vars, NEW s \in Signals, call[s] = "sent"
             PROVE  Frame(s) \in Sent'
  BY DEF Sent
<1>1. call'[s] = "sent"
  BY SentStays
<1>2. QED
  BY <1>1 DEF Sent

LEMMA SentFrames == Sent \subseteq Frames
BY FrameFacts DEF Sent

\* A queue only loses frames, or gains one.
LEMMA QueueStep ==
  ASSUME NEW S, NEW T, S \subseteq T, NEW queue \in Seq(S), NEW new,
         \/ new = queue
         \/ new = << >>
         \/ queue # << >> /\ new = Tail(queue)
         \/ \E f \in T : new = Append(queue, f)
  PROVE  new \in Seq(T)
<1>1. queue \in Seq(T)
  OBVIOUS
<1>2. CASE queue # << >> /\ new = Tail(queue)
  BY <1>1, <1>2, HeadTailProperties
<1>3. CASE \E f \in T : new = Append(queue, f)
  BY <1>1, <1>3, AppendProperties
<1>4. QED
  BY <1>1, <1>2, <1>3, EmptySeq

\* The head of a queue is the frame of a signal that was sent.
LEMMA HeadSent ==
  ASSUME NEW queue \in Seq(Sent), queue # << >>
  PROVE  \E s \in Signals : call[s] = "sent" /\ Head(queue) = Frame(s) /\ Head(queue) \in Sent
<1>1. Head(queue) \in Sent
  BY HeadTailProperties
<1>2. QED
  BY <1>1 DEF Sent

LEMMA WireStep == TypeOK /\ WireInv /\ [Next]_vars => WireInv'
<1> SUFFICES ASSUME TypeOK, WireInv, [Next]_vars
             PROVE  uplink' \in Seq(Sent') /\ downlink' \in Seq(Sent')
  BY DEF WireInv
<1>1. Sent \subseteq Sent' /\ uplink \in Seq(Sent) /\ downlink \in Seq(Sent)
  BY SentGrows DEF WireInv
<1> DEFINE Moves(queue, new) == \/ new = queue
                                \/ new = << >>
                                \/ queue # << >> /\ new = Tail(queue)
                                \/ \E f \in Sent' : new = Append(queue, f)
<1>2. Moves(uplink, uplink') /\ Moves(downlink, downlink')
  <2>1. ASSUME NEW s \in Signals, TestConnected(s) \/ SendSignal(s) \/ OtherClientSends(s)
        PROVE  Moves(uplink, uplink') /\ Moves(downlink, downlink')
    <3>1. CASE TestConnected(s)
      BY <3>1 DEF TestConnected
    <3>2. CASE SendSignal(s)
      <4>1. CASE ws = "open"
        <5>1. call'[s] = "sent" /\ uplink' = Append(uplink, Frame(s)) /\ downlink' = downlink
          BY <3>2, <4>1 DEF SendSignal, TypeOK
        <5>2. Frame(s) \in Sent'
          BY <5>1 DEF Sent
        <5>3. QED
          BY <5>1, <5>2
      <4>2. CASE ws # "open"
        BY <3>2, <4>2 DEF SendSignal
      <4>3. QED
        BY <4>1, <4>2
    <3>3. CASE OtherClientSends(s)
      <4>1. call'[s] = "sent" /\ downlink' = Append(downlink, Frame(s)) /\ uplink' = uplink
        BY <3>3 DEF OtherClientSends, TypeOK
      <4>2. Frame(s) \in Sent'
        BY <4>1 DEF Sent
      <4>3. QED
        BY <4>1, <4>2
    <3>4. QED
      BY <2>1, <3>1, <3>2, <3>3
  <2>2. CASE Broadcast
    <3>1. Head(uplink) \in Sent'
      BY <1>1, <2>2, HeadSent DEF Broadcast
    <3>2. QED
      BY <2>2, <3>1 DEF Broadcast
  <2>3. CASE LosePeer \/ ReceiveText \/ ReceiveBinary
    BY <2>3 DEF LosePeer, ReceiveText, ReceiveBinary
  <2>4. CASE LoseLink \/ Destroy \/ ConnOnly \/ UNCHANGED vars
    BY <2>4 DEF LoseLink, Destroy, ConnOnly, signalVars, vars
  <2>5. QED
    BY <2>1, <2>2, <2>3, <2>4 DEF Next
<1> HIDE DEF Moves
<1>3. QED
  BY <1>1, <1>2, QueueStep DEF Moves

\* What the peer does with the frame it receives.
LEMMA ReceiveFacts ==
  ASSUME WireInv, ReceiveText \/ ReceiveBinary
  PROVE  \E s \in Signals :
           /\ call[s] = "sent" /\ arrived' = arrived \cup {s}
           /\ \/ Signal[s].kind = "raw" /\ heard' = heard
              \/ Signal[s].kind = "binary" /\ Dispatch(s, Announced(s), BinaryListeners)
              \/ Signal[s].kind = "text" /\ Dispatch(s, Announced(s), Listeners \ BinaryListeners)
<1>1. downlink # << >> /\ downlink \in Seq(Sent)
  BY DEF WireInv, ReceiveText, ReceiveBinary
<1>2. PICK s \in Signals : call[s] = "sent" /\ Head(downlink) = Frame(s)
  BY <1>1, HeadSent
<1>3. /\ Head(downlink).from = s /\ Head(downlink).kind = Signal[s].kind
      /\ Head(downlink).data = Frame(s).data
  BY <1>2, FrameFacts
<1>4. CASE ReceiveText
  <2>1. Signal[s].kind = "text"
    BY <1>3, <1>4 DEF ReceiveText
  <2>2. TextEvent(s) = Announced(s)
    BY <2>1, FrameFacts
  <2>3. Dispatch(s, TextEvent(s), Listeners \ BinaryListeners) /\ arrived' = arrived \cup {s}
    BY <1>3, <1>4, Zenon DEF ReceiveText
  <2>4. QED
    BY <1>2, <2>1, <2>2, <2>3, Zenon
<1>5. CASE ReceiveBinary
  <2>1. Signal[s].kind # "text" /\ Signal[s].kind \in {"text", "binary", "raw"}
    BY <1>3, <1>5, SignalsAssumption DEF ReceiveBinary, Arguments
  <2>2. /\ arrived' = arrived \cup {s}
        /\ IF Len(Frame(s).data) < HeaderSize
            THEN UNCHANGED heard
            ELSE Dispatch(s, Decode(Frame(s).data), BinaryListeners)
    BY <1>3, <1>5, Zenon DEF ReceiveBinary
  <2>3. CASE Signal[s].kind = "raw"
    BY <1>2, <2>2, <2>3, FrameFacts
  <2>4. CASE Signal[s].kind = "binary"
    <3>1. ~(Len(Frame(s).data) < HeaderSize)
      <4>1. Frame(s).data \in Seq(Byte) /\ Len(Frame(s).data) >= HeaderSize
        BY <2>4, FrameFacts DEF Frames, Name
      <4>2. QED
        BY <4>1, Sizes, LenProperties
    <3>2. Decode(Frame(s).data) = Announced(s)
      BY <2>4, FrameFacts
    <3>3. Dispatch(s, Announced(s), BinaryListeners)
      BY <2>2, <3>1, <3>2, Zenon
    <3>4. QED
      BY <1>2, <2>2, <2>4, <3>3, Zenon
  <2>5. QED
    BY <2>1, <2>3, <2>4
<1>6. QED
  BY <1>4, <1>5

\* Only a receive changes what arrived and what was heard.
LEMMA HeardChanges ==
  [Next]_vars => ReceiveText \/ ReceiveBinary \/ UNCHANGED <<arrived, heard>>
BY DEF Next, TestConnected, SendSignal, OtherClientSends, Broadcast, LosePeer, LoseLink, Destroy,
       ConnOnly, signalVars, vars

LEMMA TypeStep == ConnInv' /\ TypeOK /\ WireInv /\ WireInv' /\ [Next]_vars => TypeOK'
<1> SUFFICES ASSUME ConnInv', TypeOK, WireInv, WireInv', [Next]_vars
             PROVE  TypeOK'
  OBVIOUS
<1>1. ConnTypeOK'
  BY DEF ConnInv
<1>2. call' \in [Signals -> {"idle", "tested", "sent", "threw"}]
  <2>1. ASSUME NEW s \in Signals, TestConnected(s) \/ SendSignal(s) \/ OtherClientSends(s)
        PROVE  call' \in [Signals -> {"idle", "tested", "sent", "threw"}]
    BY <2>1 DEF TestConnected, SendSignal, OtherClientSends, TypeOK
  <2>2. CASE UNCHANGED call
    BY <2>2 DEF TypeOK
  <2>3. QED
    BY <2>1, <2>2
       DEF Next, Broadcast, LosePeer, ReceiveText, ReceiveBinary, LoseLink, Destroy, ConnOnly,
           signalVars, vars
<1>3. uplink' \in Seq(Frames) /\ downlink' \in Seq(Frames)
  <2>1. Sent' \subseteq Frames
    BY FrameFacts DEF Sent
  <2>2. uplink' \in Seq(Sent') /\ downlink' \in Seq(Sent')
    BY DEF WireInv
  <2>3. QED
    BY <2>1, <2>2
<1>4. /\ arrived' \subseteq Signals
      /\ \A h \in heard' : h.from \in Signals /\ h.by \in Listeners /\ h.event \in Events
  <2>1. CASE UNCHANGED <<arrived, heard>>
    BY <2>1 DEF TypeOK
  <2>2. CASE ReceiveText \/ ReceiveBinary
    <3>1. PICK s \in Signals :
            /\ call[s] = "sent" /\ arrived' = arrived \cup {s}
            /\ \/ Signal[s].kind = "raw" /\ heard' = heard
               \/ Signal[s].kind = "binary" /\ Dispatch(s, Announced(s), BinaryListeners)
               \/ Signal[s].kind = "text" /\ Dispatch(s, Announced(s), Listeners \ BinaryListeners)
      BY <2>2, ReceiveFacts
    <3>2. CASE heard' = heard
      BY <3>1, <3>2 DEF TypeOK
    <3>3. ASSUME NEW L, L \subseteq Listeners, Dispatch(s, Announced(s), L), Signal[s].kind # "raw"
          PROVE  /\ arrived' \subseteq Signals
                 /\ \A h \in heard' : h.from \in Signals /\ h.by \in Listeners /\ h.event \in Events
      <4>1. Announced(s) \in Events
        BY <3>3, FrameFacts
      <4>2. QED
        BY <3>1, <3>3, <4>1 DEF Dispatch, TypeOK
    <3>4. QED
      BY <3>1, <3>2, <3>3, SignalsAssumption
  <2>3. QED
    BY <2>1, <2>2, HeardChanges
<1>5. QED
  BY <1>1, <1>2, <1>3, <1>4 DEF TypeOK

LEMMA HeardStep ==
  TypeOK /\ WireInv /\ HeardArrived /\ HeardAsSignalled /\ [Next]_vars
    => HeardArrived' /\ HeardAsSignalled'
<1> SUFFICES ASSUME TypeOK, WireInv, HeardArrived, HeardAsSignalled, [Next]_vars
             PROVE  HeardArrived' /\ HeardAsSignalled'
  OBVIOUS
<1>1. \A h \in heard : /\ h.from \in arrived /\ call'[h.from] = "sent"
                       /\ Signal[h.from].kind # "raw" /\ h.event = Announced(h.from)
  BY SentStays DEF HeardArrived, HeardAsSignalled, TypeOK
<1>2. CASE UNCHANGED <<arrived, heard>>
  BY <1>1, <1>2 DEF HeardArrived, HeardAsSignalled
<1>3. CASE ReceiveText \/ ReceiveBinary
  <2>1. PICK s \in Signals :
          /\ call[s] = "sent" /\ arrived' = arrived \cup {s}
          /\ \/ Signal[s].kind = "raw" /\ heard' = heard
             \/ Signal[s].kind = "binary" /\ Dispatch(s, Announced(s), BinaryListeners)
             \/ Signal[s].kind = "text" /\ Dispatch(s, Announced(s), Listeners \ BinaryListeners)
    BY <1>3, ReceiveFacts
  <2>2. call'[s] = "sent"
    BY <2>1, SentStays
  <2>3. CASE heard' = heard
    BY <1>1, <2>1, <2>3 DEF HeardArrived, HeardAsSignalled
  <2>4. ASSUME NEW L, Dispatch(s, Announced(s), L), Signal[s].kind # "raw"
        PROVE  HeardArrived' /\ HeardAsSignalled'
    <3>1. \A h \in heard' : h \in heard \/ (h.from = s /\ h.event = Announced(s))
      BY <2>4 DEF Dispatch
    <3>2. QED
      BY <1>1, <2>1, <2>2, <2>4, <3>1 DEF HeardArrived, HeardAsSignalled
  <2>5. QED
    BY <2>1, <2>3, <2>4
<1>4. QED
  BY <1>2, <1>3, HeardChanges

\* The listeners that are due to hear a signal.
Due(s, l) ==
  /\ l \in BinaryListeners <=> Signal[s].kind = "binary"
  /\ Matches(Pattern[l], [bucket |-> Signal[s].bucket, key |-> Signal[s].key])

LEMMA WholeNames ==
  ASSUME NEW s \in Signals, Whole(s), NEW l
  PROVE  Matches(Pattern[l], Announced(s))
           <=> Matches(Pattern[l], [bucket |-> Signal[s].bucket, key |-> Signal[s].key])
<1>1. Announced(s).bucket = Signal[s].bucket /\ Announced(s).key = Signal[s].key
  BY DEF Whole, Announced, Prefix, TextEvent
<1>2. QED
  BY <1>1 DEF Matches

LEMMA HearStep ==
  TypeOK /\ WireInv /\ HeardArrived /\ ListenersHear /\ [Next]_vars => ListenersHear'
<1> SUFFICES ASSUME TypeOK, WireInv, HeardArrived, ListenersHear, [Next]_vars
             PROVE  ListenersHear'
  OBVIOUS
<1>1. CASE UNCHANGED <<arrived, heard>>
  BY <1>1 DEF ListenersHear
<1>2. CASE ReceiveText \/ ReceiveBinary
  <2>1. PICK s \in Signals :
          /\ call[s] = "sent" /\ arrived' = arrived \cup {s}
          /\ \/ Signal[s].kind = "raw" /\ heard' = heard
             \/ Signal[s].kind = "binary" /\ Dispatch(s, Announced(s), BinaryListeners)
             \/ Signal[s].kind = "text" /\ Dispatch(s, Announced(s), Listeners \ BinaryListeners)
    BY <1>2, ReceiveFacts
  <2>2. SUFFICES ASSUME NEW t \in arrived', Whole(t), NEW l \in Listeners
                 PROVE  (\E h \in heard' : h.from = t /\ h.by = l) <=> Due(t, l)
    BY DEF ListenersHear, Due
  <2>3. ASSUME t \in arrived
        PROVE  (\E h \in heard : h.from = t /\ h.by = l) <=> Due(t, l)
    BY <2>2, <2>3 DEF ListenersHear, Due
  <2>4. ASSUME t \notin arrived
        PROVE  ~ \E h \in heard : h.from = t /\ h.by = l
    BY <2>4 DEF HeardArrived
  <2>5. CASE t # s
    <3>1. (\E h \in heard' : h.from = t /\ h.by = l) <=> (\E h \in heard : h.from = t /\ h.by = l)
      BY <2>1, <2>5 DEF Dispatch
    <3>2. QED
      BY <2>1, <2>3, <2>5, <3>1
  <2>6. CASE t = s
    <3>1. ASSUME NEW L, Dispatch(s, Announced(s), L),
                 l \in L <=> (l \in BinaryListeners <=> Signal[s].kind = "binary")
          PROVE  (\E h \in heard' : h.from = t /\ h.by = l) <=> Due(t, l)
      <4>1. (\E h \in heard' : h.from = t /\ h.by = l)
              <=> (\E h \in heard : h.from = t /\ h.by = l) \/ (l \in L /\ Matches(Pattern[l], Announced(s)))
        <5> DEFINE e(m) == [from |-> s, by |-> m, event |-> Announced(s)]
        <5>1. heard' = heard \cup {e(m) : m \in {m \in L : Matches(Pattern[m], Announced(s))}}
          BY <3>1 DEF Dispatch
        <5>2. \A m : e(m).from = s /\ e(m).by = m
          OBVIOUS
        <5> HIDE DEF e
        <5>3. ASSUME l \in L, Matches(Pattern[l], Announced(s))
              PROVE  \E h \in heard' : h.from = t /\ h.by = l
          <6>1. e(l) \in heard'
            BY <5>1, <5>3
          <6>2. QED
            BY <2>6, <5>2, <6>1
        <5>4. ASSUME NEW h \in heard', h.from = t, h.by = l, h \notin heard
              PROVE  l \in L /\ Matches(Pattern[l], Announced(s))
          BY <5>1, <5>2, <5>4
        <5>5. \A h \in heard : h \in heard'
          BY <5>1
        <5>6. QED
          BY <5>3, <5>4, <5>5
      <4>2. (l \in L /\ Matches(Pattern[l], Announced(s))) <=> Due(t, l)
        <5>1. Matches(Pattern[l], Announced(s))
                <=> Matches(Pattern[l], [bucket |-> Signal[s].bucket, key |-> Signal[s].key])
          BY <2>2, <2>6, WholeNames
        <5>2. QED
          BY <2>6, <3>1, <5>1, Zenon DEF Due
      <4>3. QED
        BY <2>3, <2>4, <4>1, <4>2
    <3>2. Signal[s].kind # "raw"
      BY <2>2, <2>6 DEF Whole
    <3>3. QED
      BY <2>1, <3>1, <3>2
  <2>7. QED
    BY <2>5, <2>6
<1>3. QED
  BY <1>1, <1>2, HeardChanges

-------------------------------------------------------------------------------
LEMMA SignalsInvStep == SignalsInv /\ [Next]_vars => SignalsInv'
<1> SUFFICES ASSUME SignalsInv, [Next]_vars
             PROVE  SignalsInv'
  OBVIOUS
<1>1. ConnInv'
  BY StepRefines, ConnInvStep DEF SignalsInv
<1>2. WireInv'
  BY WireStep DEF SignalsInv
<1>3. TypeOK'
  BY <1>1, <1>2, TypeStep DEF SignalsInv
<1>4. HeardArrived' /\ HeardAsSignalled'
  BY HeardStep DEF SignalsInv
<1>5. ListenersHear'
  BY HearStep DEF SignalsInv
<1>6. QED
  BY <1>1, <1>2, <1>3, <1>4, <1>5 DEF SignalsInv

(***************************************************************************)
(* The inductive invariant.                                                *)
(***************************************************************************)
THEOREM SignalsInvHolds == SafeSpec => []SignalsInv
<1>1. Init => SignalsInv
  BY InitInv
<1>2. SignalsInv /\ [Next]_vars => SignalsInv'
  BY SignalsInvStep
<1>3. QED
  BY <1>1, <1>2, PTL DEF SafeSpec

(***************************************************************************)
(* Type correctness: every frame on the wire is one a signal makes, and    *)
(* every event that is decoded has the types of OnMessage's callbacks.     *)
(***************************************************************************)
THEOREM TypeCorrect == SafeSpec => []TypeOK
<1>1. SignalsInv => TypeOK
  BY DEF SignalsInv
<1>2. QED
  BY <1>1, SignalsInvHolds, PTL

(***************************************************************************)
(* What a peer hears was signalled: the header that is read back holds     *)
(* what was written, whatever the names, the type and the content.         *)
(***************************************************************************)
THEOREM PeersHearSignals == SafeSpec => []HeardAsSignalled
<1>1. SignalsInv => HeardAsSignalled
  BY DEF SignalsInv
<1>2. QED
  BY <1>1, SignalsInvHolds, PTL

(***************************************************************************)
(* A signal that arrives is heard by the listeners of its names and by no  *)
(* other, as long as the header holds its names.                           *)
(***************************************************************************)
THEOREM MatchingListenersHear == SafeSpec => []ListenersHear
<1>1. SignalsInv => ListenersHear
  BY DEF SignalsInv
<1>2. QED
  BY <1>1, SignalsInvHolds, PTL
================================================================================
