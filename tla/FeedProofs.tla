----------------------------- MODULE FeedProofs -----------------------------
(***************************************************************************)
(* The parser at the end of a connection: what ParserProofs shows of its   *)
(* steps holds whatever messages the peer frames and wherever it hangs up; *)
(* each call of parse begins where the messages before it have ended; and  *)
(* what parse makes of the groups of a message is the tree of GroupTree.   *)
(***************************************************************************)
EXTENDS FixFeed, ParserProofs

(* What the peer sends is bytes.                                           *)
LEMMA FrameType == \A b \in Bodies \cup CutBodies : Frame(b) \in Seq(Byte)
<1> TAKE b \in Bodies \cup CutBodies
<1>1. PICK a \in STRING : a = b.announced
  BY BodyAssumption
<1>2. PICK fs \in Seq(Fields) : fs = b.fields
  BY BodyAssumption, StringFields
<1>3. /\ "8" \in Byte /\ "9" \in Byte /\ "10" \in Byte /\ "FIX" \in Byte
      /\ "c" \in Byte /\ a \in Byte
  BY DEF Byte
<1> HIDE DEF Byte
<1>4. ASSUME NEW t \in Byte, NEW v \in Byte PROVE Field(t, <<v>>) \in Fields
  <2>1. <<v>> \in Seq(Byte)
    OBVIOUS
  <2>2. QED
    BY <2>1, FieldType
<1>5. PICK g \in Fields : g = BEGIN_STRING
  BY <1>3, <1>4, Zenon DEF BEGIN_STRING, BeginString
<1>6. PICK h \in Fields : h = Announced(b)
  BY <1>1, <1>3, <1>4, Zenon DEF Announced, BodyLength
<1>7. PICK k \in Fields : k = Field(CheckSum, <<"c">>)
  BY <1>3, <1>4, Zenon DEF CheckSum
<1>8. PICK gs \in Seq(Fields) : gs = Append(<<g, h>> \o fs, k)
  <2>1. Append(<<g, h>> \o fs, k) \in Seq(Fields)
    OBVIOUS
  <2>2. QED
    BY <2>1
<1>9. Frame(b) = AllBytes(gs)
  BY <1>1, <1>2, <1>5, <1>6, <1>7, <1>8, Zenon DEF Frame, Headed
<1>10. QED
  BY <1>7, <1>9, AllBytesAppend

(* Every step of the parser and of the peer keeps StreamInv.               *)
LEMMA FeedNextInv == StreamInv /\ [Next]_vars => StreamInv'
<1> SUFFICES ASSUME StreamInv, [Next]_vars PROVE StreamInv'
  OBVIOUS
<1>1. closed \in BOOLEAN
  BY DEF StreamInv, ParserInv, Control
<1>2. ASSUME NEW b \in Bodies, Send(b) PROVE StreamInv'
  <2>1. PICK q \in Seq(Byte) : q = Frame(b)
    BY FrameType
  <2>2. stream' = stream \o q /\ closed' = closed /\ UNCHANGED parserVars
    BY <1>2, <2>1 DEF Send
  <2>3. QED
    BY <1>1, <2>2, BytesArrive
<1>3. ASSUME NEW b \in CutBodies, NEW n \in 0 .. Len(Frame(b)) - 1, HangUp(b, n)
      PROVE  StreamInv'
  <2>1. PICK w \in Seq(Byte) : w = Frame(b)
    BY FrameType
  <2>2. PICK q \in Seq(Byte) : q = SubSeq(w, 1, n)
    <3>1. n \in 0 .. Len(w)
      BY <1>3, <2>1
    <3>2. SubSeq(w, 1, n) \in Seq(Byte)
      BY <3>1
    <3>3. QED
      BY <3>2
  <2>3. stream' = stream \o q /\ closed' = TRUE /\ UNCHANGED parserVars
    BY <1>3, <2>1, <2>2 DEF HangUp
  <2>4. QED
    BY <2>3, BytesArrive
<1>4. CASE ParserCall \/ ParserStep
  BY <1>4, ParserInvKept
<1>5. CASE UNCHANGED vars
  BY <1>5, NothingArrives DEF vars
<1>6. QED
  BY <1>2, <1>3, <1>4, <1>5 DEF Next

(* In every state the parser has read no further than the stream goes, the *)
(* maps it has allocated fit the arena, link to maps that exist and hold   *)
(* no more fields than they have room for, and no value of a field reaches *)
(* out of msg_bytes_: with these links, what the parser has made of the    *)
(* bytes is a tree.                                                        *)
THEOREM FeedInvariance == Spec => []StreamInv
<1>1. Init => StreamInv
  BY StreamInitInv DEF Init
<1>2. QED
  BY <1>1, FeedNextInv, PTL DEF Spec

(* The variables of FixMessage::parse have their types whatever arrives:   *)
(* positions stay in order within the stream, offset_ and length_ within   *)
(* the buffer, groups and tail and next among the maps of the arena.       *)
THEOREM ParserTypeCorrect == Spec => []ParserTypeOK
BY FeedInvariance, InvIsTyped, PTL

(* addGroup, put and the stack of parse keep the groups a tree, whatever   *)
(* the message says of its groups: each map but the first hangs off just   *)
(* one field, each tail_ is the last of its list, and the maps on the stack*)
(* lead down to the current one.                                           *)
THEOREM GroupsStayATree == Spec => []GroupsAreATree
BY FeedInvariance, InvIsATree, PTL

LAST == Field(CheckSum, <<"c">>)

(* Some bytes are fields.                                                  *)
LEMMA OneByteField ==
  ASSUME NEW t \in Byte, NEW x \in Byte, t # EQ, x # SOH
  PROVE  LET f == Field(t, <<x>>) IN
         Clear(f) /\ f.tag = t /\ f.value = <<x>> /\ Len(Bytes(f)) = 4
<1> HIDE DEF Byte
<1>1. PICK v \in Seq(Byte) : v = <<x>> /\ DOMAIN v = {1} /\ v[1] = x
  <2>1. <<x>> \in Seq(Byte) /\ DOMAIN <<x>> = {1} /\ <<x>>[1] = x
    OBVIOUS
  <2>2. QED
    BY <2>1
<1>2. PICK f \in Fields : f = Field(t, v) /\ f.tag = t /\ f.value = v
  <2>1. Field(t, v) \in Fields
    BY FieldType
  <2>2. Field(t, v).tag = t /\ Field(t, v).value = v
    BY DEF Field
  <2>3. QED
    BY <2>1, <2>2
<1>3. Clear(f)
  BY <1>1, <1>2 DEF Clear
<1>4. Len(Bytes(f)) = 4
  BY <1>1, <1>2, OneByteType
<1>5. QED
  BY <1>1, <1>2, <1>3, <1>4

(* A message with its checksum, when its fields before it are clear.       *)
LEMMA FramedIs ==
  ASSUME NEW b \in Bodies \cup CutBodies
  PROVE  LET fs == Append(Headed(b), LAST) IN
         /\ fs \in Seq(Fields) /\ Len(fs) \in Nat /\ Len(fs) >= 1
         /\ Frame(b) = AllBytes(fs) /\ Frame(b) \in Seq(Byte)
         /\ InLength(b) => Readable(fs, Len(AllBytes(fs)))
<1>1. PICK a \in STRING : a = b.announced /\ a # SOH
  BY BodyAssumption, FramingAssumption
<1>2. PICK B \in Seq(Fields) : B = b.fields
  BY BodyAssumption, StringFields
<1>3. /\ "8" \in Byte /\ "9" \in Byte /\ "10" \in Byte /\ "FIX" \in Byte
      /\ "c" \in Byte /\ a \in Byte
  BY DEF Byte
<1> HIDE DEF Byte
<1>4. PICK g \in Fields : g = BEGIN_STRING /\ Clear(g) /\ g.tag = BeginString
  <2>1. Clear(BEGIN_STRING) /\ BEGIN_STRING.tag = BeginString
    BY <1>3, OneByteField DEF BEGIN_STRING, BeginString, EQ, SOH
  <2>2. QED
    BY <2>1 DEF Clear
<1>5. PICK h \in Fields : h = Announced(b) /\ Clear(h) /\ h.tag = BodyLength /\ h.value = <<a>>
  <2>1. Clear(Announced(b)) /\ Announced(b).tag = BodyLength /\ Announced(b).value = <<a>>
    BY <1>1, <1>3, OneByteField DEF Announced, BodyLength, EQ
  <2>2. QED
    BY <2>1 DEF Clear
<1>6. PICK c \in Fields : c = LAST /\ Clear(c) /\ c.tag = CheckSum /\ Len(Bytes(c)) = 4
  <2>1. Clear(LAST) /\ LAST.tag = CheckSum /\ Len(Bytes(LAST)) = 4
    BY <1>3, OneByteField DEF LAST, CheckSum, EQ, SOH
  <2>2. QED
    BY <2>1 DEF Clear
<1>7. PICK m \in Nat : m = Len(B)
  OBVIOUS
<1>8. PICK H \in Seq(Fields) : H = <<g, h>> /\ Len(H) = 2 /\ H[1] = g /\ H[2] = h
  <2>1. <<g, h>> \in Seq(Fields) /\ Len(<<g, h>>) = 2 /\ <<g, h>>[1] = g /\ <<g, h>>[2] = h
    OBVIOUS
  <2>2. QED
    BY <2>1
<1>9. PICK D \in Seq(Fields) :
        /\ D = H \o B /\ Len(D) = m + 2 /\ D[1] = g /\ D[2] = h
        /\ \A i \in 1 .. m : D[2 + i] = B[i]
  <2>1. Joined(Fields, H, B, H \o B)
    BY ConcatIs
  <2>2. PICK q : q = H \o B
    OBVIOUS
  <2>3. /\ q \in Seq(Fields) /\ Len(q) = 2 + m
        /\ \A i \in 1 .. 2 : q[i] = H[i]
        /\ \A i \in 1 .. m : q[2 + i] = B[i]
    BY <1>7, <1>8, <2>1, <2>2 DEF Joined
  <2>4. Len(q) = m + 2 /\ q[1] = g /\ q[2] = h
    BY <1>8, <2>3
  <2>5. QED
    BY <2>2, <2>3, <2>4
<1>10. PICK fs \in Seq(Fields) :
        /\ fs = Append(D, c) /\ Len(fs) = m + 3 /\ fs[m + 3] = c
        /\ \A i \in 1 .. m + 2 : fs[i] = D[i]
  <2>1. Append(D, c) \in Seq(Fields) /\ Len(Append(D, c)) = m + 3
    BY <1>9
  <2>2. Append(D, c)[m + 3] = c /\ \A i \in 1 .. m + 2 : Append(D, c)[i] = D[i]
    BY <1>9
  <2>3. QED
    BY <2>1, <2>2
<1>11. fs = Append(Headed(b), LAST)
  BY <1>1, <1>2, <1>4, <1>5, <1>6, <1>8, <1>9, <1>10, Zenon DEF Headed
<1>12. Frame(b) = AllBytes(fs)
  BY <1>11, Zenon DEF Frame, LAST
<1>13. PICK l \in Nat, e \in Nat : l = Len(AllBytes(B)) /\ e = Len(AllBytes(H))
  BY AllBytesConcat
<1>14. AllBytes(fs) \in Seq(Byte) /\ Len(AllBytes(fs)) = e + l + 4
  <2>1. PICK u \in Seq(Byte), v \in Seq(Byte), w \in Seq(Byte) :
          u = AllBytes(H) /\ v = AllBytes(B) /\ w = Bytes(c)
    BY AllBytesConcat, BytesType
  <2>2. AllBytes(fs) = (u \o v) \o w
    <3>1. AllBytes(D) = u \o v
      BY <1>9, <2>1, AllBytesConcat
    <3>2. AllBytes(Append(D, c)) = AllBytes(D) \o w
      BY <1>9, <2>1, AllBytesAppend
    <3>3. QED
      BY <1>10, <3>1, <3>2
  <2>3. (u \o v) \o w \in Seq(Byte) /\ Len((u \o v) \o w) = (Len(u) + Len(v)) + Len(w)
    OBVIOUS
  <2>4. QED
    BY <1>6, <1>13, <2>1, <2>2, <2>3
<1>15. End(fs, 2) = e
  <2>1. PICK F \in Seq(Fields) : F = First(fs, 2) /\ Len(F) = 2 /\ \A i \in 1 .. 2 : F[i] = fs[i]
    <3>1. PICK j : j = 2 /\ j \in 0 .. Len(fs)
      BY <1>10
    <3>2. /\ First(fs, j) \in Seq(Fields) /\ Len(First(fs, j)) = j
          /\ \A i \in 1 .. j : First(fs, j)[i] = fs[i]
      BY <3>1, FirstIs
    <3>3. QED
      BY <3>1, <3>2
  <2>2. F = H
    <3>1. \A i \in 1 .. 2 : F[i] = H[i]
      BY <1>8, <1>9, <1>10, <2>1
    <3>2. QED
      BY <1>8, <2>1, <3>1, SeqEqual
  <2>3. QED
    BY <1>13, <2>1, <2>2 DEF End
<1>16. ASSUME NEW i \in 1 .. m + 3
       PROVE  /\ Clear(fs[i]) /\ (fs[i].tag = CheckSum <=> i = m + 3)
              /\ fs[i].tag = BodyLength => i = 2
  <2>1. CASE i = 1
    BY <1>4, <1>9, <1>10, <2>1 DEF BeginString, BodyLength, CheckSum
  <2>2. CASE i = 2
    BY <1>5, <1>9, <1>10, <2>2 DEF BodyLength, CheckSum
  <2>3. CASE i = m + 3
    BY <1>6, <1>10, <2>3 DEF BodyLength, CheckSum
  <2>4. CASE i \in 3 .. m + 2
    <3>1. PICK k \in 1 .. m : i = 2 + k
      <4>1. i - 2 \in 1 .. m /\ i = 2 + (i - 2)
        BY <2>4
      <4>2. QED
        BY <4>1
    <3>2. fs[i] = B[k] /\ B[k] \in Fields
      BY <1>7, <1>9, <1>10, <2>4, <3>1
    <3>3. /\ B[k].tag \notin {EQ, BodyLength, CheckSum} /\ SOH \notin Range(B[k].value)
      <4>1. B[k] \in Range(b.fields)
        BY <1>2, <1>7, <3>1 DEF Range
      <4>2. QED
        BY <4>1, FramingAssumption
    <3>4. Clear(B[k])
      BY <3>2, <3>3 DEF Clear, Range
    <3>5. QED
      BY <2>4, <3>2, <3>3, <3>4
  <2>5. QED
    BY <2>1, <2>2, <2>3, <2>4
<1>17. ASSUME InLength(b) PROVE Readable(fs, Len(AllBytes(fs)))
  <2>1. End(fs, 2) - 1 + parseInt(fs[2].value) + CHECKSUM_WIDTH <= Len(AllBytes(fs))
    <3>1. fs[2] = h
      BY <1>9, <1>10
    <3>2. PICK v \in Int : v = parseInt(h.value)
      BY NumberIs
    <3>3. e - 1 + v + CHECKSUM_WIDTH <= e + l + 4
      <4>1. v <= l + 1
        BY <1>1, <1>2, <1>5, <1>13, <1>17, <3>2 DEF InLength
      <4>2. QED
        BY <4>1 DEF CHECKSUM_WIDTH
    <3>4. QED
      BY <1>14, <1>15, <3>1, <3>2, <3>3
  <2>2. Len(AllBytes(fs)) \in Nat /\ Len(AllBytes(fs)) <= Len(AllBytes(fs))
    BY <1>14
  <2>3. QED
    BY <1>10, <1>16, <2>1, <2>2 DEF Readable
<1>18. QED
  BY <1>1, <1>2, <1>10, <1>11, <1>12, <1>13, <1>14, <1>17

(* What is on the wire: message k stands where the one before it ended, as *)
(* far as the stream goes, and all but the last have arrived.              *)
Message(k) == Append(sent[k].fields, LAST)
Start(k) == IF k = 1 THEN 0 ELSE sent[k - 1].end

SentAs(k, b) == /\ sent[k].fields = Headed(b)
                /\ sent[k].framed = InLength(b)

OnWire(k) == /\ Start(k) \in 0 .. Len(stream)
             /\ \E b \in Bodies \cup CutBodies : SentAs(k, b)
             /\ sent[k].end = Start(k) + Len(AllBytes(Message(k)))
             /\ Shows(Start(k), AllBytes(Message(k)))

Wire == /\ \E S : sent \in Seq(S)
        /\ \A k \in 1 .. Len(sent) : OnWire(k)
        /\ Len(stream) <= Start(Len(sent) + 1)
        /\ closed \/ Len(stream) = Start(Len(sent) + 1)

(* A message was announced too long, or the stream ended before this one.  *)
Lost == \/ \E k \in 1 .. parses : k \in 1 .. Len(sent) /\ ~sent[k].framed
        \/ closed /\ \E k \in 1 .. parses - 1 :
                        k \in 1 .. Len(sent) => sent[k].end > Len(stream)

(* The parser is in the message it should be in,                           *)
Within == /\ begin = Start(parses)
          /\ IF parses \in 1 .. Len(sent)
             THEN /\ \E j \in 0 .. Len(Message(parses)) - 1 :
                       cp = begin + End(Message(parses), j)
                  /\ taken <= sent[parses].end
             ELSE /\ parses = Len(sent) + 1
                  /\ cp = begin /\ taken = begin /\ begin = Len(stream)

(* or has read it.                                                         *)
Done == \/ /\ parses \in 1 .. Len(sent) /\ outcome = "complete"
           /\ taken = sent[parses].end /\ taken <= Len(stream)
        \/ /\ closed /\ outcome = "cut"
           /\ parses \in 1 .. Len(sent) => sent[parses].end > Len(stream)

Step == IF parses = 0 THEN status = "idle" /\ taken = 0
        ELSE \/ Lost
             \/ status = "parsing" /\ Within
             \/ status = "idle" /\ Done
             \/ status = "undefined"

StepInv == Wire /\ Step

(* A message of the wire and its length.                                   *)
LEMMA OnWireIs ==
  ASSUME Wire, NEW k \in 1 .. Len(sent)
  PROVE  /\ Message(k) \in Seq(Fields) /\ Len(Message(k)) \in Nat /\ Len(Message(k)) >= 1
         /\ Len(AllBytes(Message(k))) \in Nat
         /\ Start(k) \in Nat /\ sent[k].end \in Nat
         /\ sent[k].framed => Readable(Message(k), Len(AllBytes(Message(k))))
<1>1. PICK b \in Bodies \cup CutBodies : SentAs(k, b)
  BY DEF Wire, OnWire
<1>2. Message(k) = Append(Headed(b), LAST)
  BY <1>1 DEF Message, SentAs
<1>3. /\ Message(k) \in Seq(Fields) /\ Len(Message(k)) \in Nat /\ Len(Message(k)) >= 1
      /\ AllBytes(Message(k)) \in Seq(Byte)
  BY <1>2, FramedIs
<1>4. Len(AllBytes(Message(k))) \in Nat
  BY <1>3
<1>5. Start(k) \in Nat /\ sent[k].end = Start(k) + Len(AllBytes(Message(k)))
  BY DEF Wire, OnWire
<1>6. sent[k].framed => Readable(Message(k), Len(AllBytes(Message(k))))
  BY <1>1, <1>2, FramedIs DEF SentAs
<1>7. QED
  BY <1>3, <1>4, <1>5, <1>6

(* The first bytes of a message are written after all that went before.    *)
LEMMA WireGrows ==
  ASSUME StreamInv, Wire, ~closed, NEW b \in Bodies \cup CutBodies,
         NEW q \in Seq(Byte), Len(q) <= Len(Frame(b)),
         \A i \in 1 .. Len(q) : q[i] = Frame(b)[i],
         stream' = stream \o q, Announce(b), closed' \/ Len(q) = Len(Frame(b))
  PROVE  /\ Wire' /\ Len(sent') = Len(sent) + 1
         /\ Len(stream') \in Nat /\ Len(stream) <= Len(stream')
         /\ \A k \in 1 .. Len(sent) :
              /\ sent'[k] = sent[k] /\ k \in 1 .. Len(sent')
              /\ sent[k].end <= Len(stream)
         /\ Start(Len(sent) + 1) = Len(stream)
         /\ \A k \in 1 .. Len(sent) + 1 : Start(k)' = Start(k)
<1>1. PICK n \in Nat, s \in Seq(Byte) : s = stream /\ n = Len(s)
  BY DEF StreamInv
<1>2. PICK l \in Nat : l = Len(q)
  OBVIOUS
<1>3. PICK t : t = stream' /\ t \in Seq(Byte) /\ Len(t) = n + l
               /\ (\A i \in 1 .. n : t[i] = s[i])
               /\ (\A i \in 1 .. l : t[n + i] = q[i])
  <2>1. Joined(Byte, s, q, s \o q)
    BY ConcatIs
  <2>2. QED
    BY <1>1, <1>2, <2>1 DEF Joined
<1>4. PICK r : r = [fields |-> Headed(b), proper |-> b.proper,
                    framed |-> InLength(b),
                    end |-> Len(stream) + Len(Frame(b))]
  OBVIOUS
<1>5. PICK m \in Nat : m = Len(sent)
  BY DEF Wire
<1>6. /\ Len(sent') = m + 1 /\ sent'[m + 1] = r
      /\ \A k \in 1 .. m : sent'[k] = sent[k]
      /\ \E S : sent' \in Seq(S)
  <2>1. PICK S : sent \in Seq(S)
    BY DEF Wire
  <2>2. PICK T : T = S \cup {r}
    OBVIOUS
  <2>3. sent \in Seq(T) /\ r \in T
    <3>1. S \subseteq T /\ r \in T
      BY <2>2
    <3>2. QED
      BY <2>1, <3>1, SeqMonotonic
  <2>4. sent' = Append(sent, r)
    BY <1>4 DEF Announce
  <2>5. Append(sent, r) \in Seq(T) /\ Len(Append(sent, r)) = m + 1
    BY <1>5, <2>3
  <2>6. Append(sent, r)[m + 1] = r /\ \A k \in 1 .. m : Append(sent, r)[k] = sent[k]
    BY <1>5, <2>3
  <2>7. QED
    BY <2>4, <2>5, <2>6
<1>7. \A k \in 1 .. m + 1 : Start(k)' = Start(k)
  <2> TAKE k \in 1 .. m + 1
  <2>1. CASE k = 1
    BY <2>1 DEF Start
  <2>2. CASE k # 1
    <3>1. k - 1 \in 1 .. m
      BY <2>2
    <3>2. QED
      BY <1>6, <2>2, <3>1 DEF Start
  <2>3. QED
    BY <2>1, <2>2
<1>8. n = Start(m + 1)
  BY <1>1, <1>5 DEF Wire
<1>9. ASSUME NEW k \in 1 .. m PROVE sent[k].end \in Nat /\ sent[k].end <= n
  <2>1. k + 1 \in 1 .. m + 1 /\ k + 1 # 1 /\ (k + 1) - 1 = k
    OBVIOUS
  <2>2. Start(k + 1) = sent[k].end
    BY <2>1 DEF Start
  <2>3. CASE k = m
    BY <1>8, <2>2, <2>3
  <2>4. CASE k # m
    <3>1. k + 1 \in 1 .. m
      BY <2>4
    <3>2. QED
      BY <1>1, <1>5, <2>2, <3>1 DEF Wire, OnWire
  <2>5. QED
    BY <2>3, <2>4
<1>10. ASSUME NEW k \in 1 .. m PROVE OnWire(k)'
  <2>1. OnWire(k) /\ sent'[k] = sent[k]
    BY <1>5, <1>6 DEF Wire
  <2>2. Start(k)' = Start(k) /\ Start(k) \in Nat /\ Start(k) <= n
    BY <1>1, <1>7, <2>1 DEF OnWire
  <2>3. Message(k)' = Message(k)
    BY <2>1 DEF Message
  <2>4. PICK w \in Nat : w = Len(AllBytes(Message(k)))
    BY <1>5, OnWireIs
  <2>5. Start(k) + w <= n
    BY <1>9, <2>1, <2>4 DEF OnWire
  <2>6. PICK p \in Nat : p = Start(k)
    BY <2>2
  <2>7. \A i \in 1 .. w : p + i <= Len(stream) => stream[p + i] = AllBytes(Message(k))[i]
    BY <2>1, <2>4, <2>6 DEF OnWire, Shows
  <2>8. \A i \in 1 .. w : p + i \in 1 .. n
    BY <2>5, <2>6
  <2>9. \A i \in 1 .. w : t[p + i] = AllBytes(Message(k))[i]
    BY <1>1, <1>3, <2>7, <2>8
  <2>10. Shows(Start(k), AllBytes(Message(k)))'
    BY <1>3, <2>2, <2>3, <2>4, <2>6, <2>9 DEF Shows
  <2>11. Start(k)' \in 0 .. Len(stream')
    BY <1>3, <2>2
  <2>12. (\E c \in Bodies \cup CutBodies : SentAs(k, c))'
    BY <2>1 DEF OnWire, SentAs
  <2>13. sent'[k].end = Start(k)' + Len(AllBytes(Message(k)'))
    BY <2>1, <2>2, <2>3 DEF OnWire
  <2>14. QED
    BY <2>10, <2>11, <2>12, <2>13 DEF OnWire
<1>11. Message(m + 1)' = Append(Headed(b), LAST) /\ AllBytes(Message(m + 1)') = Frame(b)
  <2>1. sent'[m + 1].fields = Headed(b)
    BY <1>4, <1>6
  <2>2. QED
    BY <2>1, FramedIs DEF Message
<1>12. PICK w \in Nat : w = Len(Frame(b)) /\ l <= w
  <2>1. Frame(b) \in Seq(Byte)
    BY FrameType
  <2>2. QED
    BY <1>2, <2>1
<1>13. OnWire(m + 1)'
  <2>1. Start(m + 1)' = n /\ n \in 0 .. Len(stream')
    BY <1>3, <1>7, <1>8
  <2>2. SentAs(m + 1, b)'
    BY <1>4, <1>6 DEF SentAs
  <2>3. sent'[m + 1].end = Start(m + 1)' + Len(AllBytes(Message(m + 1)'))
    BY <1>1, <1>4, <1>6, <1>11, <2>1
  <2>4. ASSUME NEW i \in 1 .. w, n + i <= n + l PROVE t[n + i] = Frame(b)[i]
    <3>1. i \in 1 .. l
      BY <2>4
    <3>2. QED
      BY <1>2, <1>3, <3>1
  <2>5. Shows(Start(m + 1), AllBytes(Message(m + 1)))'
    BY <1>3, <1>11, <1>12, <2>1, <2>4 DEF Shows
  <2>6. QED
    BY <2>1, <2>2, <2>3, <2>5 DEF OnWire
<1>14. Start(m + 2)' = n + w
  <2>1. m + 2 # 1 /\ (m + 2) - 1 = m + 1
    OBVIOUS
  <2>2. QED
    BY <1>1, <1>4, <1>6, <1>12, <2>1 DEF Start
<1>15. Wire'
  <2>1. \A k \in 1 .. m + 1 : OnWire(k)'
    BY <1>10, <1>13
  <2>2. (m + 1) + 1 = m + 2
    OBVIOUS
  <2>3. Len(stream') <= Start(Len(sent) + 1)'
    BY <1>3, <1>6, <1>12, <1>14, <2>2
  <2>4. closed' \/ Len(stream') = Start(Len(sent) + 1)'
    BY <1>2, <1>3, <1>6, <1>12, <1>14, <2>2
  <2>5. QED
    BY <1>6, <2>1, <2>3, <2>4 DEF Wire
<1>16. QED
  BY <1>1, <1>3, <1>5, <1>6, <1>7, <1>8, <1>9, <1>15

(* What is written changes nothing for the parser, which stands before it  *)
(* when it waits for it.                                                   *)
LEMMA ArrivalKeepsStep ==
  ASSUME StreamInv, StepInv, ~closed, NEW b \in Bodies \cup CutBodies,
         NEW q \in Seq(Byte), Len(q) <= Len(Frame(b)),
         \A i \in 1 .. Len(q) : q[i] = Frame(b)[i],
         stream' = stream \o q, Announce(b), closed' \/ Len(q) = Len(Frame(b)),
         UNCHANGED parserVars
  PROVE  StepInv'
<1>1. /\ Wire' /\ Len(sent') = Len(sent) + 1
      /\ Len(stream') \in Nat /\ Len(stream) <= Len(stream')
      /\ \A k \in 1 .. Len(sent) :
           /\ sent'[k] = sent[k] /\ k \in 1 .. Len(sent')
           /\ sent[k].end <= Len(stream)
      /\ Start(Len(sent) + 1) = Len(stream)
      /\ \A k \in 1 .. Len(sent) + 1 : Start(k)' = Start(k)
  BY WireGrows DEF StepInv
<1>2. /\ begin' = begin /\ taken' = taken /\ cp' = cp /\ status' = status
      /\ outcome' = outcome /\ parses' = parses
  BY DEF parserVars
<1>3. PICK m \in Nat : m = Len(sent)
  BY DEF StepInv, Wire
<1>4. PICK n \in Nat : n = Len(stream) /\ taken \in Nat
  BY DEF StreamInv, ParserInv, Positions
<1>5. CASE parses = 0 \/ status = "undefined"
  BY <1>1, <1>2, <1>5 DEF StepInv, Step
<1>6. CASE Lost
  <2>1. PICK k \in 1 .. parses : k \in 1 .. m /\ ~sent[k].framed
    BY <1>3, <1>6 DEF Lost
  <2>2. Lost'
    BY <1>1, <1>2, <1>3, <2>1 DEF Lost
  <2>3. QED
    BY <1>1, <1>2, <2>2, <1>5 DEF StepInv, Step
<1>7. CASE status = "parsing" /\ Within /\ parses \in 1 .. m
  <2>1. Start(parses)' = Start(parses)
    BY <1>1, <1>2, <1>3, <1>7
  <2>2. Message(parses)' = Message(parses) /\ sent'[parses] = sent[parses]
    BY <1>1, <1>2, <1>3, <1>7 DEF Message
  <2>3. \E j \in 0 .. Len(Message(parses)) - 1 : cp = begin + End(Message(parses), j)
    BY <1>3, <1>7 DEF Within
  <2>4. begin = Start(parses) /\ taken <= sent[parses].end
    BY <1>3, <1>7 DEF Within
  <2>5. parses \in 1 .. Len(sent')
    BY <1>1, <1>3, <1>7
  <2>6. \E j \in 0 .. Len(Message(parses)') - 1 : cp' = begin' + End(Message(parses), j)'
    BY <1>2, <2>2, <2>3 DEF End, First
  <2>7. Within'
    BY <1>2, <2>1, <2>2, <2>4, <2>5, <2>6 DEF Within
  <2>8. QED
    BY <1>1, <1>2, <1>7, <2>7 DEF StepInv, Step
<1>8. CASE status = "parsing" /\ Within /\ parses \notin 1 .. m
  <2>1. /\ parses = m + 1 /\ cp = begin /\ taken = begin /\ begin = n
        /\ begin = Start(parses)
    BY <1>3, <1>4, <1>8 DEF Within
  <2>2. PICK k : k = parses /\ k \in 1 .. m + 1 /\ k \in 1 .. Len(sent')
    BY <1>1, <1>3, <2>1
  <2>3. PICK fs : fs = Message(k)'
    OBVIOUS
  <2>4. /\ Len(fs) \in Nat /\ Len(fs) >= 1 /\ Len(AllBytes(fs)) \in Nat
        /\ fs \in Seq(Fields)
    <3>1. PICK c \in Bodies \cup CutBodies : SentAs(k, c)'
      BY <1>1, <2>2 DEF Wire, OnWire
    <3>2. fs = Append(Headed(c), LAST)
      BY <2>3, <3>1 DEF Message, SentAs
    <3>3. AllBytes(fs) \in Seq(Byte)
      BY <3>2, FramedIs
    <3>4. QED
      BY <3>2, <3>3, FramedIs
  <2>5. Start(k)' = n
    BY <1>1, <1>3, <1>4, <2>1, <2>2
  <2>6. sent'[k].end = n + Len(AllBytes(fs))
    BY <1>1, <2>2, <2>3, <2>5 DEF Wire, OnWire
  <2>7. End(fs, 0) = 0
    <3>1. PICK g \in Seq(Fields) : g = First(fs, 0) /\ Len(g) = 0
      <4>1. PICK i : i = 0 /\ i \in 0 .. Len(fs)
        BY <2>4
      <4>2. First(fs, i) \in Seq(Fields) /\ Len(First(fs, i)) = i
        BY <2>4, <4>1, FirstIs
      <4>3. QED
        BY <4>1, <4>2
    <3>2. g = <<>>
      BY <3>1
    <3>3. QED
      BY <3>1, <3>2, AllBytesEmpty DEF End
  <2>8. \E j \in 0 .. Len(fs) - 1 : cp = begin + End(fs, j)
    <3>1. 0 \in 0 .. Len(fs) - 1 /\ cp = begin + 0
      BY <2>1, <2>4
    <3>2. QED
      BY <2>7, <3>1
  <2>9. taken <= sent'[k].end
    <3>1. PICK l \in Nat : l = Len(AllBytes(fs))
      BY <2>4
    <3>2. taken = n /\ sent'[k].end = n + l
      BY <2>1, <2>6, <3>1
    <3>3. n <= n + l
      BY <1>4, <3>1
    <3>4. QED
      BY <3>2, <3>3, Zenon
  <2>10. Within'
    <3>1. (\E j \in 0 .. Len(Message(parses)) - 1 : cp = begin + End(Message(parses), j))'
      BY <1>2, <2>2, <2>3, <2>8 DEF End, First
    <3>2. QED
      BY <1>2, <2>1, <2>2, <2>5, <2>9, <3>1 DEF Within
  <2>11. QED
    BY <1>1, <1>2, <1>8, <2>10 DEF StepInv, Step
<1>9. CASE status = "idle" /\ Done
  <2>1. /\ parses \in 1 .. m /\ outcome = "complete"
        /\ taken = sent[parses].end /\ taken <= n
    BY <1>3, <1>4, <1>9 DEF Done
  <2>2. taken <= Len(stream')
    BY <1>1, <1>3, <1>4, <2>1
  <2>3. Done'
    BY <1>1, <1>2, <1>3, <2>1, <2>2 DEF Done
  <2>4. QED
    BY <1>1, <1>2, <1>9, <2>3 DEF StepInv, Step
<1>10. QED
  BY <1>3, <1>5, <1>6, <1>7, <1>8, <1>9 DEF StepInv, Step

(* The wire does not change when the parser moves.                         *)
LEMMA WireStays ==
  ASSUME Wire, UNCHANGED <<stream, closed, sent>>
  PROVE  Wire'
BY DEF Wire, OnWire, SentAs, Start, Message, Shows

(* A call of parse begins where the last one ended.                        *)
LEMMA CallKeepsStep ==
  ASSUME StreamInv, StepInv, ParserCall
  PROVE  StepInv'
<1>1. /\ UNCHANGED <<stream, closed, sent>> /\ status = "idle"
      /\ parses' = parses + 1 /\ begin' = taken /\ cp' = taken /\ taken' = taken
      /\ status' = "parsing"
  BY DEF ParserCall, Parse
<1>2. Wire'
  BY <1>1, WireStays DEF StepInv
<1>3. PICK m \in Nat : m = Len(sent)
  BY DEF StepInv, Wire
<1>4. PICK n \in Nat, t \in Nat, p \in Nat : n = Len(stream) /\ t = taken /\ p = parses /\ t <= n
  BY DEF StreamInv, ParserInv, Positions, Control
<1>5. parses' = p + 1 /\ p + 1 # 0
  BY <1>1, <1>4
<1>6. ASSUME t = Start(p + 1), p + 1 \in 1 .. m \/ p = m PROVE StepInv'
  <2>1. CASE p + 1 \in 1 .. m
    <3>1. PICK fs : fs = Message(p + 1)
      OBVIOUS
    <3>2. /\ Len(fs) \in Nat /\ Len(fs) >= 1 /\ Len(AllBytes(fs)) \in Nat
          /\ fs \in Seq(Fields)
      BY <1>3, <2>1, <3>1, OnWireIs DEF StepInv
    <3>3. sent[p + 1].end = t + Len(AllBytes(fs))
      BY <1>3, <1>6, <2>1, <3>1 DEF StepInv, Wire, OnWire
    <3>4. End(fs, 0) = 0
      <4>1. PICK g \in Seq(Fields) : g = First(fs, 0) /\ Len(g) = 0
        <5>1. PICK i : i = 0 /\ i \in 0 .. Len(fs)
          BY <3>2
        <5>2. First(fs, i) \in Seq(Fields) /\ Len(First(fs, i)) = i
          BY <3>2, <5>1, FirstIs
        <5>3. QED
          BY <5>1, <5>2
      <4>2. g = <<>>
        BY <4>1
      <4>3. QED
        BY <4>1, <4>2, AllBytesEmpty DEF End
    <3>5. \E j \in 0 .. Len(fs) - 1 : t = t + End(fs, j)
      <4>1. 0 \in 0 .. Len(fs) - 1 /\ t = t + 0
        BY <3>2
      <4>2. QED
        BY <3>4, <4>1
    <3>6. t <= sent[p + 1].end
      BY <3>2, <3>3
    <3>7. (\E j \in 0 .. Len(Message(parses)) - 1 : cp = begin + End(Message(parses), j))'
      BY <1>1, <1>4, <1>5, <3>1, <3>5 DEF Message, End, First
    <3>8. begin' = Start(parses)'
      BY <1>1, <1>4, <1>5, <1>6 DEF Start
    <3>9. taken' <= sent'[parses'].end
      BY <1>1, <1>4, <1>5, <3>6
    <3>10. Within'
      BY <1>1, <1>3, <1>5, <2>1, <3>7, <3>8, <3>9 DEF Within
    <3>11. QED
      BY <1>1, <1>2, <1>5, <3>10 DEF StepInv, Step
  <2>2. CASE p = m
    <3>1. n <= Start(p + 1)
      BY <1>3, <1>4, <2>2 DEF StepInv, Wire
    <3>2. t = n
      BY <1>4, <1>6, <3>1
    <3>3. begin' = Start(parses)'
      BY <1>1, <1>4, <1>5, <1>6 DEF Start
    <3>4. parses' \notin 1 .. Len(sent') /\ parses' = Len(sent') + 1
      BY <1>1, <1>3, <1>5, <2>2
    <3>5. cp' = begin' /\ taken' = begin' /\ begin' = Len(stream')
      BY <1>1, <1>4, <3>2
    <3>6. Within'
      BY <3>3, <3>4, <3>5 DEF Within
    <3>7. QED
      BY <1>1, <1>2, <1>5, <3>6 DEF StepInv, Step
  <2>3. QED
    BY <1>6, <2>1, <2>2
<1>7. CASE p = 0
  <2>1. t = 0 /\ Start(p + 1) = 0
    BY <1>4, <1>7 DEF StepInv, Step, Start
  <2>2. p + 1 \in 1 .. m \/ p = m
    BY <1>7
  <2>3. QED
    BY <1>6, <2>1, <2>2
<1>8. CASE p # 0 /\ Lost
  <2>1. Lost'
    <3>1. CASE \E k \in 1 .. parses : k \in 1 .. Len(sent) /\ ~sent[k].framed
      <4>1. PICK k \in 1 .. p : k \in 1 .. Len(sent) /\ ~sent[k].framed
        BY <1>4, <3>1
      <4>2. k \in 1 .. p + 1
        OBVIOUS
      <4>3. QED
        BY <1>1, <1>5, <4>1, <4>2 DEF Lost
    <3>2. CASE closed /\ \E k \in 1 .. parses - 1 :
                           k \in 1 .. Len(sent) => sent[k].end > Len(stream)
      <4>1. PICK k \in 1 .. p - 1 : k \in 1 .. Len(sent) => sent[k].end > Len(stream)
        BY <1>4, <3>2
      <4>2. k \in 1 .. (p + 1) - 1
        OBVIOUS
      <4>3. QED
        BY <1>1, <1>5, <3>2, <4>1, <4>2 DEF Lost
    <3>3. QED
      BY <1>8, <3>1, <3>2 DEF Lost
  <2>2. QED
    BY <1>2, <1>5, <2>1 DEF StepInv, Step
<1>9. CASE p # 0 /\ Done
  <2>1. CASE /\ parses \in 1 .. Len(sent) /\ outcome = "complete"
             /\ taken = sent[parses].end /\ taken <= Len(stream)
    <3>1. t = Start(p + 1)
      <4>1. p + 1 # 1 /\ (p + 1) - 1 = p
        BY <1>9
      <4>2. QED
        BY <1>4, <2>1, <4>1 DEF Start
    <3>2. p + 1 \in 1 .. m \/ p = m
      BY <1>3, <1>4, <2>1
    <3>3. QED
      BY <1>6, <3>1, <3>2
  <2>2. CASE /\ closed /\ outcome = "cut"
             /\ parses \in 1 .. Len(sent) => sent[parses].end > Len(stream)
    <3>1. p \in 1 .. (p + 1) - 1
      BY <1>9
    <3>2. Lost'
      BY <1>1, <1>4, <1>5, <2>2, <3>1 DEF Lost
    <3>3. QED
      BY <1>2, <1>5, <3>2 DEF StepInv, Step
  <2>3. QED
    BY <1>9, <2>1, <2>2 DEF Done
<1>10. QED
  BY <1>1, <1>4, <1>7, <1>8, <1>9 DEF StepInv, Step

(* The parser in a message whose length is not too long: it reads on, or   *)
(* ends with it, or with the stream.                                       *)
LEMMA ReadKeepsStep ==
  ASSUME StreamInv, StepInv, ParserStep, parses # 0, status = "parsing", Within,
         parses \in 1 .. Len(sent), sent[parses].framed
  PROVE  Step'
<1>1. UNCHANGED <<stream, closed, sent>>
  BY DEF ParserStep
<1>2. PICK fs : fs = Message(parses)
  OBVIOUS
<1>3. PICK m \in Nat, l \in Nat : m = Len(fs) /\ l = Len(AllBytes(fs))
  BY <1>2, OnWireIs DEF StepInv
<1>4. Readable(fs, l)
  BY <1>2, <1>3, OnWireIs DEF StepInv
<1>5. PICK j \in 0 .. m - 1 : cp = begin + End(fs, j)
  BY <1>2, <1>3 DEF Within
<1>6. begin = Start(parses) /\ taken <= sent[parses].end
  BY DEF Within
<1>7. PICK n \in Nat, t \in Nat, a \in Nat : n = Len(stream) /\ t = taken /\ a = begin /\ t <= n
  BY DEF StreamInv, ParserInv, Positions
<1>8. sent[parses].end = a + l /\ Shows(begin, AllBytes(fs))
  BY <1>2, <1>3, <1>6, <1>7 DEF StepInv, Wire, OnWire
<1>9. Reading(fs, j)
  BY <1>3, <1>5, <1>8 DEF Reading
<1>10. TurnOf(fs, l, j)
  BY <1>4, <1>9, TurnIs
<1>11. ASSUME parses' = parses, status' = "idle", Done' PROVE Step'
  BY <1>11 DEF Step
<1>12. CASE Undefined
  BY <1>12 DEF Undefined, Step
<1>13. CASE EndOfInput /\ begin + Len(AllBytes(fs)) > Len(stream)
  <2>1. closed /\ outcome' = "cut" /\ status' = "idle" /\ parses' = parses
    BY <1>13 DEF EndOfInput, ParserReturn
  <2>2. sent[parses].end > Len(stream)
    BY <1>3, <1>7, <1>8, <1>13
  <2>3. Done'
    BY <1>1, <2>1, <2>2 DEF Done
  <2>4. QED
    BY <1>11, <2>1, <2>3
<1>14. ASSUME NEW f \in {Seen(fs[j + 1], cp)}, f \in NextField,
              f.soh = begin + End(fs, j + 1), f.soh <= Len(stream),
              \/ j + 1 = Len(fs) /\ CheckSumField(f)
              \/ j + 1 < Len(fs) /\ CutShort(f) /\ begin + l > Len(stream)
              \/ /\ j + 1 < Len(fs) /\ Stores(f)
                 /\ ReadTo(f) <= begin + Len(AllBytes(fs))
       PROVE  Step'
  <2>1. CASE j + 1 = Len(fs) /\ CheckSumField(f)
    <3>1. End(fs, j + 1) = l
      <4>1. j \in 0 .. Len(fs) - 1 /\ begin \in Nat /\ Len(stream) \in Nat /\ fs \in Seq(Fields)
        BY <1>3, <1>4, <1>7 DEF Readable
      <4>2. QED
        BY <1>3, <1>8, <2>1, <4>1, FieldInMessage
    <3>2. f.soh = a + l /\ a + l <= n
      BY <1>7, <1>14, <3>1
    <3>3. PICK h \in Nat : h = f.soh /\ h = a + l
      BY <1>3, <3>2
    <3>4. taken' = Max({t, h}) /\ status' = "idle" /\ outcome' = "complete" /\ parses' = parses
      BY <1>7, <2>1, <3>3 DEF CheckSumField, ParserReturn
    <3>5. Max({t, h}) = h
      <4>1. t <= h
        BY <1>6, <1>7, <1>8, <3>3
      <4>2. Max({t, h}) \in {t, h} /\ h <= Max({t, h})
        BY MaxOfTwo
      <4>3. QED
        BY <4>1, <4>2
    <3>6. Done'
      BY <1>1, <1>7, <1>8, <3>2, <3>3, <3>4, <3>5 DEF Done
    <3>7. QED
      BY <1>11, <3>4, <3>6
  <2>2. CASE CutShort(f) /\ begin + l > Len(stream)
    <3>1. closed /\ outcome' = "cut" /\ status' = "idle" /\ parses' = parses
      BY <2>2 DEF CutShort, ParserReturn
    <3>2. sent[parses].end > Len(stream)
      BY <1>3, <1>7, <1>8, <2>2
    <3>3. Done'
      BY <1>1, <3>1, <3>2 DEF Done
    <3>4. QED
      BY <1>11, <3>1, <3>3
  <2>3. CASE j + 1 < Len(fs) /\ Stores(f) /\ ReadTo(f) <= begin + Len(AllBytes(fs))
    <3>1. Store(f)
      BY <2>3 DEF Stores, PlainField, OpenGroup, NextGroup, CloseGroup
    <3>2. /\ taken' = Max({taken, ReadTo(f)}) /\ cp' = f.soh
          /\ begin' = begin /\ status' = status /\ parses' = parses
      BY <3>1 DEF Store
    <3>3. taken' <= a + l
      <4>1. StreamInv'
        BY ParserInvKept
      <4>2. ReadTo(f) \in Nat
        <5>1. ReadTo(f) \in Int /\ ReadTo(f) >= f.soh /\ f.soh \in Nat
          <6>1. f \in NextField
            BY <1>14
          <6>2. f \in RawFields
            BY <1>7, <6>1, NextFieldIs DEF StreamInv, ParserInv, Positions
          <6>3. QED
            BY <6>2, ReadToIs DEF RawFields
        <5>2. QED
          BY <5>1
      <4>3. PICK r \in Nat : r = ReadTo(f)
        BY <4>2
      <4>4. taken' \in {t, r}
        BY <1>7, <3>2, <4>3, MaxOfTwo
      <4>5. t <= a + l /\ r <= a + l
        BY <1>3, <1>6, <1>7, <1>8, <2>3, <4>3
      <4>6. QED
        BY <4>4, <4>5
    <3>4. Within'
      <4>1. j + 1 \in 0 .. m - 1 /\ cp' = begin + End(fs, j + 1)
        BY <1>3, <1>14, <2>3, <3>2
      <4>2. Message(parses)' = fs /\ Start(parses)' = Start(parses) /\ sent'[parses] = sent[parses]
        BY <1>1, <1>2, <3>2 DEF Message, Start
      <4>3. (\E i \in 0 .. Len(Message(parses)) - 1 : cp = begin + End(Message(parses), i))'
        <5>1. End(Message(parses), j + 1)' = End(fs, j + 1)
          BY <4>2 DEF End, First
        <5>2. QED
          BY <1>3, <3>2, <4>1, <4>2, <5>1
      <4>4. QED
        BY <1>1, <1>6, <1>8, <3>2, <3>3, <4>2, <4>3 DEF Within
    <3>5. QED
      BY <3>2, <3>4 DEF Step
  <2>4. QED
    BY <1>14, <2>1, <2>2, <2>3
<1>15. QED
  BY <1>10, <1>12, <1>13, <1>14 DEF TurnOf

(* A step of the parser keeps StepInv.                                     *)
LEMMA ParserKeepsStep ==
  ASSUME StreamInv, StepInv, ParserStep
  PROVE  StepInv'
<1>1. UNCHANGED <<stream, closed, sent>>
  BY DEF ParserStep
<1>2. Wire'
  BY <1>1, WireStays DEF StepInv
<1>3. status = "parsing" /\ parses' = parses
  BY DEF ParserStep, EndOfInput, Undefined, ReadField, CheckSumField, CutShort,
         PlainField, OpenGroup, NextGroup, CloseGroup, Store, ParserReturn
<1>4. parses # 0
  BY <1>3 DEF StepInv, Step
<1>5. CASE Lost
  <2>1. Lost'
    BY <1>1, <1>3, <1>5 DEF Lost
  <2>2. QED
    BY <1>2, <1>3, <1>4, <2>1 DEF StepInv, Step
<1>6. CASE Within /\ parses \in 1 .. Len(sent) /\ sent[parses].framed
  BY <1>2, <1>3, <1>4, <1>6, ReadKeepsStep DEF StepInv
<1>7. CASE parses \in 1 .. Len(sent) /\ ~sent[parses].framed
  <2>1. PICK p \in Nat : p = parses /\ p \in 1 .. p
    BY <1>4 DEF StreamInv, ParserInv, Control
  <2>2. Lost'
    BY <1>1, <1>3, <1>7, <2>1 DEF Lost
  <2>3. QED
    BY <1>2, <1>3, <1>4, <2>2 DEF StepInv, Step
<1>8. CASE Within /\ parses \notin 1 .. Len(sent)
  <2>1. PICK n \in Nat : n = Len(stream) /\ cp = n
    BY <1>8 DEF Within, StreamInv, ParserInv, Positions
  <2>2. NextField = {}
    <3>1. ~Holds(cp, EQ)
      BY <2>1 DEF Holds
    <3>2. QED
      BY <3>1 DEF NextField
  <2>3. CASE EndOfInput
    <3>1. closed /\ outcome' = "cut" /\ status' = "idle"
      BY <2>3 DEF EndOfInput, ParserReturn
    <3>2. Done'
      BY <1>1, <1>3, <1>8, <3>1 DEF Done
    <3>3. QED
      BY <1>2, <1>3, <1>4, <3>1, <3>2 DEF StepInv, Step
  <2>4. CASE Undefined
    BY <1>2, <1>3, <1>4, <2>4 DEF Undefined, StepInv, Step
  <2>5. QED
    BY <2>2, <2>3, <2>4 DEF ParserStep
<1>9. QED
  BY <1>3, <1>4, <1>5, <1>6, <1>7, <1>8 DEF StepInv, Step

(* StepInv holds at first,                                                 *)
LEMMA StepInit == Init => StepInv
<1> SUFFICES ASSUME Init PROVE StepInv
  OBVIOUS
<1>1. sent = <<>> /\ stream = <<>> /\ parses = 0 /\ status = "idle" /\ taken = 0
  BY DEF Init, ParserInit
<1>2. sent \in Seq({}) /\ Len(sent) = 0 /\ Len(stream) = 0 /\ 1 .. Len(sent) = {}
  BY <1>1
<1>3. Start(Len(sent) + 1) = 0
  BY <1>2 DEF Start
<1>4. QED
  BY <1>1, <1>2, <1>3 DEF StepInv, Wire, Step

(* is kept by every step,                                                  *)
LEMMA StepNext == StreamInv /\ StepInv /\ [Next]_vars => StepInv'
<1> SUFFICES ASSUME StreamInv, StepInv, [Next]_vars PROVE StepInv'
  OBVIOUS
<1>1. ASSUME NEW b \in Bodies, Send(b) PROVE StepInv'
  <2>1. PICK q \in Seq(Byte) : q = Frame(b)
    BY FrameType
  <2>2. b \in Bodies \cup CutBodies /\ Len(q) <= Len(Frame(b)) /\ Len(q) = Len(Frame(b))
    BY <2>1
  <2>3. ~closed /\ stream' = stream \o q /\ Announce(b) /\ UNCHANGED parserVars
    BY <1>1, <2>1 DEF Send
  <2>4. QED
    BY <2>1, <2>2, <2>3, ArrivalKeepsStep
<1>2. ASSUME NEW b \in CutBodies, NEW n \in 0 .. Len(Frame(b)) - 1, HangUp(b, n)
      PROVE  StepInv'
  <2>1. PICK w \in Seq(Byte) : w = Frame(b)
    BY FrameType
  <2>2. PICK q \in Seq(Byte) : q = SubSeq(w, 1, n) /\ Len(q) = n /\ \A i \in 1 .. n : q[i] = w[i]
    <3>1. 1 \in 1 .. Len(w) + 1 /\ n \in 0 .. Len(w) /\ 1 <= n + 1
      BY <1>2, <2>1
    <3>2. PartOf(Byte, w, 1, n, SubSeq(w, 1, n))
      BY <3>1, PartIs
    <3>3. n - 1 + 1 = n /\ \A i \in 1 .. n : 1 + i - 1 = i
      BY <3>1
    <3>4. QED
      BY <3>2, <3>3 DEF PartOf
  <2>3. b \in Bodies \cup CutBodies /\ Len(q) <= Len(Frame(b))
    BY <1>2, <2>1, <2>2
  <2>4. ~closed /\ closed' /\ stream' = stream \o q /\ Announce(b) /\ UNCHANGED parserVars
    BY <1>2, <2>1, <2>2 DEF HangUp
  <2>5. QED
    BY <2>1, <2>2, <2>3, <2>4, ArrivalKeepsStep
<1>3. CASE ParserCall
  BY <1>3, CallKeepsStep
<1>4. CASE ParserStep
  BY <1>4, ParserKeepsStep
<1>5. CASE UNCHANGED vars
  <2>1. Wire'
    BY <1>5, WireStays DEF vars, StepInv
  <2>2. QED
    BY <1>5, <2>1 DEF vars, parserVars, StepInv, Step, Lost, Within, Done, Message, Start,
                       End, First
<1>6. QED
  BY <1>1, <1>2, <1>3, <1>4, <1>5 DEF Next

(* and says that the parser is in step.                                    *)
LEMMA StepInvIsInStep == StreamInv /\ StepInv => InStep
<1> SUFFICES ASSUME StreamInv, StepInv, status = "idle", Framed
             PROVE  IF sent[parses].end <= Len(stream)
                    THEN outcome = "complete" /\ taken = sent[parses].end
                    ELSE outcome = "cut"
  BY DEF InStep
<1>1. PICK p \in Nat, n \in Nat, m \in Nat : p = parses /\ n = Len(stream) /\ m = Len(sent)
  BY DEF StreamInv, ParserInv, Positions, Control, StepInv, Wire
<1>2. p > 0 /\ \A k \in 1 .. p : k \in 1 .. m /\ sent[k].framed
  <2>1. DOMAIN sent = 1 .. m
    BY <1>1 DEF StepInv, Wire
  <2>2. QED
    BY <1>1, <2>1 DEF Framed
<1>3. \A k \in 1 .. m : sent[k].end \in Nat
  BY <1>1, OnWireIs DEF StepInv
<1>4. ~Lost
  <2>1. ASSUME NEW k \in 1 .. p - 1 PROVE ~(sent[k].end > n)
    <3>1. k \in 1 .. p /\ k + 1 \in 1 .. p /\ k + 1 # 1 /\ (k + 1) - 1 = k
      BY <1>2
    <3>2. Start(k + 1) = sent[k].end /\ Start(k + 1) \in 0 .. n
      BY <1>1, <1>2, <3>1 DEF StepInv, Wire, OnWire, Start
    <3>3. QED
      BY <3>2
  <2>2. \A k \in 1 .. p - 1 : k \in 1 .. m
    BY <1>2
  <2>3. QED
    BY <1>1, <1>2, <2>1, <2>2 DEF Lost
<1>5. Done
  BY <1>1, <1>2, <1>4 DEF StepInv, Step
<1>6. p \in 1 .. m
  BY <1>2
<1>7. PICK e \in Nat : e = sent[parses].end
  BY <1>1, <1>3, <1>6
<1>8. (taken = e /\ e <= n /\ outcome = "complete") \/ (outcome = "cut" /\ e > n)
  BY <1>1, <1>5, <1>6, <1>7 DEF Done
<1>9. QED
  BY <1>1, <1>7, <1>8

(* A parser that has read nothing but whole messages whose length is not   *)
(* too large stands between two of them: what parse takes of the stream    *)
(* ends with the message, although a length that is too small is read past *)
(* byte by byte, and nothing of the next one is lost.                      *)
THEOREM ParserStaysInStep == Spec => []InStep
<1>1. Init => StreamInv /\ StepInv
  BY StepInit, StreamInitInv DEF Init
<1>2. StreamInv /\ StepInv /\ [Next]_vars => (StreamInv /\ StepInv)'
  BY FeedNextInv, StepNext
<1>3. QED
  BY <1>1, <1>2, StepInvIsInStep, PTL DEF Spec

-----------------------------------------------------------------------------
(* The tree that parse makes is the one GroupTree describes.               *)

(* Where in its list a map is: idx counts from 0.                          *)
Indexed(ms, par, slot, idx) ==
  /\ \A j \in 2 .. Len(ms) :
       /\ idx[j] \in 0 .. j - 1
       /\ ms[j].next # 0 => idx[ms[j].next] = idx[j] + 1
  /\ \A i \in DOMAIN ms : \A k \in DOMAIN ms[i].fields :
       ms[i].fields[k].groups # 0 => idx[ms[i].fields[k].groups] = 0

(* A tag has one field in a map.                                           *)
Distinct(ms) ==
  \A i \in DOMAIN ms : \A k, l \in DOMAIN ms[i].fields :
    ms[i].fields[k].tag = ms[i].fields[l].tag => k = l

Tag(ms, par, slot, j) == Owner(ms, par, slot, j).tag

(* The maps that hang off a field.                                         *)
LEMMA OnIs ==
  ASSUME NEW ms, NEW par, NEW slot, NEW i, NEW k
  PROVE  \E S : /\ S = On(ms, par, slot, i, k)
                /\ \A j : j \in S <=> j \in 2 .. Len(ms) /\ par[j] = i /\ slot[j] = k
<1> WITNESS On(ms, par, slot, i, k)
<1>1. QED
  BY DEF On

(* group takes the maps of a list in the order of their indices.           *)
LEMMA WalkIndexed ==
  ASSUME NEW ms \in MapSeqs, NEW par, NEW slot, NEW idx,
         Owned(ms, par, slot), Indexed(ms, par, slot, idx),
         NEW i \in DOMAIN ms, NEW k \in DOMAIN ms[i].fields,
         NEW e, e = ms[i].fields[k], e.groups \in 0 .. Len(ms), NEW m \in Nat
  PROVE  \/ group(ms, e, m) = 0
         \/ /\ group(ms, e, m) \in On(ms, par, slot, i, k)
            /\ idx[group(ms, e, m)] = m
<1>1. PICK n \in Nat : n = Len(ms) /\ DOMAIN ms = 1 .. n
  BY MapSeqIs
<1>2. Forward(Nx(ms), n)
  BY <1>1, NxForward
<1>3. PICK G : G = [x \in Nat |-> group(ms, e, x)]
  OBVIOUS
<1>4. G[0] = e.groups /\ \A x \in Nat : G[x + 1] = Nx(ms)[G[x]]
  <2>1. group(ms, e, 0) = e.groups /\ \A x \in Nat : group(ms, e, x + 1) = Nx(ms)[group(ms, e, x)]
    BY <1>1, <1>2, GroupSteps
  <2>2. \A x \in Nat : x + 1 \in Nat /\ G[x + 1] = group(ms, e, x + 1) /\ G[x] = group(ms, e, x)
    BY <1>3
  <2>3. QED
    BY <1>3, <2>1, <2>2
<1>5. PICK S : /\ S = On(ms, par, slot, i, k)
               /\ \A j : j \in S <=> j \in 2 .. n /\ par[j] = i /\ slot[j] = k
  BY <1>1, OnIs
<1> DEFINE Q == {x \in Nat : G[x] = 0 \/ (G[x] \in S /\ idx[G[x]] = x)}
<1>6. 0 \in Q
  <2> SUFFICES ASSUME e.groups # 0 PROVE e.groups \in S /\ idx[e.groups] = 0
    BY <1>4
  <2>1. Held(ms, par, slot, i, k)
    BY DEF Owned
  <2>2. e.groups \in S
    BY <1>1, <1>5, <2>1 DEF Held
  <2>3. QED
    BY <2>2 DEF Indexed
<1>7. ASSUME NEW x \in Nat, x \in Q PROVE x + 1 \in Q
  <2>1. PICK y \in Nat : y = x + 1
    OBVIOUS
  <2>2. CASE G[x] = 0
    <3>1. Nx(ms)[0] = 0
      BY <1>2 DEF Forward
    <3>2. QED
      BY <1>4, <2>1, <2>2, <3>1
  <2>3. CASE G[x] # 0
    <3>1. PICK j : j = G[x] /\ j \in 2 .. n /\ par[j] = i /\ slot[j] = k /\ idx[j] = x
      BY <1>5, <1>7, <2>3
    <3>2. G[y] = ms[j].next
      <4>1. j \in 0 .. n /\ j # 0
        BY <3>1
      <4>2. QED
        BY <1>1, <1>4, <2>1, <3>1, <4>1 DEF Nx
    <3>3. Linked(ms, par, slot, j)
      BY <1>1, <3>1 DEF Owned
    <3>4. ms[j].next # 0 => ms[j].next \in 2 .. n /\ par[ms[j].next] = i /\ slot[ms[j].next] = k
      <4>1. ms[j].next # 0 => ms[j].next \in j + 1 .. n /\ par[ms[j].next] = i /\ slot[ms[j].next] = k
        BY <1>1, <3>1, <3>3 DEF Linked
      <4>2. j + 1 .. n \subseteq 2 .. n
        BY <3>1
      <4>3. QED
        BY <4>1, <4>2
    <3>5. ms[j].next # 0 => idx[ms[j].next] = y
      BY <1>1, <2>1, <3>1 DEF Indexed
    <3>6. QED
      BY <1>5, <2>1, <3>2, <3>4, <3>5
  <2>4. QED
    BY <2>2, <2>3
<1>8. Nat \subseteq Q
  <2> HIDE DEF Q
  <2>1. QED
    BY <1>6, <1>7, NatInduct
<1>9. m \in Q /\ G[m] = group(ms, e, m)
  BY <1>3, <1>8
<1>10. QED
  BY <1>5, <1>9

(* A map is at its index, and the count is the index of the next to come.  *)
LEMMA IndexIs ==
  ASSUME NEW ms \in MapSeqs, NEW par, NEW slot, NEW idx,
         Owned(ms, par, slot), Indexed(ms, par, slot, idx),
         NEW i \in DOMAIN ms, NEW k \in DOMAIN ms[i].fields,
         NEW e, e = ms[i].fields[k], e.groups \in 0 .. Len(ms)
  PROVE  /\ groupCount(ms, e) \in Nat
         /\ \A j \in On(ms, par, slot, i, k) :
              /\ idx[j] \in Nat /\ idx[j] < groupCount(ms, e)
              /\ group(ms, e, idx[j]) = j
         /\ \A m \in Nat : m < groupCount(ms, e) =>
              /\ group(ms, e, m) \in On(ms, par, slot, i, k)
              /\ idx[group(ms, e, m)] = m
         /\ groupCount(ms, e) = IF e.groups = 0 THEN 0 ELSE idx[e.tail] + 1
<1>1. PICK n \in Nat : n = Len(ms) /\ DOMAIN ms = 1 .. n
  BY MapSeqIs
<1>2. PICK S : /\ S = On(ms, par, slot, i, k)
               /\ \A j : j \in S <=> j \in 2 .. n /\ par[j] = i /\ slot[j] = k
  BY <1>1, OnIs
<1>3. PICK G : G = [x \in Nat |-> group(ms, e, x)]
  OBVIOUS
<1>4. PICK c : c = groupCount(ms, e)
  OBVIOUS
<1>5. Lists(ms, par, slot, i, k, c, G)
  BY <1>3, <1>4, ListIs
<1>6. /\ c \in Nat
      /\ \A m \in Nat : m < c => G[m] \in S
      /\ \A j \in S : \E m \in Nat : m < c /\ G[m] = j
      /\ e.groups # 0 => c >= 1 /\ G[c - 1] = e.tail
  BY <1>2, <1>5 DEF Lists
<1>7. \A m \in Nat : G[m] = group(ms, e, m) /\ (G[m] = 0 \/ (G[m] \in S /\ idx[G[m]] = m))
  BY <1>2, <1>3, WalkIndexed
<1>8. \A j \in S : j # 0
  BY <1>2
<1>9. \A m \in Nat : m < c => G[m] \in S /\ idx[G[m]] = m
  BY <1>6, <1>7, <1>8
<1>10. ASSUME NEW j \in S PROVE idx[j] \in Nat /\ idx[j] < c /\ group(ms, e, idx[j]) = j
  <2>1. PICK m \in Nat : m < c /\ G[m] = j
    BY <1>6
  <2>2. idx[j] = m
    BY <1>9, <2>1
  <2>3. QED
    BY <1>7, <2>1, <2>2
<1>11. c = IF e.groups = 0 THEN 0 ELSE idx[e.tail] + 1
  <2>1. CASE e.groups = 0
    <3>1. PICK d \in [0 .. n -> Nat] : Counts(d, Nx(ms), n) /\ groupCount(ms, e) = d[e.groups]
      BY <1>1, CountIs, NxForward
    <3>2. QED
      BY <1>4, <2>1, <3>1 DEF Counts
  <2>2. CASE e.groups # 0
    <3>1. c - 1 \in Nat /\ c - 1 < c /\ G[c - 1] = e.tail
      BY <1>6, <2>2
    <3>2. idx[e.tail] = c - 1
      BY <1>9, <3>1
    <3>3. QED
      BY <1>6, <2>2, <3>2
  <2>3. QED
    BY <2>1, <2>2
<1>12. \A m \in Nat : m < c => group(ms, e, m) \in S /\ idx[group(ms, e, m)] = m
  BY <1>7, <1>9
<1>13. QED
  BY <1>2, <1>4, <1>6, <1>10, <1>11, <1>12

(* What getGroup finds is the map with that owner, tag and index.          *)
LEMMA GetGroupIs ==
  ASSUME NEW ms \in MapSeqs, NEW par, NEW slot, NEW idx,
         Owned(ms, par, slot), Indexed(ms, par, slot, idx), Distinct(ms),
         \A i \in DOMAIN ms : MapOK(ms[i], Len(ms)),
         NEW i \in DOMAIN ms, NEW t, NEW m \in Nat
  PROVE  /\ getGroup(ms, i, t, m) \in 0 .. Len(ms)
         /\ \A j \in 1 .. Len(ms) :
              getGroup(ms, i, t, m) = j <=>
                j # 1 /\ par[j] = i /\ Tag(ms, par, slot, j) = t /\ idx[j] = m
<1>1. PICK n \in Nat : n = Len(ms) /\ DOMAIN ms = 1 .. n
  BY MapSeqIs
<1>2. PICK k : k = find(ms[i], t)
  OBVIOUS
<1>3. /\ ms[i] \in MapType /\ Len(ms[i].fields) \in Nat
      /\ DOMAIN ms[i].fields = 1 .. Len(ms[i].fields)
  BY MapSeqIs
<1>4. /\ k \in 0 .. Len(ms[i].fields)
      /\ k # 0 => ms[i].fields[k].tag = t
      /\ k = 0 => \A l \in DOMAIN ms[i].fields : ms[i].fields[l].tag # t
  BY <1>2, <1>3, FindIs
<1>5. ASSUME NEW j \in 2 .. n, par[j] = i PROVE slot[j] \in DOMAIN ms[i].fields
  <2>1. Linked(ms, par, slot, j)
    BY <1>1 DEF Owned
  <2>2. QED
    BY <1>5, <2>1 DEF Linked
<1>6. CASE k = 0
  <2>1. getGroup(ms, i, t, m) = 0
    BY <1>2, <1>6 DEF getGroup, get
  <2>2. ASSUME NEW j \in 2 .. n, par[j] = i PROVE Tag(ms, par, slot, j) # t
    BY <1>4, <1>5, <1>6, <2>2 DEF Tag, Owner
  <2>3. \A j \in 1 .. n : j # 1 => j \in 2 .. n
    OBVIOUS
  <2>4. QED
    BY <1>1, <2>1, <2>2, <2>3
<1>7. CASE k # 0
  <2>1. k \in DOMAIN ms[i].fields /\ ms[i].fields[k].tag = t
    BY <1>3, <1>4, <1>7
  <2>2. PICK e : e = ms[i].fields[k]
    OBVIOUS
  <2>3. getGroup(ms, i, t, m) = group(ms, e, m)
    BY <1>2, <1>7, <2>2 DEF getGroup, get
  <2>4. e.groups \in 0 .. n
    BY <1>1, <2>1, <2>2 DEF MapOK, EntryOK
  <2>5. PICK S : /\ S = On(ms, par, slot, i, k)
               /\ \A j : j \in S <=> j \in 2 .. n /\ par[j] = i /\ slot[j] = k
    BY <1>1, OnIs
  <2>6. group(ms, e, m) = 0 \/ (group(ms, e, m) \in S /\ idx[group(ms, e, m)] = m)
    BY <1>1, <2>1, <2>2, <2>4, <2>5, WalkIndexed
  <2>7. \A j \in S : group(ms, e, idx[j]) = j
    BY <1>1, <2>1, <2>2, <2>4, <2>5, IndexIs
  <2>8. ASSUME NEW j \in 2 .. n, par[j] = i PROVE slot[j] = k <=> Tag(ms, par, slot, j) = t
    BY <1>5, <2>1, <2>8 DEF Tag, Owner, Distinct
  <2>9. ASSUME NEW j \in 1 .. n
        PROVE  group(ms, e, m) = j <=>
                 j # 1 /\ par[j] = i /\ Tag(ms, par, slot, j) = t /\ idx[j] = m
    <3>1. ASSUME group(ms, e, m) = j
          PROVE  j # 1 /\ par[j] = i /\ Tag(ms, par, slot, j) = t /\ idx[j] = m
      <4>1. j \in S /\ idx[j] = m
        BY <2>6, <3>1
      <4>2. QED
        BY <2>5, <2>8, <4>1
    <3>2. ASSUME j # 1, par[j] = i, Tag(ms, par, slot, j) = t, idx[j] = m
          PROVE  group(ms, e, m) = j
      <4>1. j \in 2 .. n
        BY <3>2
      <4>2. j \in S
        BY <2>5, <2>8, <3>2, <4>1
      <4>3. QED
        BY <2>7, <3>2, <4>2
    <3>3. QED
      BY <3>1, <3>2
  <2>10. group(ms, e, m) \in 0 .. n
    BY <2>5, <2>6
  <2>11. QED
    BY <1>1, <2>3, <2>9, <2>10
<1>8. QED
  BY <1>6, <1>7

-----------------------------------------------------------------------------
(* Where in the tree a map is.                                             *)
Keys == Tags \X Nat
Key(ms, par, slot, idx, j) == <<Tag(ms, par, slot, j), idx[j]>>

(* a is the first k elements of b.                                         *)
Begins(a, k, b) == Len(a) = k /\ \A x \in 1 .. k : a[x] = b[x]

(* P gives each of the maps the path to it, and no two of them the same.   *)
Paths(ms, par, slot, idx, P) ==
  /\ P \in [1 .. Len(ms) -> Seq(Keys)]
  /\ P[1] = <<>>
  /\ \A j \in 2 .. Len(ms) : P[j] = Append(P[par[j]], Key(ms, par, slot, idx, j))
  /\ \A i, j \in 1 .. Len(ms) : P[i] = P[j] => i = j
  /\ \A j \in 1 .. Len(ms) : \A k \in 0 .. Len(P[j]) :
       \E i \in 1 .. Len(ms) : Begins(P[i], k, P[j])

(* The tree that maps ms make: each has a place, and each tag a field.     *)
Shape(ms, par, slot, idx, P) ==
  /\ Owned(ms, par, slot) /\ Indexed(ms, par, slot, idx)
  /\ Distinct(ms) /\ Paths(ms, par, slot, idx, P)

(* The owner of a map, its key, and the step its path takes from it.       *)
LEMMA StepOfPath ==
  ASSUME NEW ms \in MapSeqs, NEW par, NEW slot, NEW idx, NEW P,
         Shape(ms, par, slot, idx, P), NEW j \in 2 .. Len(ms)
  PROVE  /\ par[j] \in 1 .. j - 1 /\ par[j] \in 1 .. Len(ms)
         /\ Key(ms, par, slot, idx, j) \in Keys
         /\ P[par[j]] \in Seq(Keys) /\ P[j] \in Seq(Keys)
         /\ Len(P[j]) = Len(P[par[j]]) + 1
         /\ \A x \in 1 .. Len(P[par[j]]) : P[j][x] = P[par[j]][x]
         /\ P[j][Len(P[par[j]]) + 1] = Key(ms, par, slot, idx, j)
<1>1. PICK n \in Nat : n = Len(ms) /\ DOMAIN ms = 1 .. n /\ j \in 1 .. n
  BY MapSeqIs
<1>2. Linked(ms, par, slot, j)
  BY DEF Shape, Owned
<1>3. PICK i \in 1 .. n : i = par[j] /\ i \in 1 .. j - 1 /\ slot[j] \in DOMAIN ms[i].fields
  <2>1. par[j] \in 1 .. j - 1 /\ slot[j] \in DOMAIN ms[par[j]].fields
    BY <1>2 DEF Linked
  <2>2. par[j] \in 1 .. n
    BY <1>1, <2>1
  <2>3. QED
    BY <2>1, <2>2
<1>4. PICK t \in Tags : t = Tag(ms, par, slot, j)
  <2>1. ms[i].fields[slot[j]] \in EntryType
    BY <1>1, <1>3, MapSeqIs
  <2>2. QED
    BY <1>3, <2>1 DEF Tag, Owner, EntryType
<1>5. PICK m \in Nat : m = idx[j]
  BY <1>1 DEF Shape, Indexed
<1>6. PICK y \in Keys : y = Key(ms, par, slot, idx, j)
  BY <1>4, <1>5 DEF Key, Keys
<1>7. PICK a \in Seq(Keys) : a = P[i]
  BY <1>1 DEF Shape, Paths
<1>8. PICK b \in Seq(Keys) : b = P[j]
  BY <1>1 DEF Shape, Paths
<1>9. b = Append(a, y)
  BY <1>1, <1>3, <1>6, <1>7, <1>8 DEF Shape, Paths
<1>10. Len(b) = Len(a) + 1 /\ b[Len(a) + 1] = y /\ \A x \in 1 .. Len(a) : b[x] = a[x]
  BY <1>9
<1>11. QED
  BY <1>1, <1>3, <1>6, <1>7, <1>8, <1>10

(* p is empty, or leads to a map that hangs off map i and on to map j.     *)
GoesOn(ms, par, slot, idx, P, i, j, p) ==
  \/ p = <<>> /\ j = i
  \/ \E g \in 2 .. Len(ms), r \in Seq(Keys) :
       /\ par[g] = i /\ Joined(Keys, P[g], r, P[j])
       /\ p = <<Key(ms, par, slot, idx, g)>> \o r

(* A path that goes on from that of map i goes on to a map that hangs off  *)
(* it, and from there.                                                     *)
LEMMA PathGoesOn ==
  ASSUME NEW ms \in MapSeqs, NEW par, NEW slot, NEW idx, NEW P,
         Shape(ms, par, slot, idx, P), NEW i \in 1 .. Len(ms), NEW j \in 1 .. Len(ms),
         NEW p \in Seq(Keys), Joined(Keys, P[i], p, P[j])
  PROVE  GoesOn(ms, par, slot, idx, P, i, j, p)
<1>1. PICK n \in Nat : n = Len(ms)
  BY MapSeqIs
<1>2. PICK a \in Seq(Keys), b \in Seq(Keys) : a = P[i] /\ b = P[j]
  BY <1>1 DEF Shape, Paths
<1>3. PICK la \in Nat, lp \in Nat : la = Len(a) /\ lp = Len(p)
  OBVIOUS
<1>4. /\ Len(b) = la + lp
      /\ \A x \in 1 .. la : b[x] = a[x]
      /\ \A x \in 1 .. lp : b[la + x] = p[x]
  BY <1>2, <1>3 DEF Joined
<1>5. CASE lp = 0
  <2>1. p = <<>>
    <3>1. Len(p) = 0
      BY <1>3, <1>5
    <3>2. QED
      BY <3>1, EmptySeq
  <2>2. Len(a) = Len(b) /\ \A x \in 1 .. Len(a) : a[x] = b[x]
    BY <1>3, <1>4, <1>5
  <2>3. a = b
    BY <2>2, SeqEqual
  <2>4. QED
    BY <1>1, <1>2, <2>1, <2>3 DEF Shape, Paths, GoesOn
<1>6. CASE lp # 0
  <2>1. PICK g \in 1 .. n : Begins(P[g], la + 1, b)
    <3>1. la + 1 \in 0 .. Len(b)
      BY <1>3, <1>4, <1>6
    <3>2. QED
      BY <1>1, <1>2, <3>1 DEF Shape, Paths
  <2>2. PICK c \in Seq(Keys) : c = P[g] /\ Len(c) = la + 1 /\ \A x \in 1 .. la + 1 : c[x] = b[x]
    BY <1>1, <2>1 DEF Shape, Paths, Begins
  <2>3. g \in 2 .. n
    <3>1. g # 1
      <4>1. P[1] = <<>> /\ Len(c) # 0
        BY <1>3, <2>2 DEF Shape, Paths
      <4>2. QED
        BY <2>2, <4>1
    <3>2. QED
      BY <3>1
  <2>4. PICK h \in 1 .. n : h = par[g]
    BY <1>1, <2>3, StepOfPath
  <2>5. PICK y \in Keys : y = Key(ms, par, slot, idx, g)
    BY <1>1, <2>3, StepOfPath
  <2>6. PICK d \in Seq(Keys) : /\ d = P[h] /\ Len(c) = Len(d) + 1
                               /\ \A x \in 1 .. Len(d) : c[x] = d[x]
                               /\ c[Len(d) + 1] = y
    <3>1. /\ P[par[g]] \in Seq(Keys) /\ Len(P[g]) = Len(P[par[g]]) + 1
          /\ \A x \in 1 .. Len(P[par[g]]) : P[g][x] = P[par[g]][x]
          /\ P[g][Len(P[par[g]]) + 1] = Key(ms, par, slot, idx, g)
      BY <1>1, <2>3, StepOfPath
    <3>2. QED
      BY <2>2, <2>4, <2>5, <3>1
  <2>7. h = i
    <3>1. Len(d) = Len(a) /\ \A x \in 1 .. Len(d) : d[x] = a[x]
      <4>1. Len(d) = la
        BY <1>3, <2>2, <2>6
      <4>2. \A x \in 1 .. la : x \in 1 .. la + 1
        OBVIOUS
      <4>3. QED
        BY <1>3, <1>4, <2>2, <2>6, <4>1, <4>2
    <3>2. d = a
      BY <3>1, SeqEqual
    <3>3. QED
      BY <1>1, <1>2, <2>6, <3>2 DEF Shape, Paths
  <2>8. p[1] = y
    <3>1. 1 \in 1 .. lp /\ la + 1 \in 1 .. la + 1 /\ Len(d) = la
      BY <1>3, <1>6, <2>2, <2>6
    <3>2. QED
      BY <1>4, <2>2, <2>6, <3>1
  <2>9. PICK r \in Seq(Keys) : Len(r) = lp - 1 /\ \A x \in 1 .. lp - 1 : r[x] = p[x + 1]
    <3>1. 2 \in 1 .. Len(p) + 1 /\ lp \in 0 .. Len(p) /\ 2 <= lp + 1
      BY <1>3, <1>6
    <3>2. PartOf(Keys, p, 2, lp, SubSeq(p, 2, lp))
      BY <3>1, PartIs
    <3>3. lp - 2 + 1 = lp - 1 /\ \A x \in 1 .. lp - 1 : 2 + x - 1 = x + 1
      BY <1>3
    <3>4. PICK r : r = SubSeq(p, 2, lp)
      OBVIOUS
    <3>5. r \in Seq(Keys) /\ Len(r) = lp - 1 /\ \A x \in 1 .. lp - 1 : r[x] = p[x + 1]
      BY <3>2, <3>3, <3>4 DEF PartOf
    <3>6. QED
      BY <3>5
  <2>10. Joined(Keys, c, r, b)
    <3>1. Len(b) = Len(c) + Len(r)
      BY <1>3, <1>4, <2>2, <2>9
    <3>2. ASSUME NEW x \in 1 .. Len(r) PROVE b[Len(c) + x] = r[x]
      <4>1. x \in 1 .. lp - 1 /\ x + 1 \in 1 .. lp /\ Len(c) + x = la + (x + 1)
        BY <1>3, <1>6, <2>2, <2>9, <3>2
      <4>2. QED
        BY <1>4, <2>9, <4>1
    <3>3. QED
      BY <2>2, <3>1, <3>2 DEF Joined
  <2>11. p = <<y>> \o r
    <3>1. <<y>> \in Seq(Keys) /\ Len(<<y>>) = 1 /\ <<y>>[1] = y
      OBVIOUS
    <3>2. PICK s \in Seq(Keys) : s = <<y>>
      BY <3>1
    <3>3. PICK q : q = s \o r
      OBVIOUS
    <3>4. Joined(Keys, s, r, q)
      BY <3>3, ConcatIs
    <3>5. q \in Seq(Keys) /\ Len(q) = lp
      BY <1>3, <1>6, <2>9, <3>1, <3>2, <3>4 DEF Joined
    <3>6. ASSUME NEW x \in 1 .. lp PROVE q[x] = p[x]
      <4>1. CASE x = 1
        BY <2>8, <3>1, <3>2, <3>4, <4>1 DEF Joined
      <4>2. CASE x # 1
        <5>1. PICK z \in 1 .. lp - 1 : z = x - 1 /\ x = 1 + z /\ x = z + 1
          BY <3>6, <4>2
        <5>2. q[1 + z] = r[z]
          BY <2>9, <3>1, <3>2, <3>4 DEF Joined
        <5>3. QED
          BY <2>9, <5>1, <5>2
      <4>3. QED
        BY <4>1, <4>2
    <3>7. QED
      BY <1>3, <3>2, <3>3, <3>5, <3>6, SeqEqual
  <2>12. QED
    BY <1>1, <1>2, <2>2, <2>3, <2>4, <2>5, <2>7, <2>10, <2>11 DEF GoesOn
<1>7. QED
  BY <1>5, <1>6

(* A path goes on from that of a map the way it goes on from the owner's.  *)
LEMMA PathFromOwner ==
  ASSUME NEW ms \in MapSeqs, NEW par, NEW slot, NEW idx, NEW P,
         Shape(ms, par, slot, idx, P), NEW g \in 2 .. Len(ms), NEW j \in 1 .. Len(ms),
         NEW r \in Seq(Keys), Joined(Keys, P[g], r, P[j])
  PROVE  LET p == <<Key(ms, par, slot, idx, g)>> \o r IN
         p \in Seq(Keys) /\ Joined(Keys, P[par[g]], p, P[j])
<1>1. PICK n \in Nat : n = Len(ms) /\ g \in 1 .. n
  BY MapSeqIs
<1>2. PICK i \in 1 .. n : i = par[g]
  BY <1>1, StepOfPath
<1>3. PICK y \in Keys : y = Key(ms, par, slot, idx, g)
  BY StepOfPath
<1>4. PICK a \in Seq(Keys), b \in Seq(Keys), c \in Seq(Keys) : a = P[i] /\ b = P[j] /\ c = P[g]
  BY <1>1 DEF Shape, Paths
<1>5. PICK la \in Nat, lr \in Nat : la = Len(a) /\ lr = Len(r)
  OBVIOUS
<1>6. Len(c) = la + 1 /\ c[la + 1] = y /\ \A x \in 1 .. la : c[x] = a[x]
  BY <1>2, <1>3, <1>4, <1>5, StepOfPath
<1>7. /\ Len(b) = la + 1 + lr
      /\ \A x \in 1 .. la + 1 : b[x] = c[x]
      /\ \A x \in 1 .. lr : b[la + 1 + x] = r[x]
  BY <1>4, <1>5, <1>6 DEF Joined
<1>8. PICK s \in Seq(Keys) : s = <<y>> /\ Len(s) = 1 /\ s[1] = y
  <2>1. <<y>> \in Seq(Keys) /\ Len(<<y>>) = 1 /\ <<y>>[1] = y
    OBVIOUS
  <2>2. QED
    BY <2>1
<1>9. PICK p : p = s \o r
  OBVIOUS
<1>10. Joined(Keys, s, r, p)
  BY <1>9, ConcatIs
<1>11. /\ p \in Seq(Keys) /\ Len(p) = 1 + lr /\ p[1] = y
       /\ \A x \in 1 .. lr : p[1 + x] = r[x]
  <2>1. 1 \in 1 .. 1
    OBVIOUS
  <2>2. QED
    BY <1>5, <1>8, <1>10, <2>1 DEF Joined
<1>12. Joined(Keys, a, p, b)
  <2>1. Len(b) = Len(a) + Len(p)
    BY <1>5, <1>7, <1>11
  <2>2. ASSUME NEW x \in 1 .. la PROVE b[x] = a[x]
    <3>1. x \in 1 .. la + 1
      OBVIOUS
    <3>2. QED
      BY <1>6, <1>7, <3>1
  <2>3. ASSUME NEW x \in 1 .. 1 + lr PROVE b[la + x] = p[x]
    <3>1. CASE x = 1
      <4>1. la + 1 \in 1 .. la + 1
        OBVIOUS
      <4>2. QED
        BY <1>6, <1>7, <1>11, <3>1, <4>1
    <3>2. CASE x # 1
      <4>1. PICK z \in 1 .. lr : x = 1 + z /\ la + x = la + 1 + z
        <5>1. x - 1 \in 1 .. lr /\ x = 1 + (x - 1) /\ la + x = la + 1 + (x - 1)
          BY <3>2
        <5>2. QED
          BY <5>1
      <4>2. QED
        BY <1>7, <1>11, <4>1
    <3>3. QED
      BY <3>1, <3>2
  <2>4. QED
    BY <1>5, <1>11, <2>1, <2>2, <2>3 DEF Joined
<1>13. QED
  BY <1>2, <1>3, <1>4, <1>8, <1>9, <1>11, <1>12

-----------------------------------------------------------------------------
(* The nodes a reader finds are the maps, each with its path.              *)

(* The nodes a reader reaches from map i, when w gives those it reaches    *)
(* from the maps that hang off it.                                         *)
Reach(i, w) ==
  {<<<<>>, i>>} \cup UNION {UNION {
     {<<<<<<t, n>>>> \o q[1], q[2]>> : q \in w[getGroup(maps, i, t, n)]} :
       n \in {m \in 0 .. Len(maps) : getGroup(maps, i, t, m) # 0}} :
       t \in Range(tags(i))}

IsNodes(w) == w = [i \in 1 .. Len(maps) |-> Reach(i, w)]

(* One step further.                                                       *)
Further(y, q) == <<<<y>> \o q[1], q[2]>>

Reached(i, w, z) ==
  \/ z = <<<<>>, i>>
  \/ \E t \in Range(tags(i)), m \in 0 .. Len(maps) :
       /\ getGroup(maps, i, t, m) # 0
       /\ \E q \in w[getGroup(maps, i, t, m)] : z = Further(<<t, m>>, q)

(* Reach, without the sets of sets.                                        *)
LEMMA ReachIs ==
  ASSUME NEW i, NEW w, NEW z
  PROVE  z \in Reach(i, w) <=> Reached(i, w, z)
<1> DEFINE A(t, n) == {Further(<<t, n>>, q) : q \in w[getGroup(maps, i, t, n)]}
           B(t) == {m \in 0 .. Len(maps) : getGroup(maps, i, t, m) # 0}
           C(t) == {A(t, n) : n \in B(t)}
           D == {UNION C(t) : t \in Range(tags(i))}
<1>1. Reach(i, w) = {<<<<>>, i>>} \cup UNION D
  BY DEF Reach, Further
<1>2. z \in UNION D <=> \E t \in Range(tags(i)) : z \in UNION C(t)
  <2> HIDE DEF C
  <2>1. QED
    OBVIOUS
<1>3. \A t : z \in UNION C(t) <=> \E n \in B(t) : z \in A(t, n)
  <2> HIDE DEF A, B
  <2>1. QED
    OBVIOUS
<1>4. \A t, n : z \in A(t, n) <=> \E q \in w[getGroup(maps, i, t, n)] : z = Further(<<t, n>>, q)
  OBVIOUS
<1>5. z \in Reach(i, w) <=> z = <<<<>>, i>> \/ z \in UNION D
  <2> HIDE DEF D
  <2>1. QED
    BY <1>1
<1>6. QED
  <2> HIDE DEF A, C, D
  <2>1. QED
    BY <1>2, <1>3, <1>4, <1>5 DEF Reached

(* They are reached by way of the maps that hang off map i.                *)
LEMMA ReachBelow ==
  ASSUME MapsOK(maps), NEW par, NEW slot, NEW idx, NEW P,
         Shape(maps, par, slot, idx, P),
         NEW i \in 1 .. Len(maps), NEW w, NEW z
  PROVE  z \in Reach(i, w) <=>
           \/ z = <<<<>>, i>>
           \/ \E g \in 2 .. Len(maps) :
                par[g] = i /\ \E q \in w[g] : z = Further(Key(maps, par, slot, idx, g), q)
<1>1. PICK n \in Nat : n = Len(maps) /\ DOMAIN maps = 1 .. n
  BY MapSeqIs DEF MapsOK
<1>2. maps \in MapSeqs /\ \A j \in DOMAIN maps : MapOK(maps[j], Len(maps))
  BY DEF MapsOK
<1>3. /\ Owned(maps, par, slot) /\ Indexed(maps, par, slot, idx) /\ Distinct(maps)
  BY DEF Shape
<1>4. ASSUME NEW t, NEW m \in Nat
      PROVE  /\ getGroup(maps, i, t, m) \in 0 .. n
             /\ \A g \in 1 .. n : getGroup(maps, i, t, m) = g <=>
                  g # 1 /\ par[g] = i /\ Tag(maps, par, slot, g) = t /\ idx[g] = m
  <2>1. i \in DOMAIN maps
    BY <1>1
  <2>2. /\ getGroup(maps, i, t, m) \in 0 .. Len(maps)
        /\ \A g \in 1 .. Len(maps) : getGroup(maps, i, t, m) = g <=>
             g # 1 /\ par[g] = i /\ Tag(maps, par, slot, g) = t /\ idx[g] = m
    BY <1>2, <1>3, <2>1, GetGroupIs
  <2>3. QED
    BY <1>1, <2>2
<1>5. ASSUME NEW t, NEW m \in 0 .. n, getGroup(maps, i, t, m) # 0
      PROVE  \E g \in 2 .. n : /\ g = getGroup(maps, i, t, m) /\ par[g] = i
                               /\ Key(maps, par, slot, idx, g) = <<t, m>>
  <2>1. PICK g \in 1 .. n : g = getGroup(maps, i, t, m)
    BY <1>4, <1>5
  <2>2. g # 1 /\ par[g] = i /\ Tag(maps, par, slot, g) = t /\ idx[g] = m
    BY <1>4, <2>1
  <2>3. g \in 2 .. n
    BY <2>2
  <2>4. QED
    BY <2>1, <2>2, <2>3 DEF Key
<1>6. ASSUME NEW g \in 2 .. n, par[g] = i
      PROVE  \E t \in Range(tags(i)), m \in 0 .. n :
               g = getGroup(maps, i, t, m) /\ Key(maps, par, slot, idx, g) = <<t, m>>
  <2>1. PICK t : t = Tag(maps, par, slot, g)
    OBVIOUS
  <2>2. t \in Range(tags(i))
    <3>1. Linked(maps, par, slot, g)
      BY <1>1, <1>3 DEF Owned
    <3>2. slot[g] \in DOMAIN maps[i].fields /\ t = maps[i].fields[slot[g]].tag
      BY <1>6, <2>1, <3>1 DEF Linked, Tag, Owner
    <3>3. slot[g] \in DOMAIN tags(i) /\ t = tags(i)[slot[g]]
      BY <3>2 DEF tags
    <3>4. QED
      BY <3>3 DEF Range
  <2>3. PICK m \in 0 .. n : m = idx[g]
    <3>1. idx[g] \in 0 .. g - 1
      BY <1>1, <1>3 DEF Indexed
    <3>2. 0 .. g - 1 \subseteq 0 .. n
      BY <1>6
    <3>3. QED
      BY <3>1, <3>2
  <2>4. g = getGroup(maps, i, t, m)
    <3>1. g \in 1 .. n /\ g # 1
      BY <1>6
    <3>2. QED
      BY <1>4, <1>6, <2>1, <2>3, <3>1
  <2>5. QED
    BY <2>1, <2>2, <2>3, <2>4 DEF Key
<1>7. ASSUME NEW t \in Range(tags(i)), NEW m \in 0 .. n, getGroup(maps, i, t, m) # 0,
             \E q \in w[getGroup(maps, i, t, m)] : z = Further(<<t, m>>, q)
      PROVE  \E g \in 2 .. n :
                par[g] = i /\ \E q \in w[g] : z = Further(Key(maps, par, slot, idx, g), q)
  <2>1. PICK g \in 2 .. n : /\ g = getGroup(maps, i, t, m) /\ par[g] = i
                            /\ Key(maps, par, slot, idx, g) = <<t, m>>
    BY <1>5, <1>7
  <2>2. \E q \in w[g] : z = Further(Key(maps, par, slot, idx, g), q)
    BY <1>7, <2>1
  <2>3. QED
    BY <2>1, <2>2
<1>8. ASSUME NEW g \in 2 .. n, par[g] = i,
             \E q \in w[g] : z = Further(Key(maps, par, slot, idx, g), q)
      PROVE  \E t \in Range(tags(i)), m \in 0 .. n :
                /\ getGroup(maps, i, t, m) # 0
                /\ \E q \in w[getGroup(maps, i, t, m)] : z = Further(<<t, m>>, q)
  <2>1. PICK t \in Range(tags(i)), m \in 0 .. n :
           g = getGroup(maps, i, t, m) /\ Key(maps, par, slot, idx, g) = <<t, m>>
    BY <1>6, <1>8
  <2>2. g # 0
    OBVIOUS
  <2>3. QED
    BY <1>8, <2>1, <2>2
<1>9. z \in Reach(i, w) <=> Reached(i, w, z)
  BY ReachIs
<1>10. (\E t \in Range(tags(i)), m \in 0 .. Len(maps) :
          /\ getGroup(maps, i, t, m) # 0
          /\ \E q \in w[getGroup(maps, i, t, m)] : z = Further(<<t, m>>, q))
       <=> \E g \in 2 .. Len(maps) :
             par[g] = i /\ \E q \in w[g] : z = Further(Key(maps, par, slot, idx, g), q)
  BY <1>1, <1>7, <1>8
<1>11. QED
  BY <1>9, <1>10 DEF Reached

(* Those below map i, and where they are seen from it.                     *)
Descent(n, P) ==
  [i \in 1 .. n |-> {q \in Seq(Keys) \X (1 .. n) : Joined(Keys, P[i], q[1], P[q[2]])}]

(* They are the nodes that Nodes chooses.                                  *)
LEMMA DescentIsNodes ==
  ASSUME MapsOK(maps), NEW par, NEW slot, NEW idx, NEW P,
         Shape(maps, par, slot, idx, P)
  PROVE  IsNodes(Descent(Len(maps), P))
<1>1. PICK n \in Nat : n = Len(maps)
  BY MapSeqIs DEF MapsOK
<1>2. maps \in MapSeqs
  BY DEF MapsOK
<1>3. PICK w : w = Descent(n, P)
  OBVIOUS
<1>4. \A i \in 1 .. n : \A z : z \in w[i] <=>
         z \in Seq(Keys) \X (1 .. n) /\ Joined(Keys, P[i], z[1], P[z[2]])
  BY <1>3 DEF Descent
<1>5. P \in [1 .. n -> Seq(Keys)]
  BY <1>1 DEF Shape, Paths
<1>6. ASSUME NEW i \in 1 .. n, NEW z, z \in w[i] PROVE z \in Reach(i, w)
  <2>1. PICK p \in Seq(Keys), j \in 1 .. n : z = <<p, j>> /\ Joined(Keys, P[i], p, P[j])
    BY <1>4, <1>6
  <2>2. CASE p = <<>> /\ j = i
    BY <1>1, <2>1, <2>2, ReachBelow
  <2>3. CASE \E g \in 2 .. n, r \in Seq(Keys) :
               /\ par[g] = i /\ Joined(Keys, P[g], r, P[j])
               /\ p = <<Key(maps, par, slot, idx, g)>> \o r
    <3>1. PICK g \in 2 .. n, r \in Seq(Keys) :
               /\ par[g] = i /\ Joined(Keys, P[g], r, P[j])
               /\ p = <<Key(maps, par, slot, idx, g)>> \o r
      BY <2>3
    <3>2. PICK q \in Seq(Keys) \X (1 .. n) : q = <<r, j>> /\ q[1] = r /\ q[2] = j
      <4>1. <<r, j>> \in Seq(Keys) \X (1 .. n) /\ <<r, j>>[1] = r /\ <<r, j>>[2] = j
        OBVIOUS
      <4>2. QED
        BY <4>1
    <3>3. q \in w[g]
      <4>1. g \in 1 .. n
        BY <1>1
      <4>2. QED
        BY <1>4, <3>1, <3>2, <4>1
    <3>4. z = Further(Key(maps, par, slot, idx, g), q)
      BY <2>1, <3>1, <3>2 DEF Further
    <3>5. QED
      BY <1>1, <3>1, <3>3, <3>4, ReachBelow
  <2>4. GoesOn(maps, par, slot, idx, P, i, j, p)
    <3>1. i \in 1 .. Len(maps) /\ j \in 1 .. Len(maps)
      BY <1>1
    <3>2. p \in Seq(Keys) /\ Joined(Keys, P[i], p, P[j])
      BY <2>1
    <3>3. QED
      BY <1>2, <3>1, <3>2, PathGoesOn
  <2>5. QED
    BY <1>1, <2>2, <2>3, <2>4 DEF GoesOn
<1>7. ASSUME NEW i \in 1 .. n, NEW z, z \in Reach(i, w) PROVE z \in w[i]
  <2>1. CASE z = <<<<>>, i>>
    <3>1. PICK e \in Seq(Keys) : e = <<>> /\ Len(e) = 0
      BY EmptySeq
    <3>2. Joined(Keys, P[i], e, P[i])
      <4>1. PICK a \in Seq(Keys) : a = P[i]
        BY <1>5
      <4>2. Joined(Keys, a, e, a)
        BY <3>1 DEF Joined
      <4>3. QED
        BY <4>1, <4>2
    <3>3. PICK q \in Seq(Keys) \X (1 .. n) : q = <<e, i>> /\ q[1] = e /\ q[2] = i
      <4>1. <<e, i>> \in Seq(Keys) \X (1 .. n) /\ <<e, i>>[1] = e /\ <<e, i>>[2] = i
        OBVIOUS
      <4>2. QED
        BY <4>1
    <3>4. QED
      BY <1>4, <2>1, <3>1, <3>2, <3>3
  <2>2. CASE \E g \in 2 .. n :
               par[g] = i /\ \E q \in w[g] : z = Further(Key(maps, par, slot, idx, g), q)
    <3>1. PICK g \in 2 .. n : 
               par[g] = i /\ \E q \in w[g] : z = Further(Key(maps, par, slot, idx, g), q)
      BY <2>2
    <3>2. PICK q \in w[g] : z = Further(Key(maps, par, slot, idx, g), q)
      BY <3>1
    <3>3. PICK r \in Seq(Keys), j \in 1 .. n :
            q[1] = r /\ q[2] = j /\ Joined(Keys, P[g], r, P[j])
      <4>1. g \in 1 .. n
        BY <1>1
      <4>2. q \in Seq(Keys) \X (1 .. n) /\ Joined(Keys, P[g], q[1], P[q[2]])
        BY <1>4, <4>1
      <4>3. QED
        BY <4>2
    <3>4. PICK p \in Seq(Keys) : /\ p = <<Key(maps, par, slot, idx, g)>> \o r
                                 /\ Joined(Keys, P[i], p, P[j])
      BY <1>1, <1>2, <3>1, <3>3, PathFromOwner
    <3>5. z = <<p, j>>
      BY <3>2, <3>3, <3>4 DEF Further
    <3>6. PICK y \in Seq(Keys) \X (1 .. n) : y = z /\ y[1] = p /\ y[2] = j
      <4>1. <<p, j>> \in Seq(Keys) \X (1 .. n) /\ <<p, j>>[1] = p /\ <<p, j>>[2] = j
        OBVIOUS
      <4>2. QED
        BY <3>5, <4>1
    <3>7. QED
      BY <1>4, <3>4, <3>6
  <2>3. QED
    BY <1>1, <1>7, <2>1, <2>2, ReachBelow
<1>8. \A i \in 1 .. n : w[i] = Reach(i, w)
  BY <1>6, <1>7
<1>9. w = [i \in 1 .. n |-> w[i]]
  BY <1>3 DEF Descent
<1>10. w = [i \in 1 .. n |-> Reach(i, w)]
  BY <1>8, <1>9
<1>11. QED
  BY <1>1, <1>3, <1>10 DEF IsNodes

(* No function gives other nodes.                                          *)
LEMMA NodesUnique ==
  ASSUME MapsOK(maps), NEW par, NEW slot, NEW idx, NEW P,
         Shape(maps, par, slot, idx, P),
         NEW v, IsNodes(v), NEW w, IsNodes(w), NEW i \in 1 .. Len(maps)
  PROVE  v[i] = w[i]
<1>1. PICK n \in Nat : n = Len(maps)
  BY MapSeqIs DEF MapsOK
<1> DEFINE T == {d \in Nat : d \in 0 .. n - 1 /\ v[n - d] # w[n - d]}
<1>2. ASSUME T # {} PROVE FALSE
  <2>1. PICK d \in T : \A e \in T : d <= e
    <3>1. T \in SUBSET Nat
      OBVIOUS
    <3> HIDE DEF T
    <3>2. QED
      BY <1>2, <3>1, LeastNat
  <2>2. PICK h \in 1 .. n : h = n - d
    BY <2>1
  <2>3. ASSUME NEW g \in 2 .. n, par[g] = h PROVE v[g] = w[g]
    <3>1. h \in 1 .. g - 1
      BY <1>1, <2>3, StepOfPath DEF MapsOK
    <3>2. PICK e \in Nat : e = n - g /\ e \in 0 .. n - 1 /\ n - e = g
      BY <2>3
    <3>3. d \in Nat /\ e < d
      BY <2>1, <2>2, <3>1, <3>2
    <3>4. e \notin T
      BY <2>1, <3>3
    <3>5. QED
      BY <3>2, <3>4
  <2>4. v[h] = Reach(h, v) /\ w[h] = Reach(h, w)
    BY <1>1 DEF IsNodes
  <2>5. ASSUME NEW z PROVE z \in Reach(h, v) <=> z \in Reach(h, w)
    <3>1. z \in Reach(h, v) <=>
           \/ z = <<<<>>, h>>
           \/ \E g \in 2 .. n :
                par[g] = h /\ \E q \in v[g] : z = Further(Key(maps, par, slot, idx, g), q)
      BY <1>1, ReachBelow
    <3>2. z \in Reach(h, w) <=>
           \/ z = <<<<>>, h>>
           \/ \E g \in 2 .. n :
                par[g] = h /\ \E q \in w[g] : z = Further(Key(maps, par, slot, idx, g), q)
      BY <1>1, ReachBelow
    <3>3. QED
      BY <2>3, <3>1, <3>2
  <2>6. v[h] = w[h]
    <3>1. Reach(h, v) = Reach(h, w)
      BY <2>5
    <3>2. QED
      BY <2>4, <3>1
  <2>7. QED
    BY <2>1, <2>2, <2>6
<1>3. PICK d \in Nat : d = n - i /\ d \in 0 .. n - 1 /\ n - d = i
  BY <1>1
<1>4. QED
  BY <1>2, <1>3

(* The nodes are the maps, each with its path.                             *)
LEMMA NodesAre ==
  ASSUME MapsOK(maps), NEW par, NEW slot, NEW idx, NEW P,
         Shape(maps, par, slot, idx, P), NEW z
  PROVE  z \in Nodes <=> \E j \in 1 .. Len(maps) : z = <<P[j], j>>
<1> DEFINE ch == CHOOSE w : IsNodes(w)
<1>1. PICK n \in Nat : n = Len(maps) /\ n >= 1
  BY MapSeqIs DEF MapsOK
<1>2. Nodes = ch[1]
  BY DEF Nodes, IsNodes, Reach
<1>3. PICK w : w = Descent(n, P) /\ IsNodes(w)
  BY <1>1, DescentIsNodes
<1>4. IsNodes(ch)
  BY <1>3
<1>5. Nodes = w[1]
  <2> HIDE DEF ch
  <2>1. 1 \in 1 .. n
    BY <1>1
  <2>2. QED
    BY <1>1, <1>2, <1>3, <1>4, <2>1, NodesUnique
<1>6. P[1] = <<>> /\ P \in [1 .. n -> Seq(Keys)]
  BY <1>1 DEF Shape, Paths
<1>7. ASSUME NEW p \in Seq(Keys), NEW j \in 1 .. n
      PROVE  Joined(Keys, P[1], p, P[j]) <=> p = P[j]
  <2>1. PICK b \in Seq(Keys) : b = P[j]
    BY <1>6
  <2>2. PICK e \in Seq(Keys) : e = P[1] /\ Len(e) = 0
    BY <1>6, EmptySeq
  <2>3. ASSUME Joined(Keys, e, p, b) PROVE p = b
    <3>1. Len(b) = Len(p) /\ \A x \in 1 .. Len(p) : b[x] = p[x]
      <4>1. \A x \in 1 .. Len(p) : Len(e) + x = x
        BY <2>2
      <4>2. QED
        BY <2>2, <2>3, <4>1 DEF Joined
    <3>2. QED
      BY <3>1, SeqEqual
  <2>4. Joined(Keys, e, b, b)
    BY <2>2 DEF Joined
  <2>5. QED
    BY <2>1, <2>2, <2>3, <2>4
<1>8. z \in w[1] <=> \E p \in Seq(Keys), j \in 1 .. n : z = <<p, j>> /\ Joined(Keys, P[1], p, P[j])
  <2>1. 1 \in 1 .. n
    BY <1>1
  <2>2. z \in w[1] <=> z \in Seq(Keys) \X (1 .. n) /\ Joined(Keys, P[1], z[1], P[z[2]])
    BY <1>3, <2>1 DEF Descent
  <2>3. QED
    BY <2>2
<1>9. \A j \in 1 .. n : P[j] \in Seq(Keys)
  BY <1>6
<1>10. QED
  BY <1>1, <1>5, <1>7, <1>8, <1>9

-----------------------------------------------------------------------------
(* What a reader is shown.                                                 *)

(* The value of e, in stream s with a message that begins at b.            *)
Value(s, b, e) == SubSeq(s, b + e.offset + 1, b + e.offset + e.length)
Shown(s, b, es) == [k \in DOMAIN es |-> Field(es[k].tag, Value(s, b, es[k]))]

(* The tree that maps ms show, whose paths are P, and where map m is in it.*)
Picture(ms, P, s, b) ==
  {GT!Node(P[j], Shown(s, b, ms[j].fields)) : j \in 1 .. Len(ms)}
Place(P, m) == IF m = 0 THEN {} ELSE {P[m]}

(* The fields of a map are found by their tags.                            *)
LEMMA FieldsReadIs ==
  ASSUME maps \in MapSeqs, Distinct(maps), NEW i \in DOMAIN maps
  PROVE  FieldsRead(i) = Shown(stream, begin, maps[i].fields)
<1>1. PICK es : es = maps[i].fields
  OBVIOUS
<1>2. /\ maps[i] \in MapType /\ Len(es) \in Nat /\ DOMAIN es = 1 .. Len(es)
  BY <1>1, MapSeqIs
<1>3. DOMAIN tags(i) = DOMAIN es /\ \A k \in DOMAIN es : tags(i)[k] = es[k].tag
  BY <1>1 DEF tags
<1>4. ASSUME NEW k \in DOMAIN es
      PROVE  FieldIn(i, es[k].tag) = Field(es[k].tag, Value(stream, begin, es[k]))
  <2>1. PICK t : t = es[k].tag
    OBVIOUS
  <2>2. find(maps[i], t) = k
    <3>1. /\ find(maps[i], t) \in 0 .. Len(es)
          /\ find(maps[i], t) # 0 => es[find(maps[i], t)].tag = t
          /\ find(maps[i], t) = 0 => \A l \in DOMAIN es : es[l].tag # t
      BY <1>1, <1>2, FindIs
    <3>2. find(maps[i], t) \in DOMAIN es /\ es[find(maps[i], t)].tag = t
      BY <1>2, <1>4, <2>1, <3>1
    <3>3. QED
      BY <1>1, <2>1, <3>2 DEF Distinct
  <2>3. get(maps[i], t) = {es[k]}
    <3>1. k # 0
      BY <1>2
    <3>2. QED
      BY <1>1, <2>2, <3>1 DEF get
  <2>4. getString(maps[i], t) = {ValueOf(es[k])}
    BY <2>3 DEF getString
  <2>5. {Field(t, v) : v \in getString(maps[i], t)} = {Field(t, ValueOf(es[k]))}
    BY <2>4
  <2>6. FieldIn(i, t) = Field(t, ValueOf(es[k]))
    BY <2>5 DEF FieldIn
  <2>7. QED
    BY <2>1, <2>6 DEF ValueOf, Value
<1>5. FieldsRead(i) = [k \in DOMAIN es |-> FieldIn(i, es[k].tag)]
  BY <1>3 DEF FieldsRead
<1>6. Shown(stream, begin, es) = [k \in DOMAIN es |-> FieldIn(i, es[k].tag)]
  BY <1>4 DEF Shown
<1>7. QED
  BY <1>1, <1>5, <1>6

(* What a reader finds is what the shape says,                             *)
PictureIsRead ==
  \A par, slot, idx, P :
    MapsOK(maps) /\ Shape(maps, par, slot, idx, P) /\ map \in 0 .. Len(maps) =>
      /\ TreeRead = Picture(maps, P, stream, begin)
      /\ PlaceRead = Place(P, map)

(* in every state.                                                         *)
LEMMA PictureHolds == PictureIsRead
<1> SUFFICES ASSUME NEW par, NEW slot, NEW idx, NEW P,
                    MapsOK(maps), Shape(maps, par, slot, idx, P), map \in 0 .. Len(maps)
             PROVE  /\ TreeRead = Picture(maps, P, stream, begin)
                    /\ PlaceRead = Place(P, map)
  BY DEF PictureIsRead
<1>1. PICK n \in Nat : n = Len(maps) /\ DOMAIN maps = 1 .. n
  BY MapSeqIs DEF MapsOK
<1>2. \A z : z \in Nodes <=> \E j \in 1 .. n : z = <<P[j], j>>
  BY <1>1, NodesAre
<1>3. \A j \in 1 .. n : FieldsRead(j) = Shown(stream, begin, maps[j].fields)
  BY <1>1, FieldsReadIs DEF MapsOK, Shape
<1>4. Nodes = {<<P[j], j>> : j \in 1 .. n}
  BY <1>2
<1>5. TreeRead = Picture(maps, P, stream, begin)
  <2>1. TreeRead = {GT!Node(q[1], FieldsRead(q[2])) : q \in Nodes}
    BY DEF TreeRead, GT!Node
  <2>2. TreeRead = {GT!Node(P[j], FieldsRead(j)) : j \in 1 .. n}
    <3>1. ASSUME NEW q \in Nodes
          PROVE  GT!Node(q[1], FieldsRead(q[2])) \in {GT!Node(P[j], FieldsRead(j)) : j \in 1 .. n}
      <4>1. PICK j \in 1 .. n : q = <<P[j], j>>
        BY <1>2
      <4>2. q[1] = P[j] /\ q[2] = j
        BY <4>1
      <4>3. QED
        BY <4>2
    <3>2. ASSUME NEW j \in 1 .. n
          PROVE  GT!Node(P[j], FieldsRead(j)) \in {GT!Node(q[1], FieldsRead(q[2])) : q \in Nodes}
      <4>1. PICK q \in Nodes : q = <<P[j], j>>
        BY <1>2
      <4>2. q[1] = P[j] /\ q[2] = j
        BY <4>1
      <4>3. QED
        BY <4>2
    <3>3. QED
      BY <2>1, <3>1, <3>2
  <2>3. QED
    BY <1>1, <1>3, <2>2 DEF Picture
<1>6. PlaceRead = Place(P, map)
  <2>1. {r \in Nodes : r[2] = map} = IF map = 0 THEN {} ELSE {<<P[map], map>>}
    <3>1. ASSUME NEW z PROVE z \in {r \in Nodes : r[2] = map} <=> map # 0 /\ z = <<P[map], map>>
      <4>1. z \in Nodes /\ z[2] = map => map # 0 /\ z = <<P[map], map>>
        BY <1>2
      <4>2. map # 0 => map \in 1 .. n /\ <<P[map], map>>[2] = map
        BY <1>1
      <4>3. QED
        BY <1>2, <4>1, <4>2
    <3>2. QED
      BY <3>1
  <2>2. CASE map = 0
    BY <2>1, <2>2 DEF PlaceRead, Place
  <2>3. CASE map # 0
    <3>1. PICK z : z = <<P[map], map>> /\ z[1] = P[map]
      <4>1. <<P[map], map>>[1] = P[map]
        OBVIOUS
      <4>2. QED
        BY <4>1
    <3>2. {r \in Nodes : r[2] = map} = {z}
      BY <2>1, <2>3, <3>1
    <3>3. {q[1] : q \in {z}} = {z[1]}
      OBVIOUS
    <3>4. QED
      BY <2>3, <3>1, <3>2, <3>3 DEF PlaceRead, Place
  <2>4. QED
    BY <2>2, <2>3
<1>7. QED
  BY <1>5, <1>6

-----------------------------------------------------------------------------
(* A field that is put.                                                    *)

DistinctTags(es) == \A k, l \in DOMAIN es : es[k].tag = es[l].tag => k = l

(* Entries rs are es after f was put.                                      *)
Puts(es, rs, f) ==
  /\ rs \in EntrySeqs
  /\ Len(rs) = IF \E k \in DOMAIN es : es[k].tag = f.tag THEN Len(es) ELSE Len(es) + 1
  /\ \A k \in DOMAIN es :
       IF es[k].tag = f.tag
       THEN rs[k].tag = f.tag /\ rs[k].offset = f.offset /\ rs[k].length = f.length
       ELSE rs[k] = es[k]
  /\ (\A k \in DOMAIN es : es[k].tag # f.tag) =>
       /\ rs[Len(es) + 1].tag = f.tag
       /\ rs[Len(es) + 1].offset = f.offset /\ rs[Len(es) + 1].length = f.length

(* That is what put does.                                                  *)
LEMMA PutPuts ==
  ASSUME NEW m \in MapType, NEW f, Whole(f), DistinctTags(m.fields)
  PROVE  Puts(m.fields, put(m, f).fields, f)
<1>1. PICK q \in EntrySeqs : q = m.fields
  BY DEF MapType
<1>2. PICK n \in Nat : n = Len(q)
  BY DEF EntrySeqs
<1>3. q \in Seq(EntryType) /\ DOMAIN q = 1 .. n
  BY <1>2 DEF EntrySeqs
<1>4. PICK i : i = find(m, f.tag)
  OBVIOUS
<1>5. /\ i \in 0 .. n /\ (i # 0 => q[i].tag = f.tag)
      /\ i = 0 => \A k \in 1 .. n : q[k].tag # f.tag
  BY <1>1, <1>2, <1>3, <1>4, FindIs
<1>6. PICK e \in EntryType :
        /\ e = Entry(f) /\ e.tag = f.tag
        /\ e.offset = f.offset /\ e.length = f.length
  BY EntryIs
<1>7. CASE i = 0
  <2>1. PICK r \in EntrySeqs : /\ r = Append(q, e) /\ Len(r) = n + 1 /\ r[n + 1] = e
                               /\ \A k \in 1 .. n : r[k] = q[k]
    <3>1. Append(q, e) \in EntrySeqs
      BY <1>3 DEF EntrySeqs
    <3>2. PICK r \in EntrySeqs : r = Append(q, e)
      BY <3>1
    <3>3. Len(r) = n + 1 /\ r[n + 1] = e /\ \A k \in 1 .. n : r[k] = q[k]
      BY <1>2, <1>3, <3>2
    <3>4. QED
      BY <3>2, <3>3
  <2>2. put(m, f).fields = r
    BY <1>1, <1>4, <1>6, <1>7, <2>1 DEF put, MapType
  <2>3. QED
    BY <1>1, <1>2, <1>3, <1>5, <1>6, <1>7, <2>1, <2>2 DEF Puts
<1>8. CASE i # 0
  <2>1. PICK d \in EntryType :
          /\ d = [e EXCEPT !.groups = q[i].groups, !.tail = q[i].tail]
          /\ d.tag = f.tag /\ d.offset = f.offset /\ d.length = f.length
    <3>1. PICK o \in EntryType : o = q[i]
      BY <1>3, <1>5, <1>8
    <3>2. [e EXCEPT !.groups = o.groups, !.tail = o.tail] \in EntryType
      BY DEF EntryType
    <3>3. QED
      BY <1>6, <3>1, <3>2 DEF EntryType
  <2>2. PICK r \in EntrySeqs :
          /\ r = [q EXCEPT ![i] = d] /\ Len(r) = n /\ DOMAIN r = DOMAIN q
          /\ \A j \in DOMAIN q : r[j] = IF j = i THEN d ELSE q[j]
    <3>1. [q EXCEPT ![i] = d] \in EntrySeqs
      BY <1>3, UpdateSeq DEF EntrySeqs
    <3>2. QED
      BY <1>2, <1>3, <3>1, UpdateSeq
  <2>3. put(m, f).fields = r
    BY <1>1, <1>4, <1>6, <1>8, <2>1, <2>2 DEF put, MapType
  <2>4. i \in 1 .. n
    BY <1>5, <1>8
  <2>5. \A j \in 1 .. n : q[j].tag = f.tag <=> j = i
    BY <1>1, <1>3, <1>5, <1>8, <2>4 DEF DistinctTags
  <2>6. QED
    BY <1>1, <1>2, <1>3, <2>1, <2>2, <2>3, <2>4, <2>5 DEF Puts
<1>9. QED
  BY <1>7, <1>8

(* It is shown in the place of the one with its tag, or last.              *)
LEMMA PutIsShown ==
  ASSUME NEW es \in EntrySeqs, NEW rs \in EntrySeqs, NEW f, Puts(es, rs, f),
         NEW s, NEW b
  PROVE  Shown(s, b, rs) = GT!Put(Shown(s, b, es), Field(f.tag, Value(s, b, f)))
<1>1. PICK n \in Nat : n = Len(es) /\ DOMAIN es = 1 .. n
  BY DEF EntrySeqs
<1>2. Len(rs) \in Nat /\ DOMAIN rs = 1 .. Len(rs)
  BY DEF EntrySeqs
<1>3. PICK g : g = Field(f.tag, Value(s, b, f)) /\ g.tag = f.tag
  <2>1. Field(f.tag, Value(s, b, f)).tag = f.tag
    BY DEF Field
  <2>2. QED
    BY <2>1
<1>4. PICK h : h = Shown(s, b, es)
  OBVIOUS
<1>5. PICK r : r = Shown(s, b, rs)
  OBVIOUS
<1>6. DOMAIN h = 1 .. n /\ DOMAIN r = DOMAIN rs
  BY <1>1, <1>4, <1>5 DEF Shown
<1>7. \A k \in 1 .. n : h[k] = Field(es[k].tag, Value(s, b, es[k])) /\ h[k].tag = es[k].tag
  BY <1>1, <1>4 DEF Shown, Field
<1>8. ASSUME NEW k \in DOMAIN rs, rs[k].tag = f.tag,
             rs[k].offset = f.offset, rs[k].length = f.length
      PROVE  r[k] = g
  <2>1. r[k] = Field(rs[k].tag, Value(s, b, rs[k]))
    BY <1>5 DEF Shown
  <2>2. Value(s, b, rs[k]) = Value(s, b, f)
    BY <1>8 DEF Value
  <2>3. QED
    BY <1>3, <1>8, <2>1, <2>2
<1>9. \A k \in 1 .. n : k \in DOMAIN rs
  BY <1>1, <1>2 DEF Puts
<1>10. ASSUME NEW k \in 1 .. n PROVE r[k] = IF h[k].tag = g.tag THEN g ELSE h[k]
  <2>1. CASE es[k].tag = f.tag
    <3>1. rs[k].tag = f.tag /\ rs[k].offset = f.offset /\ rs[k].length = f.length
      BY <1>1, <2>1 DEF Puts
    <3>2. QED
      BY <1>3, <1>7, <1>8, <1>9, <2>1, <3>1
  <2>2. CASE es[k].tag # f.tag
    <3>1. rs[k] = es[k]
      BY <1>1, <2>2 DEF Puts
    <3>2. r[k] = Field(rs[k].tag, Value(s, b, rs[k]))
      BY <1>5, <1>9 DEF Shown
    <3>3. QED
      BY <1>3, <1>7, <2>2, <3>1, <3>2
  <2>3. QED
    BY <2>1, <2>2
<1>11. CASE \E k \in 1 .. n : es[k].tag = f.tag
  <2>1. DOMAIN r = 1 .. n
    BY <1>1, <1>2, <1>6, <1>11 DEF Puts
  <2>2. \E k \in DOMAIN h : h[k].tag = g.tag
    BY <1>3, <1>6, <1>7, <1>11
  <2>3. GT!Put(h, g) = [k \in 1 .. n |-> IF h[k].tag = g.tag THEN g ELSE h[k]]
    BY <1>6, <2>2 DEF GT!Put
  <2>4. r = [k \in 1 .. n |-> r[k]]
    BY <1>5, <2>1 DEF Shown
  <2>5. [k \in 1 .. n |-> r[k]] = [k \in 1 .. n |-> IF h[k].tag = g.tag THEN g ELSE h[k]]
    BY <1>10
  <2>6. QED
    BY <1>3, <1>4, <1>5, <2>3, <2>4, <2>5
<1>12. CASE ~ \E k \in 1 .. n : es[k].tag = f.tag
  <2>1. Len(rs) = n + 1
    BY <1>1, <1>12 DEF Puts
  <2>2. r[n + 1] = g
    <3>1. n + 1 \in DOMAIN rs
      BY <1>2, <2>1
    <3>2. /\ rs[n + 1].tag = f.tag
          /\ rs[n + 1].offset = f.offset /\ rs[n + 1].length = f.length
      BY <1>1, <1>12 DEF Puts
    <3>3. QED
      BY <1>8, <3>1, <3>2
  <2>3. ~ \E k \in DOMAIN h : h[k].tag = g.tag
    BY <1>3, <1>6, <1>7, <1>12
  <2>4. GT!Put(h, g) = Append(h, g)
    BY <2>3 DEF GT!Put
  <2>5. \A k \in 1 .. n : r[k] = h[k]
    BY <1>3, <1>7, <1>10, <1>12
  <2>6. PICK S : S = {h[k] : k \in 1 .. n} \cup {g}
    OBVIOUS
  <2>7. h \in Seq(S) /\ Len(h) = n /\ g \in S
    <3>1. h \in [1 .. n -> S]
      <4>1. h = [k \in 1 .. n |-> h[k]]
        BY <1>1, <1>4, <1>6 DEF Shown
      <4>2. \A k \in 1 .. n : h[k] \in S
        BY <2>6
      <4>3. QED
        BY <4>1, <4>2
    <3>2. QED
      BY <2>6, <3>1
  <2>8. r \in Seq(S) /\ Len(r) = n + 1
    <3>1. r = [k \in 1 .. n + 1 |-> r[k]]
      BY <1>2, <1>5, <2>1 DEF Shown
    <3>2. \A k \in 1 .. n + 1 : r[k] \in S
      <4>1. \A k \in 1 .. n + 1 : k = n + 1 \/ k \in 1 .. n
        OBVIOUS
      <4>2. QED
        BY <2>2, <2>5, <2>6, <4>1
    <3>3. r \in [1 .. n + 1 -> S]
      BY <3>1, <3>2
    <3>4. QED
      BY <3>3
  <2>9. PICK c \in Seq(S) : /\ c = Append(h, g) /\ Len(c) = n + 1 /\ c[n + 1] = g
                            /\ \A k \in 1 .. n : c[k] = h[k]
    <3>1. PICK hh \in Seq(S), gg \in S : hh = h /\ gg = g
      BY <2>7
    <3>2. /\ Append(hh, gg) \in Seq(S) /\ Len(Append(hh, gg)) = Len(hh) + 1
          /\ Append(hh, gg)[Len(hh) + 1] = gg
          /\ \A k \in 1 .. Len(hh) : Append(hh, gg)[k] = hh[k]
      OBVIOUS
    <3>3. QED
      BY <2>7, <3>1, <3>2
  <2>10. r = c
    <3>1. ASSUME NEW k \in 1 .. n + 1 PROVE r[k] = c[k]
      <4>1. k = n + 1 \/ k \in 1 .. n
        OBVIOUS
      <4>2. QED
        BY <2>2, <2>5, <2>9, <4>1
    <3>2. QED
      BY <2>8, <2>9, <3>1, SeqEqual
  <2>11. QED
    BY <1>3, <1>4, <1>5, <2>4, <2>9, <2>10
<1>13. QED
  BY <1>11, <1>12

-----------------------------------------------------------------------------
(* A field that is put stays in its map.                                   *)

(* Only map i has changed from ms to rs, by a put of f.                    *)
PutIn(ms, rs, i, f) ==
  /\ ms \in MapSeqs /\ rs \in MapSeqs /\ Len(rs) = Len(ms) /\ i \in DOMAIN ms
  /\ PutOf(ms[i], rs[i], f) /\ Puts(ms[i].fields, rs[i].fields, f)
  /\ \A j \in DOMAIN ms : j # i => rs[j] = ms[j]

(* What is said of the fields there were is true of them still.            *)
LEMMA PutInKeeps ==
  ASSUME NEW ms, NEW rs, NEW i, NEW f, PutIn(ms, rs, i, f), NEW j \in DOMAIN ms
  PROVE  /\ j \in DOMAIN rs /\ rs[j].next = ms[j].next
         /\ \A k \in DOMAIN ms[j].fields :
              /\ k \in DOMAIN rs[j].fields
              /\ rs[j].fields[k].tag = ms[j].fields[k].tag
              /\ rs[j].fields[k].groups = ms[j].fields[k].groups
         /\ \A k \in DOMAIN rs[j].fields :
              k \in DOMAIN ms[j].fields \/ rs[j].fields[k].groups = 0
<1>1. PICK n \in Nat : n = Len(ms) /\ DOMAIN ms = 1 .. n /\ DOMAIN rs = 1 .. n
  BY MapSeqIs DEF PutIn
<1>2. CASE j # i
  BY <1>1, <1>2 DEF PutIn
<1>3. CASE j = i
  <2>1. PutOf(ms[i], rs[i], f)
    BY DEF PutIn
  <2>2. /\ DOMAIN ms[i].fields = 1 .. Len(ms[i].fields) /\ Len(ms[i].fields) \in Nat
        /\ DOMAIN rs[i].fields = 1 .. Len(rs[i].fields) /\ Len(rs[i].fields) \in Nat
    BY <1>1, <1>3, MapSeqIs DEF PutIn
  <2>3. Len(rs[i].fields) = Len(ms[i].fields) \/ Len(rs[i].fields) = Len(ms[i].fields) + 1
    BY <2>1 DEF PutOf
  <2>4. DOMAIN ms[i].fields \subseteq DOMAIN rs[i].fields
    BY <2>2, <2>3
  <2>5. QED
    BY <1>1, <1>3, <2>1, <2>4 DEF PutOf
<1>4. QED
  BY <1>2, <1>3

(* A tag has one field still.                                              *)
LEMMA PutsDistinct ==
  ASSUME NEW es \in EntrySeqs, NEW rs, NEW f, Puts(es, rs, f), DistinctTags(es)
  PROVE  DistinctTags(rs)
<1>1. PICK n \in Nat : n = Len(es) /\ DOMAIN es = 1 .. n
  BY DEF EntrySeqs
<1>2. rs \in EntrySeqs /\ Len(rs) \in Nat /\ DOMAIN rs = 1 .. Len(rs)
  BY DEF Puts, EntrySeqs
<1>3. \A k \in 1 .. n : rs[k].tag = es[k].tag
  BY <1>1 DEF Puts
<1>4. CASE \E k \in 1 .. n : es[k].tag = f.tag
  <2>1. DOMAIN rs = 1 .. n
    BY <1>1, <1>2, <1>4 DEF Puts
  <2>2. QED
    BY <1>1, <1>3, <2>1 DEF DistinctTags
<1>5. CASE ~ \E k \in 1 .. n : es[k].tag = f.tag
  <2>1. DOMAIN rs = 1 .. n + 1 /\ rs[n + 1].tag = f.tag
    BY <1>1, <1>2, <1>5 DEF Puts
  <2>2. \A k \in 1 .. n + 1 : k = n + 1 \/ k \in 1 .. n
    OBVIOUS
  <2>3. ASSUME NEW k \in 1 .. n + 1, NEW l \in 1 .. n + 1, rs[k].tag = rs[l].tag PROVE k = l
    BY <1>1, <1>3, <1>5, <2>1, <2>2, <2>3 DEF DistinctTags
  <2>4. QED
    BY <2>1, <2>3 DEF DistinctTags
<1>6. QED
  BY <1>4, <1>5

(* The tree has the shape it had,                                          *)
LEMMA ShapeAfterPut ==
  ASSUME NEW ms, NEW rs, NEW i, NEW f, PutIn(ms, rs, i, f),
         NEW par, NEW slot, NEW idx, NEW P, Shape(ms, par, slot, idx, P)
  PROVE  Shape(rs, par, slot, idx, P)
<1>1. PICK n \in Nat : n = Len(ms) /\ n = Len(rs) /\ DOMAIN ms = 1 .. n /\ DOMAIN rs = 1 .. n
  BY MapSeqIs DEF PutIn
<1>2. ms \in MapSeqs /\ rs \in MapSeqs /\ i \in DOMAIN ms
  BY DEF PutIn
<1>3. Owned(rs, par, slot)
  BY OwnedAfterPut DEF PutIn, Shape
<1>4. ASSUME NEW j \in 2 .. n
      PROVE  /\ rs[j].next = ms[j].next
             /\ Tag(rs, par, slot, j) = Tag(ms, par, slot, j)
  <2>1. j \in DOMAIN ms
    BY <1>1
  <2>2. par[j] \in DOMAIN ms
    BY <1>1, <1>2, StepOfPath
  <2>3. slot[j] \in DOMAIN ms[par[j]].fields
    BY <1>1 DEF Shape, Owned, Linked
  <2>4. QED
    BY <2>1, <2>2, <2>3, PutInKeeps DEF Tag, Owner
<1>5. Indexed(rs, par, slot, idx)
  <2>1. ASSUME NEW j \in DOMAIN rs, NEW k \in DOMAIN rs[j].fields,
               rs[j].fields[k].groups # 0
        PROVE  idx[rs[j].fields[k].groups] = 0
    <3>1. j \in DOMAIN ms
      BY <1>1
    <3>2. k \in DOMAIN ms[j].fields /\ rs[j].fields[k].groups = ms[j].fields[k].groups
      BY <2>1, <3>1, PutInKeeps
    <3>3. QED
      BY <2>1, <3>1, <3>2 DEF Shape, Indexed
  <2>2. \A j \in 2 .. n :
          /\ idx[j] \in 0 .. j - 1
          /\ rs[j].next # 0 => idx[rs[j].next] = idx[j] + 1
    BY <1>1, <1>4 DEF Shape, Indexed
  <2>3. QED
    BY <1>1, <2>1, <2>2 DEF Indexed
<1>6. Distinct(rs)
  <2>1. ASSUME NEW j \in DOMAIN rs PROVE DistinctTags(rs[j].fields)
    <3>1. j \in DOMAIN ms /\ DistinctTags(ms[j].fields)
      BY <1>1 DEF Shape, Distinct, DistinctTags
    <3>2. CASE j = i
      <4>1. ms[i].fields \in EntrySeqs
        BY <1>2, MapSeqIs
      <4>2. QED
        BY <3>1, <3>2, <4>1, PutsDistinct DEF PutIn
    <3>3. CASE j # i
      BY <3>1, <3>3 DEF PutIn
    <3>4. QED
      BY <3>2, <3>3
  <2>2. QED
    BY <2>1 DEF Distinct, DistinctTags
<1>7. Paths(rs, par, slot, idx, P)
  <2>1. \A j \in 2 .. n : Key(rs, par, slot, idx, j) = Key(ms, par, slot, idx, j)
    BY <1>4 DEF Key
  <2>2. QED
    BY <1>1, <2>1 DEF Shape, Paths
<1>8. QED
  BY <1>3, <1>5, <1>6, <1>7 DEF Shape

(* and shows the field in the node of the map it was put in.               *)
LEMMA PictureAfterPut ==
  ASSUME NEW ms, NEW rs, NEW i, NEW f, PutIn(ms, rs, i, f),
         NEW par, NEW slot, NEW idx, NEW P, Shape(ms, par, slot, idx, P),
         NEW s, NEW b, NEW h, h = GT!Node(P[i], Shown(s, b, ms[i].fields)),
         NEW g, g = Field(f.tag, Value(s, b, f))
  PROVE  /\ h \in Picture(ms, P, s, b) /\ h.path = P[i]
         /\ Picture(rs, P, s, b) =
              (Picture(ms, P, s, b) \ {h}) \cup {GT!Node(h.path, GT!Put(h.fields, g))}
<1>1. PICK n \in Nat : n = Len(ms) /\ n = Len(rs) /\ DOMAIN ms = 1 .. n /\ i \in 1 .. n
  BY MapSeqIs DEF PutIn
<1>2. h.path = P[i] /\ h.fields = Shown(s, b, ms[i].fields)
  BY DEF GT!Node
<1>3. PICK N : N = [j \in 1 .. n |-> GT!Node(P[j], Shown(s, b, ms[j].fields))]
  OBVIOUS
<1>4. PICK R : R = [j \in 1 .. n |-> GT!Node(P[j], Shown(s, b, rs[j].fields))]
  OBVIOUS
<1>5. Picture(ms, P, s, b) = {N[j] : j \in 1 .. n} /\ Picture(rs, P, s, b) = {R[j] : j \in 1 .. n}
  BY <1>1, <1>3, <1>4 DEF Picture
<1>6. N[i] = h
  BY <1>1, <1>3
<1>7. \A j \in 1 .. n : j # i => R[j] = N[j]
  BY <1>1, <1>3, <1>4 DEF PutIn
<1>8. \A j \in 1 .. n : j # i => N[j] # h
  <2>1. \A j \in 1 .. n : N[j].path = P[j]
    BY <1>3 DEF GT!Node
  <2>2. \A j \in 1 .. n : P[j] = P[i] => j = i
    BY <1>1 DEF Shape, Paths
  <2>3. QED
    BY <1>2, <2>1, <2>2
<1>9. R[i] = GT!Node(h.path, GT!Put(h.fields, g))
  <2>1. ms[i].fields \in EntrySeqs /\ rs[i].fields \in EntrySeqs
    BY <1>1, MapSeqIs DEF PutIn, Puts
  <2>2. Shown(s, b, rs[i].fields) = GT!Put(Shown(s, b, ms[i].fields), g)
    BY <2>1, PutIsShown DEF PutIn
  <2>3. QED
    BY <1>1, <1>2, <1>4, <2>2
<1>10. {R[j] : j \in 1 .. n} = ({N[j] : j \in 1 .. n} \ {h}) \cup {R[i]}
  BY <1>1, <1>6, <1>7, <1>8
<1>11. QED
  BY <1>1, <1>2, <1>5, <1>6, <1>9, <1>10

-----------------------------------------------------------------------------
(* A group that is added is one node more.                                 *)

(* From ms to rs a group was added to field k of map i, and nothing else.  *)
GrownIn(ms, rs, i, k) ==
  /\ ms \in MapSeqs /\ (\A j \in DOMAIN ms : MapOK(ms[j], Len(ms)))
  /\ i \in DOMAIN ms /\ k \in DOMAIN ms[i].fields /\ GrowthOf(ms, rs, i, k)

(* Which group it is, and the path to it.                                  *)
NewKey(ms, i, k) == <<ms[i].fields[k].tag, groupCount(ms, ms[i].fields[k])>>
NewPath(ms, P, i, k) == Append(P[i], NewKey(ms, i, k))
MorePaths(ms, P, i, k) ==
  [j \in 1 .. Len(ms) + 1 |-> IF j = Len(ms) + 1 THEN NewPath(ms, P, i, k) ELSE P[j]]

(* The fields there were point where they did, but for the list that grew. *)
LEMMA GrownInKeeps ==
  ASSUME NEW ms, NEW rs, NEW i, NEW k, GrownIn(ms, rs, i, k), NEW e, e = ms[i].fields[k]
  PROVE  /\ Len(ms) \in Nat /\ DOMAIN ms = 1 .. Len(ms) /\ i \in 1 .. Len(ms)
         /\ rs \in MapSeqs /\ Len(rs) = Len(ms) + 1 /\ DOMAIN rs = 1 .. Len(ms) + 1
         /\ rs[Len(ms) + 1].next = 0 /\ rs[Len(ms) + 1].fields = <<>>
         /\ \A j \in 1 .. Len(ms) :
              /\ rs[j].next = IF e.groups # 0 /\ j = e.tail THEN Len(ms) + 1 ELSE ms[j].next
              /\ DOMAIN rs[j].fields = DOMAIN ms[j].fields
              /\ \A l \in DOMAIN ms[j].fields :
                   /\ rs[j].fields[l].tag = ms[j].fields[l].tag
                   /\ rs[j].fields[l].offset = ms[j].fields[l].offset
                   /\ rs[j].fields[l].length = ms[j].fields[l].length
                   /\ rs[j].fields[l].groups = IF j = i /\ l = k /\ e.groups = 0
                                               THEN Len(ms) + 1 ELSE ms[j].fields[l].groups
<1>1. PICK n \in Nat : n = Len(ms) /\ DOMAIN ms = 1 .. n /\ i \in 1 .. n
  BY MapSeqIs DEF GrownIn
<1>2. rs \in MapSeqs /\ Len(rs) = n + 1 /\ rs[n + 1] = NewMap
  BY <1>1 DEF GrownIn, GrowthOf
<1>3. DOMAIN rs = 1 .. n + 1
  BY <1>2, MapSeqIs
<1>4. rs[n + 1].next = 0 /\ rs[n + 1].fields = <<>>
  BY <1>2, NewMapType
<1>5. ASSUME NEW j \in 1 .. n
      PROVE  LinkOf(ms[j], rs[j], j, j = i, k, e, n + 1) /\ DOMAIN rs[j].fields = DOMAIN ms[j].fields
  <2>1. LinkOf(ms[j], rs[j], j, j = i, k, e, n + 1)
    BY <1>1 DEF GrownIn, GrowthOf, LinksOf
  <2>2. j \in DOMAIN rs
    BY <1>3
  <2>3. /\ DOMAIN ms[j].fields = 1 .. Len(ms[j].fields)
        /\ DOMAIN rs[j].fields = 1 .. Len(rs[j].fields)
    BY <1>1, <1>2, <2>2, MapSeqIs DEF GrownIn
  <2>4. Len(rs[j].fields) = Len(ms[j].fields)
    BY <2>1 DEF LinkOf
  <2>5. QED
    BY <2>1, <2>3, <2>4
<1>6. QED
  BY <1>1, <1>2, <1>3, <1>4, <1>5 DEF LinkOf

(* The new group comes last in its list,                                   *)
LEMMA IndexedAfterGrowth ==
  ASSUME NEW ms, NEW rs, NEW i, NEW k, GrownIn(ms, rs, i, k),
         NEW par, NEW slot, NEW idx, NEW P, Shape(ms, par, slot, idx, P)
  PROVE  /\ groupCount(ms, ms[i].fields[k]) \in 0 .. Len(ms)
         /\ Indexed(rs, Longer(par, Len(ms), i), Longer(slot, Len(ms), k),
                    Longer(idx, Len(ms), groupCount(ms, ms[i].fields[k])))
<1>1. PICK e : e = ms[i].fields[k]
  OBVIOUS
<1>2. PICK n \in Nat : /\ n = Len(ms) /\ DOMAIN ms = 1 .. n /\ i \in 1 .. n
                       /\ Len(rs) = n + 1 /\ DOMAIN rs = 1 .. n + 1
  BY GrownInKeeps
<1>3. PICK new \in Nat : new = n + 1
  OBVIOUS
<1>4. /\ rs[new].next = 0 /\ rs[new].fields = <<>>
      /\ \A j \in 1 .. n :
           /\ rs[j].next = IF e.groups # 0 /\ j = e.tail THEN new ELSE ms[j].next
           /\ DOMAIN rs[j].fields = DOMAIN ms[j].fields
           /\ \A l \in DOMAIN ms[j].fields :
                rs[j].fields[l].groups = IF j = i /\ l = k /\ e.groups = 0
                                         THEN new ELSE ms[j].fields[l].groups
  BY <1>1, <1>2, <1>3, GrownInKeeps
<1>5. PICK cnt : cnt = groupCount(ms, e)
  OBVIOUS
<1>6. PICK x : x = Longer(idx, n, cnt)
  OBVIOUS
<1>7. x[new] = cnt /\ \A j \in 2 .. n : x[j] = idx[j]
  <2>1. new \in 2 .. n + 1
    BY <1>2, <1>3
  <2>2. \A j \in 2 .. n : j \in 2 .. n + 1 /\ j # n + 1
    OBVIOUS
  <2>3. QED
    BY <1>3, <1>6, <2>1, <2>2 DEF Longer
<1>8. /\ Indexed(ms, par, slot, idx) /\ Owned(ms, par, slot) /\ ms \in MapSeqs
      /\ i \in DOMAIN ms /\ k \in DOMAIN ms[i].fields
  BY DEF Shape, GrownIn
<1>9. e.groups \in 0 .. Len(ms)
  BY <1>1 DEF GrownIn, MapOK, EntryOK
<1>10. cnt = IF e.groups = 0 THEN 0 ELSE idx[e.tail] + 1
  BY <1>1, <1>5, <1>8, <1>9, IndexIs
<1>11. e.groups # 0 => e.tail \in 2 .. n /\ idx[e.tail] \in 0 .. e.tail - 1
  <2>1. Held(ms, par, slot, i, k)
    BY <1>8 DEF Owned
  <2>2. QED
    BY <1>1, <1>2, <1>8, <2>1 DEF Held, Indexed
<1>12. cnt \in 0 .. n
  BY <1>10, <1>11
<1>13. ASSUME NEW j \in 2 .. new
       PROVE  /\ x[j] \in 0 .. j - 1
              /\ rs[j].next # 0 => x[rs[j].next] = x[j] + 1
  <2>1. CASE j = new
    BY <1>3, <1>4, <1>7, <1>12, <2>1
  <2>2. CASE j # new
    <3>1. j \in 2 .. n /\ j \in 1 .. n
      BY <1>3, <2>2
    <3>2. x[j] = idx[j] /\ idx[j] \in 0 .. j - 1
      BY <1>2, <1>7, <1>8, <3>1 DEF Indexed
    <3>3. CASE e.groups # 0 /\ j = e.tail
      BY <1>4, <1>7, <1>10, <3>1, <3>2, <3>3
    <3>4. CASE ~(e.groups # 0 /\ j = e.tail)
      <4>1. rs[j].next = ms[j].next
        BY <1>4, <3>1, <3>4
      <4>2. ms[j].next # 0 => ms[j].next \in 2 .. n /\ idx[ms[j].next] = idx[j] + 1
        <5>1. Linked(ms, par, slot, j)
          BY <1>2, <1>8, <3>1 DEF Owned
        <5>2. ms[j].next = 0 \/ ms[j].next \in j + 1 .. n
          BY <1>2, <5>1 DEF Linked
        <5>3. j + 1 .. n \subseteq 2 .. n
          BY <3>1
        <5>4. QED
          BY <1>2, <1>8, <3>1, <5>2, <5>3 DEF Indexed
      <4>3. QED
        BY <1>7, <3>2, <4>1, <4>2
    <3>5. QED
      BY <3>3, <3>4
  <2>3. QED
    BY <2>1, <2>2
<1>14. ASSUME NEW j \in 1 .. new, NEW l \in DOMAIN rs[j].fields, rs[j].fields[l].groups # 0
       PROVE  x[rs[j].fields[l].groups] = 0
  <2>1. j \in 1 .. n
    <3>1. j # new
      BY <1>4, <1>14
    <3>2. QED
      BY <1>3, <3>1
  <2>2. l \in DOMAIN ms[j].fields
    BY <1>4, <2>1
  <2>3. CASE j = i /\ l = k /\ e.groups = 0
    BY <1>4, <1>7, <1>10, <2>1, <2>2, <2>3
  <2>4. CASE ~(j = i /\ l = k /\ e.groups = 0)
    <3>1. rs[j].fields[l].groups = ms[j].fields[l].groups
      BY <1>4, <2>1, <2>2, <2>4
    <3>2. Held(ms, par, slot, j, l) /\ idx[ms[j].fields[l].groups] = 0
      BY <1>2, <1>8, <1>14, <2>1, <2>2, <3>1 DEF Owned, Indexed
    <3>3. ms[j].fields[l].groups \in 2 .. n
      BY <1>2, <1>14, <3>1, <3>2 DEF Held
    <3>4. QED
      BY <1>7, <3>1, <3>2, <3>3
  <2>5. QED
    BY <2>3, <2>4
<1>15. QED
  BY <1>1, <1>2, <1>3, <1>5, <1>6, <1>12, <1>13, <1>14 DEF Indexed

(* no other group has its path,                                            *)
LEMMA NewPathIsNew ==
  ASSUME NEW ms, NEW rs, NEW i, NEW k, GrownIn(ms, rs, i, k),
         NEW par, NEW slot, NEW idx, NEW P, Shape(ms, par, slot, idx, P),
         NEW j \in 1 .. Len(ms)
  PROVE  NewPath(ms, P, i, k) \in Seq(Keys) /\ P[j] # NewPath(ms, P, i, k)
<1>1. PICK e : e = ms[i].fields[k]
  OBVIOUS
<1>2. PICK n \in Nat : n = Len(ms) /\ DOMAIN ms = 1 .. n /\ i \in 1 .. n
  BY GrownInKeeps
<1>3. /\ Indexed(ms, par, slot, idx) /\ Owned(ms, par, slot) /\ ms \in MapSeqs
      /\ i \in DOMAIN ms /\ k \in DOMAIN ms[i].fields /\ e.groups \in 0 .. Len(ms)
  BY <1>1 DEF Shape, GrownIn, MapOK, EntryOK
<1>4. PICK cnt \in Nat : cnt = groupCount(ms, e)
  BY <1>1, <1>3, IndexIs
<1>5. PICK t \in Tags : t = e.tag
  BY <1>1, <1>3, MapSeqIs DEF EntryType
<1>6. PICK y \in Keys : y = NewKey(ms, i, k) /\ y = <<t, cnt>>
  BY <1>1, <1>4, <1>5 DEF NewKey, Keys
<1>7. PICK a \in Seq(Keys) : a = P[i]
  BY <1>2 DEF Shape, Paths
<1>8. PICK c \in Seq(Keys) : /\ c = NewPath(ms, P, i, k) /\ Len(c) = Len(a) + 1
                             /\ c[Len(a) + 1] = y /\ \A x \in 1 .. Len(a) : c[x] = a[x]
  <2>1. PICK c \in Seq(Keys) : c = Append(a, y)
    <3>1. Append(a, y) \in Seq(Keys)
      OBVIOUS
    <3>2. QED
      BY <3>1
  <2>2. Len(c) = Len(a) + 1 /\ c[Len(a) + 1] = y /\ \A x \in 1 .. Len(a) : c[x] = a[x]
    BY <2>1
  <2>3. QED
    BY <1>6, <1>7, <2>1, <2>2 DEF NewPath
<1>9. ASSUME P[j] = c PROVE FALSE
  <2>1. j # 1
    <3>1. P[1] = <<>> /\ Len(c) # 0
      BY <1>8 DEF Shape, Paths
    <3>2. QED
      BY <1>9, <3>1
  <2>2. j \in 2 .. n
    BY <1>2, <2>1
  <2>3. /\ par[j] \in 1 .. n /\ Key(ms, par, slot, idx, j) \in Keys
        /\ P[par[j]] \in Seq(Keys)
        /\ Len(c) = Len(P[par[j]]) + 1
        /\ \A x \in 1 .. Len(P[par[j]]) : c[x] = P[par[j]][x]
        /\ c[Len(P[par[j]]) + 1] = Key(ms, par, slot, idx, j)
    BY <1>2, <1>3, <1>9, <2>2, StepOfPath
  <2>4. PICK b \in Seq(Keys) : b = P[par[j]]
    BY <2>3
  <2>5. Len(b) = Len(a)
    BY <1>8, <2>3, <2>4
  <2>6. b = a
    <3>1. \A x \in 1 .. Len(a) : b[x] = a[x]
      BY <1>8, <2>3, <2>4, <2>5
    <3>2. QED
      BY <2>5, <3>1, SeqEqual
  <2>7. par[j] = i
    BY <1>2, <1>7, <2>3, <2>4, <2>6 DEF Shape, Paths
  <2>8. Tag(ms, par, slot, j) = t /\ idx[j] = cnt
    BY <1>6, <1>8, <2>3, <2>4, <2>5 DEF Key
  <2>9. slot[j] = k
    <3>1. slot[j] \in DOMAIN ms[i].fields
      BY <1>2, <1>3, <2>2, <2>7 DEF Owned, Linked
    <3>2. ms[i].fields[slot[j]].tag = ms[i].fields[k].tag
      BY <1>1, <1>5, <2>7, <2>8 DEF Tag, Owner
    <3>3. QED
      BY <1>3, <3>1, <3>2 DEF Shape, Distinct
  <2>10. j \in On(ms, par, slot, i, k)
    BY <1>2, <2>2, <2>7, <2>9 DEF On
  <2>11. idx[j] < cnt
    BY <1>1, <1>3, <1>4, <2>10, IndexIs
  <2>12. QED
    BY <1>4, <2>8, <2>11
<1>10. QED
  BY <1>8, <1>9

(* so that the maps make a tree with one node more,                        *)
LEMMA PathsAfterGrowth ==
  ASSUME NEW ms, NEW rs, NEW i, NEW k, GrownIn(ms, rs, i, k),
         NEW par, NEW slot, NEW idx, NEW P, Shape(ms, par, slot, idx, P)
  PROVE  Paths(rs, Longer(par, Len(ms), i), Longer(slot, Len(ms), k),
               Longer(idx, Len(ms), groupCount(ms, ms[i].fields[k])),
               MorePaths(ms, P, i, k))
<1>1. PICK n \in Nat : /\ n = Len(ms) /\ DOMAIN ms = 1 .. n /\ i \in 1 .. n /\ i \in DOMAIN ms
                       /\ Len(rs) = n + 1 /\ DOMAIN rs = 1 .. n + 1
  BY GrownInKeeps
<1>2. PICK new \in Nat : new = n + 1
  OBVIOUS
<1>3. PICK q, s, x : /\ q = Longer(par, n, i) /\ s = Longer(slot, n, k)
                     /\ x = Longer(idx, n, groupCount(ms, ms[i].fields[k]))
  OBVIOUS
<1>4. /\ q[new] = i /\ s[new] = k /\ x[new] = groupCount(ms, ms[i].fields[k])
      /\ \A j \in 2 .. n : q[j] = par[j] /\ s[j] = slot[j] /\ x[j] = idx[j]
  <2>1. new \in 2 .. n + 1
    BY <1>1, <1>2
  <2>2. \A j \in 2 .. n : j \in 2 .. n + 1 /\ j # n + 1
    OBVIOUS
  <2>3. QED
    BY <1>2, <1>3, <2>1, <2>2 DEF Longer
<1>5. ms \in MapSeqs /\ Owned(ms, par, slot) /\ k \in DOMAIN ms[i].fields
  BY DEF Shape, GrownIn
<1>6. PICK Q : Q = MorePaths(ms, P, i, k)
  OBVIOUS
<1>7. PICK c \in Seq(Keys) : c = NewPath(ms, P, i, k) /\ \A j \in 1 .. n : P[j] # c
  <2>1. 1 \in 1 .. n
    BY <1>1
  <2>2. QED
    BY <1>1, <2>1, NewPathIsNew
<1>8. P \in [1 .. n -> Seq(Keys)]
  BY <1>1 DEF Shape, Paths
<1>9. Q[new] = c /\ (\A j \in 1 .. n : Q[j] = P[j]) /\ Q \in [1 .. new -> Seq(Keys)]
  <2>1. Q = [j \in 1 .. new |-> IF j = new THEN c ELSE P[j]]
    BY <1>1, <1>2, <1>6, <1>7 DEF MorePaths
  <2>2. \A j \in 1 .. new : j = new \/ j \in 1 .. n
    BY <1>2
  <2>3. new \in 1 .. new /\ \A j \in 1 .. n : j \in 1 .. new /\ j # new
    BY <1>2
  <2>4. QED
    BY <1>7, <1>8, <2>1, <2>2, <2>3
<1>10. ASSUME NEW j \in 2 .. new PROVE Q[j] = Append(Q[q[j]], Key(rs, q, s, x, j))
  <2>1. CASE j = new
    <3>1. rs[i].fields[k].tag = ms[i].fields[k].tag
      BY <1>1, <1>5, GrownInKeeps
    <3>2. Key(rs, q, s, x, j) = NewKey(ms, i, k)
      BY <1>4, <2>1, <3>1 DEF Key, Tag, Owner, NewKey
    <3>3. QED
      BY <1>1, <1>4, <1>7, <1>9, <2>1, <3>2 DEF NewPath
  <2>2. CASE j # new
    <3>1. j \in 2 .. n /\ j \in 1 .. n
      BY <1>2, <2>2
    <3>2. par[j] \in 1 .. n
      BY <1>1, <1>5, <3>1, StepOfPath
    <3>3. slot[j] \in DOMAIN ms[par[j]].fields
      BY <1>1, <1>5, <3>1 DEF Owned, Linked
    <3>4. rs[par[j]].fields[slot[j]].tag = ms[par[j]].fields[slot[j]].tag
      <4>1. \A h \in 1 .. n : \A l \in DOMAIN ms[h].fields :
               rs[h].fields[l].tag = ms[h].fields[l].tag
        BY <1>1, GrownInKeeps
      <4>2. QED
        BY <3>2, <3>3, <4>1
    <3>5. Key(rs, q, s, x, j) = Key(ms, par, slot, idx, j)
      BY <1>4, <3>1, <3>4 DEF Key, Tag, Owner
    <3>6. P[j] = Append(P[par[j]], Key(ms, par, slot, idx, j))
      BY <1>1, <3>1 DEF Shape, Paths
    <3>7. QED
      BY <1>4, <1>9, <3>1, <3>2, <3>5, <3>6
  <2>3. QED
    BY <2>1, <2>2
<1>11. \A j \in 1 .. new : j = new \/ j \in 1 .. n
  BY <1>2
<1>12. ASSUME NEW g \in 1 .. new, NEW j \in 1 .. new, Q[g] = Q[j] PROVE g = j
  <2>1. \A a, b \in 1 .. n : P[a] = P[b] => a = b
    BY <1>1 DEF Shape, Paths
  <2>2. QED
    BY <1>7, <1>9, <1>11, <1>12, <2>1
<1>13. ASSUME NEW j \in 1 .. new, NEW l \in 0 .. Len(Q[j])
       PROVE  \E g \in 1 .. new : Begins(Q[g], l, Q[j])
  <2>1. ASSUME NEW h \in 1 .. n, NEW m \in 0 .. Len(P[h])
        PROVE  \E g \in 1 .. new : g \in 1 .. n /\ Begins(P[g], m, P[h])
    <3>1. \E g \in 1 .. n : Begins(P[g], m, P[h])
      BY <1>1, <2>1 DEF Shape, Paths
    <3>2. 1 .. n \subseteq 1 .. new
      BY <1>2
    <3>3. QED
      BY <3>1, <3>2
  <2>2. CASE j \in 1 .. n
    <3>1. l \in 0 .. Len(P[j])
      BY <1>9, <2>2
    <3>2. PICK g \in 1 .. new : g \in 1 .. n /\ Begins(P[g], l, P[j])
      BY <2>1, <2>2, <3>1
    <3>3. QED
      BY <1>9, <2>2, <3>2
  <2>3. CASE j = new
    <3>1. PICK a \in Seq(Keys) : a = P[i] /\ Len(c) = Len(a) + 1 /\ \A y \in 1 .. Len(a) : c[y] = a[y]
      <4>1. PICK a \in Seq(Keys) : a = P[i]
        BY <1>1, <1>8
      <4>2. 1 \in 1 .. n /\ new \in 2 .. new
        BY <1>1, <1>2
      <4>3. PICK y : y = Key(rs, q, s, x, new)
        OBVIOUS
      <4>4. c = Append(a, y)
        BY <1>1, <1>4, <1>9, <1>10, <4>1, <4>2, <4>3
      <4>5. Len(c) = Len(a) + 1 /\ \A z \in 1 .. Len(a) : c[z] = a[z]
        BY <4>4
      <4>6. QED
        BY <4>1, <4>5
    <3>2. CASE l = Len(c)
      <4>1. Begins(c, l, c)
        BY <3>2 DEF Begins
      <4>2. QED
        BY <1>9, <2>3, <4>1
    <3>3. CASE l # Len(c)
      <4>1. l \in 0 .. Len(a)
        BY <1>9, <2>3, <3>1, <3>3
      <4>2. PICK g \in 1 .. new : g \in 1 .. n /\ Begins(P[g], l, a)
        BY <1>1, <2>1, <3>1, <4>1
      <4>3. \A y \in 1 .. l : y \in 1 .. Len(a)
        BY <4>1
      <4>4. Begins(P[g], l, c)
        BY <3>1, <4>2, <4>3 DEF Begins
      <4>5. QED
        BY <1>9, <2>3, <4>2, <4>4
    <3>4. QED
      BY <3>2, <3>3
  <2>4. QED
    BY <1>11, <2>2, <2>3
<1>14. Q[1] = <<>>
  <2>1. P[1] = <<>> /\ 1 \in 1 .. n
    BY <1>1 DEF Shape, Paths
  <2>2. QED
    BY <1>9, <2>1
<1>15. QED
  BY <1>1, <1>2, <1>3, <1>6, <1>9, <1>10, <1>12, <1>13, <1>14 DEF Paths

(* of the right shape,                                                     *)
LEMMA ShapeAfterGrowth ==
  ASSUME NEW ms, NEW rs, NEW i, NEW k, GrownIn(ms, rs, i, k),
         NEW par, NEW slot, NEW idx, NEW P, Shape(ms, par, slot, idx, P)
  PROVE  Shape(rs, Longer(par, Len(ms), i), Longer(slot, Len(ms), k),
               Longer(idx, Len(ms), groupCount(ms, ms[i].fields[k])),
               MorePaths(ms, P, i, k))
<1>1. PICK n \in Nat : n = Len(ms) /\ DOMAIN ms = 1 .. n /\ DOMAIN rs = 1 .. n + 1
  BY GrownInKeeps
<1>2. Owned(rs, Longer(par, Len(ms), i), Longer(slot, Len(ms), k))
  BY OwnedAfterGrowth DEF Shape, GrownIn
<1>3. Distinct(rs)
  <2>1. ASSUME NEW j \in DOMAIN rs, NEW a \in DOMAIN rs[j].fields,
               NEW b \in DOMAIN rs[j].fields, rs[j].fields[a].tag = rs[j].fields[b].tag
        PROVE  a = b
    <3>1. j # n + 1
      BY <1>1, GrownInKeeps
    <3>2. j \in 1 .. n
      BY <1>1, <3>1
    <3>3. /\ a \in DOMAIN ms[j].fields /\ b \in DOMAIN ms[j].fields
          /\ ms[j].fields[a].tag = ms[j].fields[b].tag
      BY <1>1, <2>1, <3>2, GrownInKeeps
    <3>4. QED
      BY <1>1, <3>2, <3>3 DEF Shape, Distinct
  <2>2. QED
    BY <2>1 DEF Distinct
<1>4. QED
  BY <1>2, <1>3, IndexedAfterGrowth, PathsAfterGrowth DEF Shape

(* and show that node and nothing else that is new.                        *)
LEMMA PictureAfterGrowth ==
  ASSUME NEW ms, NEW rs, NEW i, NEW k, GrownIn(ms, rs, i, k),
         NEW P, NEW s, NEW b
  PROVE  Picture(rs, MorePaths(ms, P, i, k), s, b) =
           Picture(ms, P, s, b) \cup {GT!Node(NewPath(ms, P, i, k), <<>>)}
<1>1. PICK n \in Nat : n = Len(ms) /\ DOMAIN ms = 1 .. n /\ Len(rs) = n + 1
  BY GrownInKeeps
<1>2. PICK Q : Q = MorePaths(ms, P, i, k)
  OBVIOUS
<1>3. Q[n + 1] = NewPath(ms, P, i, k) /\ \A j \in 1 .. n : Q[j] = P[j]
  <2>1. n + 1 \in 1 .. n + 1 /\ \A j \in 1 .. n : j \in 1 .. n + 1 /\ j # n + 1
    OBVIOUS
  <2>2. QED
    BY <1>1, <1>2, <2>1 DEF MorePaths
<1>4. ASSUME NEW j \in 1 .. n PROVE Shown(s, b, rs[j].fields) = Shown(s, b, ms[j].fields)
  <2>1. /\ DOMAIN rs[j].fields = DOMAIN ms[j].fields
        /\ \A l \in DOMAIN ms[j].fields :
             /\ rs[j].fields[l].tag = ms[j].fields[l].tag
             /\ rs[j].fields[l].offset = ms[j].fields[l].offset
             /\ rs[j].fields[l].length = ms[j].fields[l].length
    BY <1>1, GrownInKeeps
  <2>2. \A l \in DOMAIN ms[j].fields :
           Field(rs[j].fields[l].tag, Value(s, b, rs[j].fields[l])) =
           Field(ms[j].fields[l].tag, Value(s, b, ms[j].fields[l]))
    BY <2>1 DEF Value
  <2>3. QED
    BY <2>1, <2>2 DEF Shown
<1>5. Shown(s, b, rs[n + 1].fields) = <<>>
  <2>1. rs[n + 1].fields = <<>>
    BY <1>1, GrownInKeeps
  <2>2. QED
    BY <2>1 DEF Shown
<1>6. PICK N : N = [j \in 1 .. n + 1 |-> GT!Node(Q[j], Shown(s, b, rs[j].fields))]
  OBVIOUS
<1>7. \A j \in 1 .. n : N[j] = GT!Node(P[j], Shown(s, b, ms[j].fields))
  <2>1. \A j \in 1 .. n : j \in 1 .. n + 1
    OBVIOUS
  <2>2. QED
    BY <1>3, <1>4, <1>6, <2>1
<1>8. N[n + 1] = GT!Node(NewPath(ms, P, i, k), <<>>)
  <2>1. n + 1 \in 1 .. n + 1
    OBVIOUS
  <2>2. QED
    BY <1>3, <1>5, <1>6, <2>1
<1>9. Picture(rs, Q, s, b) = {N[j] : j \in 1 .. n + 1}
  BY <1>1, <1>6 DEF Picture
<1>10. Picture(ms, P, s, b) = {N[j] : j \in 1 .. n}
  BY <1>1, <1>7 DEF Picture
<1>11. {N[j] : j \in 1 .. n + 1} = {N[j] : j \in 1 .. n} \cup {N[n + 1]}
  <2>1. \A j \in 1 .. n + 1 : j = n + 1 \/ j \in 1 .. n
    OBVIOUS
  <2>2. n + 1 \in 1 .. n + 1 /\ \A j \in 1 .. n : j \in 1 .. n + 1
    OBVIOUS
  <2>3. QED
    BY <2>1, <2>2
<1>12. QED
  BY <1>2, <1>8, <1>9, <1>10, <1>11

-----------------------------------------------------------------------------
(* How many groups there are.                                              *)

(* A set is counted by numbering it.                                       *)
LEMMA Counted ==
  ASSUME NEW c \in Nat, NEW T, NEW F \in [1 .. c -> T],
         \A x, y \in 1 .. c : F[x] = F[y] => x = y,
         \A z \in T : \E x \in 1 .. c : F[x] = z
  PROVE  Cardinality(T) = c
<1>1. F \in Bijection(1 .. c, T)
  BY DEF Bijection, Injection, Surjection, IsInjective
<1>2. ExistsBijection(1 .. c, T)
  BY <1>1 DEF ExistsBijection
<1>3. QED
  BY <1>2, FS_CountingElements

(* groupCount counts the maps that hang off the field.                     *)
LEMMA CountOfOn ==
  ASSUME NEW ms \in MapSeqs, NEW par, NEW slot, NEW idx,
         Owned(ms, par, slot), Indexed(ms, par, slot, idx),
         NEW i \in DOMAIN ms, NEW k \in DOMAIN ms[i].fields,
         NEW e, e = ms[i].fields[k], e.groups \in 0 .. Len(ms)
  PROVE  groupCount(ms, e) = Cardinality(On(ms, par, slot, i, k))
<1>1. PICK S : S = On(ms, par, slot, i, k)
  OBVIOUS
<1>2. PICK c \in Nat : c = groupCount(ms, e)
  BY IndexIs
<1>3. /\ \A j \in S : idx[j] \in Nat /\ idx[j] < c /\ group(ms, e, idx[j]) = j
      /\ \A m \in Nat : m < c => group(ms, e, m) \in S /\ idx[group(ms, e, m)] = m
  BY <1>1, <1>2, IndexIs
<1>4. PICK F : F = [m \in 1 .. c |-> group(ms, e, m - 1)]
  OBVIOUS
<1>5. ASSUME NEW m \in 1 .. c PROVE F[m] \in S /\ idx[F[m]] = m - 1
  <2>1. m - 1 \in Nat /\ m - 1 < c
    OBVIOUS
  <2>2. QED
    BY <1>3, <1>4, <2>1
<1>6. F \in [1 .. c -> S]
  BY <1>4, <1>5
<1>7. ASSUME NEW x \in 1 .. c, NEW y \in 1 .. c, F[x] = F[y] PROVE x = y
  <2>1. x - 1 = y - 1
    BY <1>5, <1>7
  <2>2. QED
    BY <2>1
<1>8. ASSUME NEW j \in S PROVE \E x \in 1 .. c : F[x] = j
  <2>1. idx[j] + 1 \in 1 .. c /\ (idx[j] + 1) - 1 = idx[j]
    BY <1>2, <1>3
  <2>2. QED
    BY <1>3, <1>4, <2>1
<1>9. QED
  BY <1>1, <1>2, <1>6, <1>7, <1>8, Counted

(* What a step adds to a path can be taken off.                            *)
LEMMA PathSplits ==
  ASSUME NEW S, NEW a \in Seq(S), NEW y \in S
  PROVE  /\ Append(a, y) # <<>>
         /\ Front(Append(a, y)) = a /\ Last(Append(a, y)) = y
<1>1. PICK l \in Nat : l = Len(a)
  OBVIOUS
<1>2. PICK c \in Seq(S) : /\ c = Append(a, y) /\ Len(c) = l + 1 /\ c[l + 1] = y
                          /\ \A x \in 1 .. l : c[x] = a[x]
  <2>1. Append(a, y) \in Seq(S) /\ Len(Append(a, y)) = l + 1
    BY <1>1
  <2>2. Append(a, y)[l + 1] = y /\ \A x \in 1 .. l : Append(a, y)[x] = a[x]
    BY <1>1
  <2>3. QED
    BY <2>1, <2>2
<1>3. c # <<>> /\ Last(c) = y
  BY <1>2 DEF Last
<1>4. Front(c) = a
  <2>1. 1 \in 1 .. Len(c) + 1 /\ l \in 0 .. Len(c) /\ 1 <= l + 1 /\ Len(c) - 1 = l
    BY <1>2
  <2>2. PartOf(S, c, 1, l, SubSeq(c, 1, l))
    BY <2>1, PartIs
  <2>3. PICK d : d = SubSeq(c, 1, l)
    OBVIOUS
  <2>4. l - 1 + 1 = l /\ \A x \in 1 .. l : 1 + x - 1 = x
    OBVIOUS
  <2>5. d \in Seq(S) /\ Len(d) = l /\ \A x \in 1 .. l : d[x] = c[x]
    BY <2>2, <2>3, <2>4 DEF PartOf
  <2>6. d = a
    BY <1>1, <1>2, <2>5, SeqEqual
  <2>7. QED
    BY <2>1, <2>3, <2>6 DEF Front
<1>5. QED
  BY <1>2, <1>3, <1>4

(* The maps with that tag that hang off map i.                             *)
Under(ms, par, slot, i, t) ==
  {j \in 2 .. Len(ms) : par[j] = i /\ Tag(ms, par, slot, j) = t}

(* GroupTree counts and takes paths apart in the same way.                 *)
LEMMA SameOperators ==
  /\ \A S : GT!Cardinality(S) = Cardinality(S)
  /\ \A q : GT!Front(q) = Front(q) /\ GT!Last(q) = Last(q)
  /\ \A q : GT!Range(q) = Range(q)
<1>1. \A S : GT!Cardinality(S) = Cardinality(S)
  BY DEF GT!Cardinality, Cardinality
<1>2. \A q : GT!Front(q) = Front(q) /\ GT!Last(q) = Last(q)
  BY DEF GT!Front, GT!Last, Front, Last
<1>3. \A q : GT!Range(q) = Range(q)
  BY DEF GT!Range, Range
<1>4. QED
  BY <1>1, <1>2, <1>3

(* They are the groups that GroupTree counts.                              *)
LEMMA GroupsAreUnder ==
  ASSUME maps \in MapSeqs, NEW par, NEW slot, NEW idx, NEW P,
         Shape(maps, par, slot, idx, P),
         NEW s, NEW b, TreeRead = Picture(maps, P, s, b),
         NEW i \in 1 .. Len(maps), NEW p, p.path = P[i], NEW t
  PROVE  GT!Groups(p, t) = Cardinality(Under(maps, par, slot, i, t))
<1>1. PICK n \in Nat : n = Len(maps)
  BY MapSeqIs
<1>2. PICK N : N = [j \in 1 .. n |-> GT!Node(P[j], Shown(s, b, maps[j].fields))]
  OBVIOUS
<1>3. TreeRead = {N[j] : j \in 1 .. n} /\ \A j \in 1 .. n : N[j].path = P[j]
  BY <1>1, <1>2 DEF Picture, GT!Node
<1>4. PICK S : S = Under(maps, par, slot, i, t)
  OBVIOUS
<1>5. \A j : j \in S <=> j \in 2 .. n /\ par[j] = i /\ Tag(maps, par, slot, j) = t
  BY <1>1, <1>4 DEF Under
<1>6. PICK T : T = {m \in TreeRead : /\ m.path # <<>> /\ Front(m.path) = p.path
                                     /\ Last(m.path)[1] = t}
  OBVIOUS
<1>7. GT!Groups(p, t) = Cardinality(T)
  BY <1>6, SameOperators DEF GT!Groups
<1>8. ASSUME NEW j \in 1 .. n
      PROVE  N[j] \in T <=> j \in S
  <2>1. N[j] \in T <=> /\ P[j] # <<>> /\ Front(P[j]) = P[i]
                       /\ Last(P[j])[1] = t
    BY <1>3, <1>6
  <2>2. CASE j = 1
    <3>1. P[j] = <<>> /\ j \notin S
      BY <1>5, <2>2 DEF Shape, Paths
    <3>2. QED
      BY <2>1, <3>1
  <2>3. CASE j # 1
    <3>1. j \in 2 .. n
      BY <2>3
    <3>2. PICK h \in 1 .. n : h = par[j]
      BY <1>1, <3>1, StepOfPath
    <3>3. PICK y \in Keys : y = Key(maps, par, slot, idx, j)
      BY <1>1, <3>1, StepOfPath
    <3>4. PICK a \in Seq(Keys) : a = P[h]
      BY <1>1 DEF Shape, Paths
    <3>5. P[j] = Append(a, y)
      BY <1>1, <3>1, <3>2, <3>3, <3>4 DEF Shape, Paths
    <3>6. P[j] # <<>> /\ Front(P[j]) = a /\ Last(P[j]) = y
      BY <3>5, PathSplits
    <3>7. y[1] = Tag(maps, par, slot, j)
      BY <3>3 DEF Key
    <3>8. a = P[i] <=> h = i
      BY <1>1, <3>4 DEF Shape, Paths
    <3>9. QED
      BY <1>5, <2>1, <3>1, <3>2, <3>6, <3>7, <3>8
  <2>4. QED
    BY <2>2, <2>3
<1>9. PICK F : F = [j \in S |-> N[j]]
  OBVIOUS
<1>10. \A j \in S : j \in 1 .. n
  BY <1>5
<1>11. F \in Bijection(S, T)
  <2>1. F \in [S -> T]
    BY <1>8, <1>9, <1>10
  <2>2. ASSUME NEW x \in S, NEW y \in S, F[x] = F[y] PROVE x = y
    <3>1. P[x] = P[y]
      BY <1>3, <1>9, <1>10, <2>2
    <3>2. QED
      BY <1>1, <1>10, <3>1 DEF Shape, Paths
  <2>3. ASSUME NEW z \in T PROVE \E x \in S : F[x] = z
    <3>1. PICK j \in 1 .. n : z = N[j]
      BY <1>3, <1>6
    <3>2. QED
      BY <1>8, <1>9, <3>1
  <2>4. QED
    BY <2>1, <2>2, <2>3 DEF Bijection, Injection, Surjection, IsInjective
<1>12. IsFiniteSet(S)
  <2>1. IsFiniteSet(1 .. n)
    BY <1>1, FS_Interval
  <2>2. S \in SUBSET (1 .. n)
    BY <1>10
  <2>3. QED
    BY <2>1, <2>2, FS_Subset
<1>13. Cardinality(T) = Cardinality(S)
  <2>1. ExistsBijection(S, T)
    BY <1>11 DEF ExistsBijection
  <2>2. QED
    BY <1>12, <2>1, FS_Bijection
<1>14. QED
  BY <1>4, <1>7, <1>13

(* With a field of that tag, they are counted by groupCount, even after    *)
(* that field was put.                                                     *)
LEMMA CountIsUnder ==
  ASSUME NEW ms \in MapSeqs, NEW par, NEW slot, NEW idx, NEW P,
         Shape(ms, par, slot, idx, P),
         NEW i \in DOMAIN ms, NEW k \in DOMAIN ms[i].fields,
         NEW e, e = ms[i].fields[k], e.groups \in 0 .. Len(ms)
  PROVE  Under(ms, par, slot, i, e.tag) = On(ms, par, slot, i, k) 
         /\ groupCount(ms, e) = Cardinality(Under(ms, par, slot, i, e.tag))
<1>1. PICK n \in Nat : n = Len(ms) /\ DOMAIN ms = 1 .. n
  BY MapSeqIs
<1>2. ASSUME NEW j \in 2 .. n, par[j] = i
      PROVE  Tag(ms, par, slot, j) = e.tag <=> slot[j] = k
  <2>1. slot[j] \in DOMAIN ms[i].fields
    BY <1>1, <1>2 DEF Shape, Owned, Linked
  <2>2. QED
    BY <1>2, <2>1 DEF Tag, Owner, Shape, Distinct
<1>3. Under(ms, par, slot, i, e.tag) = On(ms, par, slot, i, k)
  BY <1>1, <1>2 DEF Under, On
<1>4. groupCount(ms, e) = Cardinality(On(ms, par, slot, i, k))
  BY CountOfOn DEF Shape
<1>5. QED
  BY <1>3, <1>4

(* A put leaves them as they are.                                          *)
LEMMA UnderAfterPut ==
  ASSUME NEW ms, NEW rs, NEW i, NEW f, PutIn(ms, rs, i, f),
         NEW par, NEW slot, NEW idx, NEW P, Shape(ms, par, slot, idx, P), NEW h, NEW t
  PROVE  Under(rs, par, slot, h, t) = Under(ms, par, slot, h, t)
<1>1. PICK n \in Nat : n = Len(ms) /\ n = Len(rs) /\ DOMAIN ms = 1 .. n
  BY MapSeqIs DEF PutIn
<1>2. ASSUME NEW j \in 2 .. n PROVE Tag(rs, par, slot, j) = Tag(ms, par, slot, j)
  <2>1. par[j] \in DOMAIN ms
    BY <1>1, StepOfPath DEF PutIn
  <2>2. slot[j] \in DOMAIN ms[par[j]].fields
    BY <1>1 DEF Shape, Owned, Linked
  <2>3. QED
    BY <2>1, <2>2, PutInKeeps DEF Tag, Owner
<1>3. QED
  BY <1>1, <1>2 DEF Under

-----------------------------------------------------------------------------
(* The tree while it is parsed.                                            *)

(* Nothing in the maps is of bytes still to come.                          *)
InStream(ms, b, n) ==
  \A i \in DOMAIN ms : \A k \in DOMAIN ms[i].fields :
    b + ms[i].fields[k].offset + ms[i].fields[k].length <= n

TreeAt(par, slot, idx, P) ==
  Shape(maps, par, slot, idx, P) /\ DownFrom(Len(maps), par, stack, map)

TreeInv == /\ InStream(maps, begin, Len(stream))
           /\ \E par, slot, idx, P : TreeAt(par, slot, idx, P)

(* What a reader finds in the next state is what the shape says then.      *)
LEMMA PictureStays == PictureIsRead'
BY PictureHolds, PTL

(* It is read so after a step,                                             *)
LEMMA ReadNext ==
  ASSUME NEW par, NEW slot, NEW idx, NEW P, MapsOK(maps)', TreeAt(par, slot, idx, P)'
  PROVE  /\ TreeRead' = Picture(maps', P, stream', begin')
         /\ PlaceRead' = Place(P, map')
<1>1. map' \in 0 .. Len(maps')
  BY DEF TreeAt, DownFrom
<1>2. QED
  BY <1>1, PictureStays DEF PictureIsRead, TreeAt

(* and now.                                                                *)
LEMMA ReadNow ==
  ASSUME NEW par, NEW slot, NEW idx, NEW P, MapsOK(maps), TreeAt(par, slot, idx, P)
  PROVE  /\ TreeRead = Picture(maps, P, stream, begin)
         /\ PlaceRead = Place(P, map)
<1>1. map \in 0 .. Len(maps)
  BY DEF TreeAt, DownFrom
<1>2. QED
  BY <1>1, PictureHolds DEF PictureIsRead, TreeAt

(* The node of map i.                                                      *)
NodeOf(P, i) == GT!Node(P[i], Shown(stream, begin, maps[i].fields))
Given(f) == Field(f.tag, ValueOf(f))

(* A field that can be stored is, where parsing stands.                    *)
LEMMA StoreShows ==
  ASSUME StreamInv, NEW par, NEW slot, NEW idx, NEW P, TreeAt(par, slot, idx, P),
         InStream(maps, begin, Len(stream)),
         NEW f \in NextField, Whole(f), CanStore(f), NEW h, h = NodeOf(P, map)
  PROVE  /\ map \in 1 .. Len(maps) /\ Len(Stored(f)) = Len(maps)
         /\ PutIn(maps, Stored(f), map, f) /\ MapsOK(Stored(f))
         /\ Shape(Stored(f), par, slot, idx, P)
         /\ InStream(Stored(f), begin, Len(stream))
         /\ h \in TreeRead /\ h.path = P[map] /\ PlaceRead = {P[map]}
         /\ Given(f) \in FieldOffered
         /\ Picture(Stored(f), P, stream, begin) = GT!Stored(h, Given(f))
<1>1. MapsOK(maps) /\ maps \in MapSeqs
  BY DEF StreamInv, ParserInv, MapsOK
<1>2. PICK n \in Nat : n = Len(maps) /\ DOMAIN maps = 1 .. n
  BY <1>1, MapSeqIs
<1>3. Shape(maps, par, slot, idx, P) /\ map \in 1 .. n
  <2>1. map \in 0 .. n
    BY <1>2 DEF TreeAt, DownFrom
  <2>2. map # 0
    BY DEF CanStore
  <2>3. QED
    BY <2>1, <2>2 DEF TreeAt
<1>4. PICK ms : ms = Stored(f)
  OBVIOUS
<1>5. /\ MapsOK(ms) /\ Len(ms) = n /\ PutOf(maps[map], ms[map], f)
      /\ \A j \in DOMAIN maps : j # map => ms[j] = maps[j]
  BY <1>1, <1>2, <1>3, <1>4, StoredIs DEF CanStore
<1>6. PutIn(maps, ms, map, f)
  <2>1. ms[map] = put(maps[map], f)
    BY <1>2, <1>3, <1>4 DEF Stored
  <2>2. maps[map] \in MapType /\ DistinctTags(maps[map].fields)
    BY <1>1, <1>2, <1>3, MapSeqIs DEF Shape, Distinct, DistinctTags
  <2>3. Puts(maps[map].fields, ms[map].fields, f)
    BY <2>1, <2>2, PutPuts
  <2>4. QED
    BY <1>1, <1>2, <1>3, <1>5, <2>3 DEF PutIn, MapsOK
<1>7. Shape(ms, par, slot, idx, P)
  BY <1>3, <1>6, ShapeAfterPut
<1>8. TreeRead = Picture(maps, P, stream, begin) /\ PlaceRead = {P[map]}
  <2>1. map # 0
    BY <1>3
  <2>2. QED
    BY <1>1, <2>1, ReadNow DEF Place
<1>9. Given(f) = Field(f.tag, Value(stream, begin, f)) /\ Given(f) \in FieldOffered
  BY DEF Given, Value, ValueOf, FieldOffered
<1>10. /\ h \in TreeRead /\ h.path = P[map]
       /\ Picture(ms, P, stream, begin) =
            (TreeRead \ {h}) \cup {GT!Node(h.path, GT!Put(h.fields, Given(f)))}
  BY <1>3, <1>6, <1>8, <1>9, PictureAfterPut DEF NodeOf
<1>11. InStream(ms, begin, Len(stream))
  <2>1. PICK l \in Nat : l = Len(stream)
    BY DEF StreamInv, ParserInv, Positions
  <2>2. begin \in Nat /\ cp \in 0 .. l /\ begin \in 0 .. cp
    BY <2>1 DEF StreamInv, ParserInv, Positions
  <2>3. f \in RawFields /\ f.soh \in cp + 2 .. l /\ f.offset + f.length = f.soh - 1 - begin
    BY <2>1, <2>2, NextFieldIs
  <2>4. f.offset \in Nat /\ f.length \in Nat
    BY <2>3 DEF RawFields
  <2>5. begin + f.offset + f.length <= l
    BY <2>1, <2>2, <2>3, <2>4
  <2>6. ASSUME NEW j \in DOMAIN ms, NEW k \in DOMAIN ms[j].fields
        PROVE  begin + ms[j].fields[k].offset + ms[j].fields[k].length <= l
    <3>1. j \in DOMAIN maps
      BY <1>2, <1>5, MapSeqIs DEF MapsOK
    <3>2. CASE j # map
      BY <1>5, <2>1, <2>6, <3>1, <3>2 DEF InStream
    <3>3. CASE j = map
      <4>1. \/ ms[j].fields[k].offset = f.offset /\ ms[j].fields[k].length = f.length
            \/ k \in DOMAIN maps[map].fields /\ ms[j].fields[k] = maps[map].fields[k]
        BY <1>5, <2>6, <3>3 DEF PutOf
      <4>2. QED
        BY <2>1, <2>5, <3>1, <3>3, <4>1 DEF InStream
    <3>4. QED
      BY <3>2, <3>3
  <2>7. QED
    BY <2>1, <2>6 DEF InStream
<1>12. QED
  BY <1>2, <1>3, <1>4, <1>5, <1>6, <1>7, <1>8, <1>9, <1>10, <1>11 DEF GT!Stored

-----------------------------------------------------------------------------
(* The field that parse has read, and the group it adds.                   *)

(* A group that is added to field t of map i of a tree is shown: q, s, x   *)
(* and Q are what par, slot, idx and P become.                             *)
GrowsTo(ms, rs, i, t, par, P, q, s, x, Q) ==
  /\ Len(rs) = Len(ms) + 1 /\ Shape(rs, q, s, x, Q)
  /\ q[Len(ms) + 1] = i /\ \A j \in 2 .. Len(ms) : q[j] = par[j]
  /\ \A v, b : Picture(rs, Q, v, b) = Picture(ms, P, v, b) \cup {GT!Node(Q[Len(ms) + 1], <<>>)}
  /\ Q[Len(ms) + 1] = Append(P[i], <<t, groupCount(ms, ms[i].fields[find(ms[i], t)])>>)

(* That is what addGroup does.                                             *)
LEMMA AddGroupGrows ==
  ASSUME NEW ms, MapsOK(ms), NEW i \in DOMAIN ms, NEW t, find(ms[i], t) # 0, ~ArenaFull(ms),
         NEW par, NEW slot, NEW idx, NEW P, Shape(ms, par, slot, idx, P)
  PROVE  /\ \E q, s, x, Q : GrowsTo(ms, addGroup(ms, i, t), i, t, par, P, q, s, x, Q)
         /\ \A b, n : InStream(ms, b, n) => InStream(addGroup(ms, i, t), b, n)
<1>1. PICK n \in Nat : n = Len(ms) /\ DOMAIN ms = 1 .. n
  BY MapSeqIs DEF MapsOK
<1>2. ms \in MapSeqs
  BY DEF MapsOK
<1>3. PICK k : k = find(ms[i], t)
  OBVIOUS
<1>4. k \in DOMAIN ms[i].fields /\ ms[i].fields[k].tag = t
  <2>1. /\ ms[i] \in MapType /\ Len(ms[i].fields) \in Nat
        /\ DOMAIN ms[i].fields = 1 .. Len(ms[i].fields)
    BY <1>2, MapSeqIs
  <2>2. k \in 0 .. Len(ms[i].fields) /\ ms[i].fields[k].tag = t
    BY <1>3, <2>1, FindIs
  <2>3. QED
    BY <1>3, <2>1, <2>2
<1>5. PICK e : e = ms[i].fields[k]
  OBVIOUS
<1>6. e.groups # 0 => e.tail \in DOMAIN ms /\ e.tail # i
  <2>1. Held(ms, par, slot, i, k)
    BY <1>4 DEF Shape, Owned
  <2>2. e.groups # 0 => e.tail \in 2 .. n /\ par[e.tail] = i
    BY <1>1, <1>5, <2>1 DEF Held
  <2>3. \A j \in 2 .. n : par[j] \in 1 .. j - 1
    BY <1>1 DEF Shape, Owned, Linked
  <2>4. \A j \in 2 .. n : j \in 1 .. n /\ par[j] # j
    BY <2>3
  <2>5. QED
    BY <1>1, <2>2, <2>4
<1>7. PICK rs : rs = addGroup(ms, i, t)
  OBVIOUS
<1>8. GrownIn(ms, rs, i, k)
  <2>1. GrowthOf(ms, rs, i, k)
    BY <1>2, <1>3, <1>5, <1>6, <1>7, GrowthIs
  <2>2. QED
    BY <1>2, <1>4, <2>1 DEF GrownIn, MapsOK
<1>9. PICK q, s, x, Q : /\ q = Longer(par, n, i) /\ s = Longer(slot, n, k)
                        /\ x = Longer(idx, n, groupCount(ms, ms[i].fields[k]))
                        /\ Q = MorePaths(ms, P, i, k)
  OBVIOUS
<1>10. Shape(rs, q, s, x, Q)
  BY <1>1, <1>8, <1>9, ShapeAfterGrowth
<1>11. q[n + 1] = i /\ \A j \in 2 .. n : q[j] = par[j]
  <2>1. n + 1 \in 2 .. n + 1 /\ \A j \in 2 .. n : j \in 2 .. n + 1 /\ j # n + 1
    BY <1>1
  <2>2. QED
    BY <1>9, <2>1 DEF Longer
<1>12. Q[n + 1] = NewPath(ms, P, i, k)
  <2>1. n + 1 \in 1 .. n + 1
    OBVIOUS
  <2>2. QED
    BY <1>1, <1>9, <2>1 DEF MorePaths
<1>13. Q[n + 1] = Append(P[i], <<t, groupCount(ms, ms[i].fields[k])>>)
  BY <1>4, <1>12 DEF NewPath, NewKey
<1>14. \A v, b : Picture(rs, Q, v, b) = Picture(ms, P, v, b) \cup {GT!Node(Q[n + 1], <<>>)}
  BY <1>8, <1>9, <1>12, PictureAfterGrowth
<1>15. Len(rs) = n + 1
  BY <1>1, <1>8, GrownInKeeps
<1>16. ASSUME NEW b, NEW m, InStream(ms, b, m) PROVE InStream(rs, b, m)
  <2>1. ASSUME NEW j \in DOMAIN rs, NEW l \in DOMAIN rs[j].fields
        PROVE  b + rs[j].fields[l].offset + rs[j].fields[l].length <= m
    <3>1. DOMAIN rs = 1 .. n + 1 /\ rs[n + 1].fields = <<>>
      BY <1>1, <1>8, GrownInKeeps
    <3>2. j \in 1 .. n
      BY <2>1, <3>1
    <3>3. l \in DOMAIN ms[j].fields /\ rs[j].fields[l].offset = ms[j].fields[l].offset
          /\ rs[j].fields[l].length = ms[j].fields[l].length
      BY <1>1, <1>8, <2>1, <3>2, GrownInKeeps
    <3>4. QED
      BY <1>1, <1>16, <3>2, <3>3 DEF InStream
  <2>2. QED
    BY <2>1 DEF InStream
<1>17. GrowsTo(ms, rs, i, t, par, P, q, s, x, Q)
  BY <1>1, <1>3, <1>10, <1>11, <1>13, <1>14, <1>15 DEF GrowsTo
<1>18. QED
  BY <1>7, <1>16, <1>17

(* The steps that store field f all leave the rest as it is.               *)
KeepsRest == stream' = stream /\ begin' = begin /\ StreamInv'

(* GroupTree may do what it does next.                                     *)
TreeStep == TreeInv' /\ (GT!Next \/ UNCHANGED GT!vars)

(* A field is stored where parsing stands, and no group added: it goes on  *)
(* at map m.                                                               *)
LEMMA StoreOnly ==
  ASSUME StreamInv, NEW par, NEW slot, NEW idx, NEW P, TreeAt(par, slot, idx, P),
         InStream(maps, begin, Len(stream)),
         NEW f \in NextField, Whole(f), CanStore(f), NEW h, h = NodeOf(P, map),
         KeepsRest, maps' = Stored(f), DownFrom(Len(maps), par, stack', map')
  PROVE  /\ TreeInv'
         /\ TreeRead' = GT!Stored(h, Given(f)) /\ PlaceRead' = Place(P, map')
<1>1. /\ Len(Stored(f)) = Len(maps) /\ Shape(Stored(f), par, slot, idx, P)
      /\ InStream(Stored(f), begin, Len(stream))
      /\ Picture(Stored(f), P, stream, begin) = GT!Stored(h, Given(f))
  BY StoreShows
<1>2. TreeAt(par, slot, idx, P)'
  BY <1>1 DEF TreeAt
<1>3. TreeInv'
  BY <1>1, <1>2 DEF TreeInv, KeepsRest
<1>4. MapsOK(maps)'
  BY DEF KeepsRest, StreamInv, ParserInv
<1>5. QED
  BY <1>1, <1>2, <1>3, <1>4, ReadNext DEF KeepsRest

(* A field is stored there, and a group added to field t of map i, to which*)
(* st leads.                                                               *)
LEMMA StoreAndGrow ==
  ASSUME StreamInv, NEW par, NEW slot, NEW idx, NEW P, TreeAt(par, slot, idx, P),
         InStream(maps, begin, Len(stream)),
         NEW f \in NextField, Whole(f), CanStore(f), NEW h, h = NodeOf(P, map),
         NEW i \in 1 .. Len(maps), NEW p, p.path = P[i],
         NEW t, find(Stored(f)[i], t) # 0,
         DownFrom(Len(maps), par, stack', 0), stack' # <<>>, stack'[Len(stack')] = i,
         KeepsRest, maps' = addGroup(Stored(f), i, t), map' = AddedMap(maps)
  PROVE  /\ TreeInv'
         /\ \/ GT!NoRoom(h, Given(f))
            \/ GT!Grow(h, Given(f), p, t)
<1>1. PICK ms : ms = Stored(f)
  OBVIOUS
<1>2. PICK n \in Nat : n = Len(maps) /\ n >= 1
  BY MapSeqIs DEF StreamInv, ParserInv, MapsOK
<1>3. /\ Len(ms) = n /\ Shape(ms, par, slot, idx, P) /\ MapsOK(ms)
      /\ PutIn(maps, ms, map, f) /\ InStream(ms, begin, Len(stream))
      /\ Picture(ms, P, stream, begin) = GT!Stored(h, Given(f))
  BY <1>1, <1>2, StoreShows
<1>4. AddedMap(maps) = AddedMap(ms) /\ DOMAIN ms = 1 .. n
  <2>1. AddedMap(maps) = AddedMap(ms)
    BY <1>2, <1>3 DEF AddedMap, ArenaFull, Allocated
  <2>2. QED
    BY <1>3, <2>1, MapSeqIs DEF MapsOK
<1>5. CASE ArenaFull(ms)
  <2>1. maps' = ms /\ map' = 0
    BY <1>1, <1>4, <1>5 DEF addGroup, AddedMap
  <2>2. TreeInv' /\ TreeRead' = GT!Stored(h, Given(f)) /\ PlaceRead' = Place(P, map')
    BY <1>1, <2>1, StoreOnly
  <2>3. PlaceRead' = {}
    BY <2>1, <2>2 DEF Place
  <2>4. QED
    BY <2>2, <2>3 DEF GT!NoRoom
<1>6. CASE ~ArenaFull(ms)
  <2>1. PICK rs : rs = addGroup(ms, i, t)
    OBVIOUS
  <2>2. PICK e : e = ms[i].fields[find(ms[i], t)]
    OBVIOUS
  <2>3. /\ \E q, s, x, Q : GrowsTo(ms, rs, i, t, par, P, q, s, x, Q)
        /\ InStream(rs, begin, Len(stream))
    BY <1>1, <1>2, <1>3, <1>4, <1>6, <2>1, AddGroupGrows
  <2>4. PICK q, s, x, Q :
          /\ Len(rs) = n + 1 /\ Shape(rs, q, s, x, Q)
          /\ q[n + 1] = i /\ \A j \in 2 .. n : q[j] = par[j]
          /\ Picture(rs, Q, stream, begin) =
               GT!Stored(h, Given(f)) \cup {GT!Node(Q[n + 1], <<>>)}
          /\ Q[n + 1] = Append(P[i], <<t, groupCount(ms, e)>>)
    <3>1. PICK q, s, x, Q : GrowsTo(ms, rs, i, t, par, P, q, s, x, Q)
      BY <2>3
    <3>2. /\ Len(rs) = n + 1 /\ Shape(rs, q, s, x, Q)
          /\ q[n + 1] = i /\ \A j \in 2 .. n : q[j] = par[j]
          /\ Q[n + 1] = Append(P[i], <<t, groupCount(ms, e)>>)
      BY <1>3, <2>2, <3>1 DEF GrowsTo
    <3>3. \A v, b : Picture(rs, Q, v, b) = Picture(ms, P, v, b) \cup {GT!Node(Q[n + 1], <<>>)}
      BY <1>3, <3>1 DEF GrowsTo
    <3>4. Picture(rs, Q, stream, begin) =
            Picture(ms, P, stream, begin) \cup {GT!Node(Q[n + 1], <<>>)}
      BY <3>3
    <3>5. QED
      BY <1>3, <3>2, <3>4
  <2>5. map' = n + 1 /\ maps' = rs
    BY <1>1, <1>3, <1>4, <1>6, <2>1 DEF AddedMap
  <2>6. DownFrom(n + 1, q, stack', n + 1)
    <3>1. DownFrom(n + 1, q, stack', 0)
      BY <1>2, <2>4, DownAfterGrowth
    <3>2. n + 1 \in 0 .. n + 1 /\ n + 1 # 1
      BY <1>2
    <3>3. QED
      BY <1>2, <2>4, <3>1, <3>2, DownToNew
  <2>7. TreeAt(q, s, x, Q)' /\ TreeInv'
    <3>1. TreeAt(q, s, x, Q)'
      BY <2>4, <2>5, <2>6 DEF TreeAt
    <3>2. QED
      BY <2>3, <2>5, <3>1 DEF TreeInv, KeepsRest
  <2>8. TreeRead' = Picture(rs, Q, stream, begin) /\ PlaceRead' = {Q[n + 1]}
    <3>1. MapsOK(maps)'
      BY DEF KeepsRest, StreamInv, ParserInv
    <3>2. TreeRead' = Picture(maps', Q, stream', begin') /\ PlaceRead' = Place(Q, map')
      BY <2>7, <3>1, ReadNext
    <3>3. QED
      BY <1>2, <2>5, <3>2 DEF KeepsRest, Place
  <2>9. groupCount(ms, e) = GT!Groups(p, t)
    <3>1. PICK k : k = find(ms[i], t)
      OBVIOUS
    <3>2. k \in DOMAIN ms[i].fields /\ e = ms[i].fields[k] /\ e.tag = t /\ e.groups \in 0 .. Len(ms)
      <4>1. /\ ms[i] \in MapType /\ Len(ms[i].fields) \in Nat
            /\ DOMAIN ms[i].fields = 1 .. Len(ms[i].fields)
        BY <1>2, <1>3, <1>4, MapSeqIs DEF MapsOK
      <4>2. k \in 0 .. Len(ms[i].fields) /\ ms[i].fields[k].tag = t
        BY <1>1, <3>1, <4>1, FindIs
      <4>3. k \in DOMAIN ms[i].fields
        BY <1>1, <3>1, <4>1, <4>2
      <4>4. e.groups \in 0 .. Len(ms)
        BY <1>2, <1>3, <1>4, <2>2, <3>1, <4>3 DEF MapsOK, MapOK, EntryOK
      <4>5. QED
        BY <2>2, <3>1, <4>2, <4>3, <4>4
    <3>3. groupCount(ms, e) = Cardinality(Under(ms, par, slot, i, t))
      BY <1>2, <1>3, <1>4, <3>2, CountIsUnder DEF MapsOK
    <3>4. Under(ms, par, slot, i, t) = Under(maps, par, slot, i, t)
      BY <1>3, UnderAfterPut DEF TreeAt
    <3>5. GT!Groups(p, t) = Cardinality(Under(maps, par, slot, i, t))
      <4>1. MapsOK(maps) /\ maps \in MapSeqs
        BY DEF StreamInv, ParserInv, MapsOK
      <4>2. TreeRead = Picture(maps, P, stream, begin)
        BY <4>1, ReadNow
      <4>3. QED
        BY <4>1, <4>2, GroupsAreUnder DEF TreeAt
    <3>6. QED
      BY <3>3, <3>4, <3>5
  <2>10. GT!Grow(h, Given(f), p, t)
    <3>1. PICK path : path = Append(p.path, <<t, GT!Groups(p, t)>>)
      OBVIOUS
    <3>2. path = Q[n + 1]
      BY <2>4, <2>9, <3>1
    <3>3. PlaceRead' = {path} /\ TreeRead' = GT!Stored(h, Given(f)) \cup {GT!Node(path, <<>>)}
      BY <2>4, <2>8, <3>2
    <3>4. QED
      BY <3>1, <3>3 DEF GT!Grow
  <2>11. QED
    BY <2>7, <2>10
<1>7. QED
  BY <1>5, <1>6

-----------------------------------------------------------------------------
(* Where a group ends.                                                     *)

(* p is the node that h hangs off, c the field that counts the groups      *)
(* there, and all of them are there when AllReceived says so.              *)
CountedAt(f, h, p, c, P) ==
  /\ p \in TreeRead /\ p.path = P[Last(stack)]
  /\ h.path # <<>> /\ p.path = GT!Front(h.path)
  /\ c \in GT!Range(p.fields) /\ c.tag = CountTag(f)
  /\ AllReceived(Stored(f), Last(stack), CountTag(f)) <=>
       GT!Groups(p, c.tag) >= parseInt(c.value)
  /\ ~AllReceived(Stored(f), Last(stack), CountTag(f)) <=>
       GT!Groups(p, c.tag) < parseInt(c.value)

(* A field that ends a group ends it in the node that counts it.           *)
LEMMA EndsInNode ==
  ASSUME StreamInv, NEW par, NEW slot, NEW idx, NEW P, TreeAt(par, slot, idx, P),
         InStream(maps, begin, Len(stream)),
         NEW f \in NextField, Whole(f), CanStore(f), NEW h, h = NodeOf(P, map),
         Ends(f)
  PROVE  \E p, c : CountedAt(f, h, p, c, P)
<1>1. MapsOK(maps) /\ maps \in MapSeqs
  BY DEF StreamInv, ParserInv, MapsOK
<1>2. PICK n \in Nat : n = Len(maps) /\ DOMAIN maps = 1 .. n
  BY <1>1, MapSeqIs
<1>3. PICK ms : ms = Stored(f)
  OBVIOUS
<1>4. /\ map \in 1 .. n /\ Len(ms) = n /\ PutIn(maps, ms, map, f) /\ MapsOK(ms)
      /\ Shape(ms, par, slot, idx, P) /\ h.path = P[map]
  BY <1>2, <1>3, StoreShows
<1>5. PICK i : i = Last(stack)
  OBVIOUS
<1>6. PICK t : t = CountTag(f)
  OBVIOUS
<1>7. stack # <<>> /\ i \in 1 .. n /\ i = stack[Len(stack)] /\ find(ms[i], t) # 0
  BY <1>2, <1>3, <1>5, <1>6, EndsIn DEF TreeAt
<1>8. map \in 2 .. n /\ par[map] = i /\ i # map
  <2>1. map # 1 /\ par[map] = i
    BY <1>4, <1>7 DEF TreeAt, DownFrom
  <2>2. map \in 2 .. n
    BY <1>4, <2>1
  <2>3. par[map] \in 1 .. map - 1
    BY <1>1, <1>2, <2>2, StepOfPath DEF TreeAt
  <2>4. QED
    BY <2>1, <2>2, <2>3
<1>9. ms[i] = maps[i] /\ i \in DOMAIN ms
  <2>1. i \in DOMAIN maps
    BY <1>2, <1>7
  <2>2. QED
    BY <1>4, <1>8, <2>1, PutInKeeps DEF PutIn
<1>10. PICK k : k = find(maps[i], t)
  OBVIOUS
<1>11. k \in DOMAIN maps[i].fields /\ k # 0 /\ maps[i].fields[k].tag = t
  <2>1. /\ maps[i] \in MapType /\ Len(maps[i].fields) \in Nat
        /\ DOMAIN maps[i].fields = 1 .. Len(maps[i].fields)
    BY <1>1, <1>2, <1>7, MapSeqIs
  <2>2. k \in 0 .. Len(maps[i].fields) /\ k # 0 /\ maps[i].fields[k].tag = t
    BY <1>7, <1>9, <1>10, <2>1, FindIs
  <2>3. QED
    BY <2>1, <2>2
<1>12. PICK e : e = maps[i].fields[k]
  OBVIOUS
<1>13. e.groups \in 0 .. n
  BY <1>1, <1>2, <1>7, <1>11, <1>12 DEF MapsOK, MapOK, EntryOK
<1>14. PICK p : p = NodeOf(P, i) /\ p.path = P[i]
               /\ p.fields = Shown(stream, begin, maps[i].fields)
  <2>1. /\ NodeOf(P, i).path = P[i]
        /\ NodeOf(P, i).fields = Shown(stream, begin, maps[i].fields)
    BY DEF NodeOf, GT!Node
  <2>2. QED
    BY <2>1
<1>15. p \in TreeRead
  <2>1. TreeRead = Picture(maps, P, stream, begin)
    BY <1>1, ReadNow
  <2>2. QED
    BY <1>2, <1>7, <1>14, <2>1 DEF Picture, NodeOf
<1>16. PICK c : /\ c = Field(e.tag, Value(stream, begin, e))
                /\ c.tag = t /\ c.value = Value(stream, begin, e)
  <2>1. /\ Field(e.tag, Value(stream, begin, e)).tag = e.tag
        /\ Field(e.tag, Value(stream, begin, e)).value = Value(stream, begin, e)
    BY DEF Field
  <2>2. QED
    BY <1>11, <1>12, <2>1
<1>17. c \in GT!Range(p.fields)
  <2>1. k \in DOMAIN p.fields /\ p.fields[k] = c
    BY <1>11, <1>12, <1>14, <1>16 DEF Shown
  <2>2. c \in Range(p.fields)
    BY <2>1 DEF Range
  <2>3. QED
    BY <2>2, SameOperators
<1>18. h.path # <<>> /\ GT!Front(h.path) = P[i]
  <2>1. PICK y \in Keys : y = Key(maps, par, slot, idx, map)
    BY <1>1, <1>2, <1>8, StepOfPath DEF TreeAt
  <2>2. PICK a \in Seq(Keys) : a = P[i]
    BY <1>2, <1>7 DEF TreeAt, Shape, Paths
  <2>3. P[map] = Append(a, y)
    BY <1>2, <1>8, <2>1, <2>2 DEF TreeAt, Shape, Paths
  <2>4. P[map] # <<>> /\ Front(P[map]) = a
    BY <2>3, PathSplits
  <2>5. QED
    BY <1>4, <2>2, <2>4, SameOperators
<1>19. PICK m \in Nat : m = groupCount(ms, e) /\ GT!Groups(p, t) = m
  <2>1. /\ ms \in MapSeqs /\ i \in DOMAIN ms /\ k \in DOMAIN ms[i].fields
        /\ e = ms[i].fields[k] /\ e.groups \in 0 .. Len(ms)
    BY <1>4, <1>9, <1>11, <1>12, <1>13 DEF MapsOK
  <2>2. groupCount(ms, e) \in Nat
    BY <1>4, <2>1, IndexIs DEF Shape
  <2>3. groupCount(ms, e) = Cardinality(Under(ms, par, slot, i, t))
    BY <1>4, <1>11, <1>12, <2>1, CountIsUnder
  <2>4. Under(ms, par, slot, i, t) = Under(maps, par, slot, i, t)
    BY <1>4, UnderAfterPut DEF TreeAt
  <2>5. GT!Groups(p, t) = Cardinality(Under(maps, par, slot, i, t))
    <3>1. TreeRead = Picture(maps, P, stream, begin)
      BY <1>1, ReadNow
    <3>2. QED
      BY <1>1, <1>2, <1>7, <1>14, <3>1, GroupsAreUnder DEF TreeAt
  <2>6. QED
    BY <2>2, <2>3, <2>4, <2>5
<1>20. PICK v \in Int : v = parseInt(c.value) /\ v = getInt(e)
  <2>1. parseInt(c.value) \in Int
    BY NumberIs
  <2>2. parseInt(c.value) = getInt(e)
    BY <1>16 DEF getInt, ValueOf, Value
  <2>3. QED
    BY <2>1, <2>2
<1>21. AllReceived(ms, i, t) <=> m >= v
  <2>1. get(ms[i], t) = {e}
    BY <1>9, <1>10, <1>11, <1>12 DEF get
  <2>2. QED
    BY <1>19, <1>20, <2>1 DEF AllReceived
<1>22. ~AllReceived(ms, i, t) <=> m < v
  BY <1>21
<1>23. QED
  BY <1>3, <1>5, <1>6, <1>14, <1>15, <1>16, <1>17, <1>18, <1>19, <1>20, <1>21, <1>22 DEF CountedAt

-----------------------------------------------------------------------------
(* The steps of the parser are steps of GroupTree.                         *)

(* PlainField and CutShort.                                                *)
LEMMA StayStep ==
  ASSUME StreamInv, TreeInv, NEW f \in NextField, Whole(f), CanStore(f),
         KeepsRest, maps' = Stored(f), map' = map, stack' = stack
  PROVE  TreeStep
<1>1. PICK par, slot, idx, P : TreeAt(par, slot, idx, P)
  BY DEF TreeInv
<1>2. InStream(maps, begin, Len(stream))
  BY DEF TreeInv
<1>3. PICK h : h = NodeOf(P, map)
  OBVIOUS
<1>4. /\ h \in TreeRead /\ h.path = P[map] /\ PlaceRead = {P[map]} /\ map # 0
      /\ Given(f) \in FieldOffered
  BY <1>1, <1>2, <1>3, StoreShows
<1>5. DownFrom(Len(maps), par, stack', map')
  BY <1>1 DEF TreeAt
<1>6. /\ TreeInv'
      /\ TreeRead' = GT!Stored(h, Given(f)) /\ PlaceRead' = Place(P, map')
  BY <1>1, <1>2, <1>3, <1>5, StoreOnly
<1>7. PlaceRead' = PlaceRead
  BY <1>4, <1>6 DEF Place
<1>8. GT!Read(h, Given(f))
  BY <1>6, <1>7 DEF GT!Read, GT!Stay
<1>9. QED
  BY <1>4, <1>6, <1>8 DEF TreeStep, GT!Next

(* OpenGroup.                                                              *)
LEMMA DownStep ==
  ASSUME StreamInv, TreeInv, NEW f \in NextField, Whole(f), CanStore(f),
         KeepsRest, maps' = addGroup(Stored(f), map, f.tag), map' = AddedMap(maps),
         stack' = Append(stack, map)
  PROVE  TreeStep
<1>1. PICK par, slot, idx, P : TreeAt(par, slot, idx, P)
  BY DEF TreeInv
<1>2. InStream(maps, begin, Len(stream))
  BY DEF TreeInv
<1>3. PICK h : h = NodeOf(P, map)
  OBVIOUS
<1>4. /\ h \in TreeRead /\ h.path = P[map] /\ PlaceRead = {P[map]}
      /\ map \in 1 .. Len(maps) /\ Given(f) \in FieldOffered
  BY <1>1, <1>2, <1>3, StoreShows
<1>5. find(Stored(f)[map], f.tag) # 0
  BY <1>1, <1>4, GroupsAfterStore DEF StreamInv, ParserInv, TreeAt, Shape, DownFrom
<1>6. DownFrom(Len(maps), par, stack', 0) /\ stack' # <<>> /\ stack'[Len(stack')] = map
  <2>1. stack \in Seq(Nat) /\ map \in Nat /\ map # 0 /\ Len(maps) \in Nat
    BY <1>1, <1>4, MapSeqIs DEF TreeAt, DownFrom, StreamInv, ParserInv, MapsOK
  <2>2. DownFrom(Len(maps), par, Append(stack, map), 0)
    BY <1>1, <2>1, DownToStack DEF TreeAt
  <2>3. Append(stack, map) # <<>> /\ Append(stack, map)[Len(Append(stack, map))] = map
    BY <2>1
  <2>4. QED
    BY <2>2, <2>3
<1>7. TreeInv' /\ (GT!NoRoom(h, Given(f)) \/ GT!Grow(h, Given(f), h, f.tag))
  BY <1>1, <1>2, <1>3, <1>4, <1>5, <1>6, StoreAndGrow
<1>8. Given(f).tag = f.tag
  BY DEF Given, Field
<1>9. GT!Read(h, Given(f))
  BY <1>7, <1>8 DEF GT!Read, GT!Down
<1>10. QED
  BY <1>4, <1>7, <1>9 DEF TreeStep, GT!Next

(* NextGroup.                                                              *)
LEMMA AcrossStep ==
  ASSUME StreamInv, TreeInv, NEW f \in NextField, Whole(f), CanStore(f), Ends(f),
         ~AllReceived(Stored(f), Last(stack), CountTag(f)),
         KeepsRest, maps' = addGroup(Stored(f), Last(stack), CountTag(f)),
         map' = AddedMap(maps), stack' = stack
  PROVE  TreeStep
<1>1. PICK par, slot, idx, P : TreeAt(par, slot, idx, P)
  BY DEF TreeInv
<1>2. InStream(maps, begin, Len(stream))
  BY DEF TreeInv
<1>3. PICK h : h = NodeOf(P, map)
  OBVIOUS
<1>4. /\ h \in TreeRead /\ h.path = P[map] /\ PlaceRead = {P[map]}
      /\ Given(f) \in FieldOffered
  BY <1>1, <1>2, <1>3, StoreShows
<1>5. PICK p, c : CountedAt(f, h, p, c, P)
  BY <1>1, <1>2, <1>3, EndsInNode
<1>6. PICK i, t : i = Last(stack) /\ t = CountTag(f)
  OBVIOUS
<1>7. stack # <<>> /\ i \in 1 .. Len(maps) /\ i = stack[Len(stack)] /\ find(Stored(f)[i], t) # 0
  BY <1>1, <1>6, EndsIn DEF TreeAt
<1>8. DownFrom(Len(maps), par, stack', 0)
  <2>1. Len(maps) \in Nat
    BY MapSeqIs DEF StreamInv, ParserInv, MapsOK
  <2>2. 0 \in 0 .. Len(maps)
    BY <2>1
  <2>3. QED
    BY <1>1, <1>7, <2>1, <2>2, DownToNew DEF TreeAt
<1>9. TreeInv' /\ (GT!NoRoom(h, Given(f)) \/ GT!Grow(h, Given(f), p, t))
  <2>1. p.path = P[i]
    BY <1>5, <1>6 DEF CountedAt
  <2>2. QED
    BY <1>1, <1>2, <1>3, <1>6, <1>7, <1>8, <2>1, StoreAndGrow
<1>10. GT!Read(h, Given(f))
  <2>1. CASE GT!NoRoom(h, Given(f))
    BY <2>1 DEF GT!Read
  <2>2. CASE GT!Grow(h, Given(f), p, t)
    <3>1. GT!Across(h, Given(f), p, c)
      BY <1>5, <1>6, <2>2 DEF GT!Across, CountedAt
    <3>2. QED
      BY <1>5, <3>1 DEF GT!Read, CountedAt
  <2>3. QED
    BY <1>9, <2>1, <2>2
<1>11. QED
  BY <1>4, <1>9, <1>10 DEF TreeStep, GT!Next

(* CloseGroup.                                                             *)
LEMMA UpStep ==
  ASSUME StreamInv, TreeInv, NEW f \in NextField, Whole(f), CanStore(f), Ends(f),
         AllReceived(Stored(f), Last(stack), CountTag(f)),
         KeepsRest, maps' = Stored(f), map' = Last(stack), stack' = Front(stack)
  PROVE  TreeStep
<1>1. PICK par, slot, idx, P : TreeAt(par, slot, idx, P)
  BY DEF TreeInv
<1>2. InStream(maps, begin, Len(stream))
  BY DEF TreeInv
<1>3. PICK h : h = NodeOf(P, map)
  OBVIOUS
<1>4. /\ h \in TreeRead /\ h.path = P[map] /\ PlaceRead = {P[map]}
      /\ Given(f) \in FieldOffered
  BY <1>1, <1>2, <1>3, StoreShows
<1>5. PICK p, c : CountedAt(f, h, p, c, P)
  BY <1>1, <1>2, <1>3, EndsInNode
<1>6. stack # <<>> /\ Last(stack) \in 1 .. Len(maps) /\ Len(maps) \in Nat
  BY <1>1, EndsIn, MapSeqIs DEF TreeAt, StreamInv, ParserInv, MapsOK
<1>7. DownFrom(Len(maps), par, stack', map')
  BY <1>1, <1>6, DownBack DEF TreeAt
<1>8. /\ TreeInv'
      /\ TreeRead' = GT!Stored(h, Given(f)) /\ PlaceRead' = Place(P, map')
  BY <1>1, <1>2, <1>3, <1>7, StoreOnly
<1>9. PlaceRead' = {p.path}
  <2>1. map' # 0
    BY <1>6
  <2>2. QED
    BY <1>5, <1>8, <2>1 DEF Place, CountedAt
<1>10. GT!Up(h, Given(f), p, c)
  BY <1>5, <1>8, <1>9 DEF GT!Up, CountedAt
<1>11. GT!Read(h, Given(f))
  BY <1>5, <1>10 DEF GT!Read, CountedAt
<1>12. QED
  BY <1>4, <1>8, <1>11 DEF TreeStep, GT!Next

-----------------------------------------------------------------------------
(* The bytes, and every turn of parse.                                     *)

(* The root has the empty path.                                            *)
FirstPath == [j \in 1 .. 1 |-> <<>>]

(* A new message is the root alone.                                        *)
LEMMA FirstShape ==
  ASSUME NEW par, NEW slot, NEW idx
  PROVE  /\ Shape(<<NewMap>>, par, slot, idx, FirstPath)
         /\ DownFrom(Len(<<NewMap>>), par, <<>>, 1)
         /\ \A s, b : Picture(<<NewMap>>, FirstPath, s, b) = GT!Root
         /\ \A b, n : InStream(<<NewMap>>, b, n)
         /\ Place(FirstPath, 1) = {<<>>}
<1>1. PICK m \in MapType : m = NewMap /\ m.fields = <<>> /\ m.next = 0
  BY NewMapType
<1>2. PICK ms : ms = <<m>> /\ Len(ms) = 1 /\ ms[1] = m /\ DOMAIN ms = {1}
  <2>1. <<m>> \in Seq(MapType) /\ Len(<<m>>) = 1 /\ <<m>>[1] = m
    OBVIOUS
  <2>2. DOMAIN <<m>> = {1}
    OBVIOUS
  <2>3. QED
    BY <2>1, <2>2
<1>3. 2 .. 1 = {} /\ 1 .. 1 = {1} /\ DOMAIN m.fields = {}
  BY <1>1
<1>4. FirstPath[1] = <<>> /\ FirstPath \in [1 .. 1 -> Seq(Keys)]
  <2>1. <<>> \in Seq(Keys) /\ 1 \in 1 .. 1
    OBVIOUS
  <2>2. QED
    BY <2>1 DEF FirstPath
<1>5. Owned(ms, par, slot)
  BY <1>1, <1>2, <1>3 DEF Owned
<1>6. Indexed(ms, par, slot, idx) /\ Distinct(ms)
  BY <1>1, <1>2, <1>3 DEF Indexed, Distinct
<1>7. Paths(ms, par, slot, idx, FirstPath)
  <2>1. \A j \in 1 .. 1 : \A k \in 0 .. Len(FirstPath[j]) :
          \E i \in 1 .. 1 : Begins(FirstPath[i], k, FirstPath[j])
    <3>1. ASSUME NEW k \in 0 .. Len(<<>>) PROVE Begins(<<>>, k, <<>>)
      <4>1. k = 0 /\ Len(<<>>) = 0 /\ 1 .. 0 = {}
        BY EmptySeq
      <4>2. QED
        BY <4>1 DEF Begins
    <3>2. QED
      BY <1>3, <1>4, <3>1
  <2>2. QED
    BY <1>2, <1>3, <1>4, <2>1 DEF Paths
<1>8. DownFrom(1, par, <<>>, 1)
  <2>1. <<>> \in Seq(Nat) /\ DOMAIN <<>> = {} /\ 1 \in 0 .. 1
    OBVIOUS
  <2>2. QED
    BY <2>1 DEF DownFrom
<1>9. ASSUME NEW s, NEW b PROVE Picture(ms, FirstPath, s, b) = GT!Root
  <2>1. Shown(s, b, ms[1].fields) = <<>>
    BY <1>1, <1>2 DEF Shown
  <2>2. Picture(ms, FirstPath, s, b) = {GT!Node(FirstPath[1], Shown(s, b, ms[1].fields))}
    BY <1>2, <1>3 DEF Picture
  <2>3. QED
    BY <1>4, <2>1, <2>2 DEF GT!Root
<1>10. \A b, n : InStream(ms, b, n)
  BY <1>1, <1>2, <1>3 DEF InStream
<1>11. Place(FirstPath, 1) = {<<>>}
  BY <1>4 DEF Place
<1>12. QED
  BY <1>1, <1>2, <1>5, <1>6, <1>7, <1>8, <1>9, <1>10, <1>11 DEF Shape

(* So is the message there is at the start.                                *)
LEMMA TreeInit == ParserInit => TreeInv /\ GT!Init
<1> SUFFICES ASSUME ParserInit PROVE TreeInv /\ GT!Init
  OBVIOUS
<1>1. maps = <<NewMap>> /\ map = 1 /\ stack = <<>>
  BY DEF ParserInit
<1>2. TreeAt(0, 0, 0, FirstPath)
  BY <1>1, FirstShape DEF TreeAt
<1>3. TreeInv
  BY <1>1, <1>2, FirstShape DEF TreeInv
<1>4. MapsOK(maps)
  BY ParserInitInv DEF ParserInv
<1>5. TreeRead = GT!Root /\ PlaceRead = {<<>>}
  BY <1>1, <1>2, <1>4, ReadNow, FirstShape
<1>6. QED
  BY <1>3, <1>5 DEF GT!Init

(* A call of parse clears the tree.                                        *)
LEMMA ParseStep == ASSUME Parse, StreamInv' PROVE TreeStep
<1>1. maps' = <<NewMap>> /\ map' = 1 /\ stack' = <<>>
  BY DEF Parse
<1>2. TreeAt(0, 0, 0, FirstPath)'
  BY <1>1, FirstShape DEF TreeAt
<1>3. TreeInv'
  BY <1>1, <1>2, FirstShape DEF TreeInv
<1>4. MapsOK(maps)'
  BY DEF StreamInv, ParserInv
<1>5. TreeRead' = GT!Root /\ PlaceRead' = {<<>>}
  BY <1>1, <1>2, <1>4, ReadNext, FirstShape
<1>6. QED
  BY <1>3, <1>5 DEF TreeStep, GT!Next, GT!Clear

(* Bytes that arrive, or a return, change nothing in the tree.             *)
LEMMA QuietStep ==
  ASSUME StreamInv, TreeInv, StreamInv', NEW q \in Seq(Byte), stream' = stream \o q,
         maps' = maps, map' = map, stack' = stack, begin' = begin
  PROVE  TreeStep
<1>1. PICK par, slot, idx, P : TreeAt(par, slot, idx, P)
  BY DEF TreeInv
<1>2. TreeAt(par, slot, idx, P)'
  BY <1>1 DEF TreeAt
<1>3. PICK v \in Seq(Byte), l \in Nat : v = stream /\ l = Len(v)
  BY DEF StreamInv
<1>4. PICK w \in Seq(Byte) : /\ w = stream' /\ Len(w) >= l
                             /\ \A x \in 1 .. l : w[x] = v[x]
  <2>1. PICK w : w = v \o q
    OBVIOUS
  <2>2. Joined(Byte, v, q, w)
    BY <2>1, ConcatIs
  <2>3. /\ w \in Seq(Byte) /\ Len(w) = Len(v) + Len(q)
        /\ \A x \in 1 .. Len(v) : w[x] = v[x]
    BY <2>2 DEF Joined
  <2>4. Len(q) \in Nat
    OBVIOUS
  <2>5. Len(w) >= l
    BY <1>3, <2>3, <2>4
  <2>6. w = stream'
    BY <1>3, <2>1
  <2>7. QED
    BY <1>3, <2>3, <2>5, <2>6
<1>5. PICK b \in Nat : b = begin
  BY DEF StreamInv, ParserInv, Positions
<1>6. InStream(maps, b, l) /\ InStream(maps, b, Len(w))
  <2>1. InStream(maps, b, l)
    BY <1>3, <1>5 DEF TreeInv
  <2>2. ASSUME NEW i \in DOMAIN maps, NEW k \in DOMAIN maps[i].fields
        PROVE  b + maps[i].fields[k].offset + maps[i].fields[k].length <= Len(w)
    <3>1. maps[i].fields[k] \in EntryType
      BY MapSeqIs DEF StreamInv, ParserInv, MapsOK
    <3>2. PICK o \in Nat, m \in Nat : o = maps[i].fields[k].offset /\ m = maps[i].fields[k].length
      BY <3>1 DEF EntryType
    <3>3. b + o + m <= l
      BY <2>1, <3>2 DEF InStream
    <3>4. QED
      BY <1>4, <3>2, <3>3
  <2>3. QED
    BY <2>1, <2>2 DEF InStream
<1>7. ASSUME NEW i \in DOMAIN maps, NEW k \in DOMAIN maps[i].fields
      PROVE  Value(w, b, maps[i].fields[k]) = Value(v, b, maps[i].fields[k])
  <2>1. maps[i].fields[k] \in EntryType
    BY MapSeqIs DEF StreamInv, ParserInv, MapsOK
  <2>2. PICK o \in Nat, m \in Nat : o = maps[i].fields[k].offset /\ m = maps[i].fields[k].length
    BY <2>1 DEF EntryType
  <2>3. b + o + m <= l
    BY <1>6, <2>2 DEF InStream
  <2>4. PICK a \in Int, z \in Int : a = b + o + 1 /\ z = b + o + m
    OBVIOUS
  <2>5. /\ a \in 1 .. Len(v) + 1 /\ z \in 0 .. Len(v) /\ a <= z + 1
        /\ a \in 1 .. Len(w) + 1 /\ z \in 0 .. Len(w)
    BY <1>3, <1>4, <2>3, <2>4
  <2>6. PICK c, d : c = SubSeq(v, a, z) /\ d = SubSeq(w, a, z)
    OBVIOUS
  <2>7. PartOf(Byte, v, a, z, c) /\ PartOf(Byte, w, a, z, d)
    BY <2>5, <2>6, PartIs
  <2>8. /\ c \in Seq(Byte) /\ d \in Seq(Byte) /\ Len(c) = z - a + 1 /\ Len(d) = z - a + 1
        /\ \A x \in 1 .. z - a + 1 : c[x] = v[a + x - 1] /\ d[x] = w[a + x - 1]
    BY <2>7 DEF PartOf
  <2>9. \A x \in 1 .. z - a + 1 : a + x - 1 \in 1 .. l
    BY <2>3, <2>4
  <2>10. c = d
    <3>1. \A x \in 1 .. z - a + 1 : w[a + x - 1] = v[a + x - 1]
      BY <1>4, <2>9
    <3>2. \A x \in 1 .. z - a + 1 : c[x] = d[x]
      BY <2>8, <3>1
    <3>3. Len(c) = Len(d) /\ \A x \in 1 .. Len(c) : c[x] = d[x]
      BY <2>8, <3>2
    <3>4. QED
      BY <2>8, <3>3, SeqEqual
  <2>11. QED
    BY <2>2, <2>4, <2>6, <2>10 DEF Value
<1>8. \A i \in DOMAIN maps : Shown(w, b, maps[i].fields) = Shown(v, b, maps[i].fields)
  BY <1>7 DEF Shown
<1>9. Picture(maps, P, w, b) = Picture(maps, P, v, b)
  <2>1. DOMAIN maps = 1 .. Len(maps)
    BY MapSeqIs DEF StreamInv, ParserInv, MapsOK
  <2>2. \A j \in 1 .. Len(maps) : GT!Node(P[j], Shown(w, b, maps[j].fields))
                                 = GT!Node(P[j], Shown(v, b, maps[j].fields))
    BY <1>8, <2>1
  <2>3. QED
    BY <2>2 DEF Picture
<1>10. TreeInv'
  BY <1>2, <1>4, <1>5, <1>6 DEF TreeInv
<1>11. TreeRead' = Picture(maps, P, w, b) /\ PlaceRead' = Place(P, map)
  <2>1. MapsOK(maps)'
    BY DEF StreamInv, ParserInv
  <2>2. TreeRead' = Picture(maps', P, stream', begin') /\ PlaceRead' = Place(P, map')
    BY <1>2, <2>1, ReadNext
  <2>3. QED
    BY <1>4, <1>5, <2>2
<1>12. TreeRead = Picture(maps, P, v, b) /\ PlaceRead = Place(P, map)
  BY <1>1, <1>3, <1>5, ReadNow DEF StreamInv, ParserInv
<1>13. QED
  BY <1>9, <1>10, <1>11, <1>12 DEF TreeStep, GT!vars

(* Every turn of the loop of parse is a step of GroupTree, or changes      *)
(* nothing that GroupTree tells.                                           *)
LEMMA ParserTreeStep == ASSUME StreamInv, TreeInv, ParserStep PROVE TreeStep
<1>1. StreamInv' /\ stream' = stream
  BY ParserInvKept DEF ParserStep
<1>2. ASSUME maps' = maps, map' = map, stack' = stack, begin' = begin PROVE TreeStep
  <2>1. <<>> \in Seq(Byte) /\ stream' = stream \o <<>>
    BY <1>1 DEF StreamInv
  <2>2. QED
    BY <1>1, <1>2, <2>1, QuietStep
<1>3. CASE EndOfInput
  BY <1>2, <1>3 DEF EndOfInput, ParserReturn
<1>4. CASE Undefined
  BY <1>2, <1>4 DEF Undefined, groupVars
<1>5. ASSUME NEW f \in NextField, ReadField(f) PROVE TreeStep
  <2>1. CASE CheckSumField(f)
    BY <1>2, <2>1 DEF CheckSumField, ParserReturn
  <2>2. CASE CutShort(f)
    <3>1. Whole(f)
      <4>1. PICK n \in Nat : n = Len(stream)
        BY DEF StreamInv, ParserInv, Positions
      <4>2. cp \in 0 .. n /\ begin \in 0 .. cp
        BY <4>1 DEF StreamInv, ParserInv, Positions
      <4>3. n >= f.soh /\ n \in Int
        BY <4>1, <4>2, NextFieldIs
      <4>4. QED
        BY <2>2, <4>1, <4>3, FieldIs DEF StreamInv, ParserInv, CutShort
    <3>2. KeepsRest
      BY <1>1, <2>2 DEF KeepsRest, CutShort, ParserReturn
    <3>3. QED
      BY <2>2, <3>1, <3>2, StayStep DEF CutShort, ParserReturn
  <2>3. CASE Stores(f)
    <3>1. Store(f)
      BY <2>3 DEF Stores, PlainField, OpenGroup, NextGroup, CloseGroup
    <3>2. Whole(f) /\ CanStore(f) /\ KeepsRest
      <4>1. closed' = closed
        BY DEF ParserStep
      <4>2. Whole(f) /\ CanStore(f)
        BY <1>1, <3>1, <4>1, StoreInv DEF StreamInv
      <4>3. QED
        BY <1>1, <3>1, <4>2 DEF Store, KeepsRest
    <3>3. CASE PlainField(f)
      BY <3>2, <3>3, StayStep DEF PlainField
    <3>4. CASE OpenGroup(f)
      BY <3>2, <3>4, DownStep DEF OpenGroup
    <3>5. CASE NextGroup(f)
      BY <3>2, <3>5, AcrossStep DEF NextGroup
    <3>6. CASE CloseGroup(f)
      BY <3>2, <3>6, UpStep DEF CloseGroup
    <3>7. QED
      BY <2>3, <3>3, <3>4, <3>5, <3>6 DEF Stores
  <2>4. QED
    BY <1>5, <2>1, <2>2, <2>3 DEF ReadField, Stores
<1>6. QED
  BY <1>3, <1>4, <1>5 DEF ParserStep

-----------------------------------------------------------------------------
(* The peer and the parser.                                                *)

(* A step for GroupTree is one that changes what it tells.                 *)
LEMMA TreeSteps == TreeStep => TreeInv' /\ [GT!vars' # GT!vars /\ GT!Next]_(GT!vars)
BY DEF TreeStep, GT!vars

(* Every step of the parser and of the peer is a step of GroupTree, or     *)
(* leaves it as it is.                                                     *)
LEMMA FeedTreeStep == StreamInv /\ TreeInv /\ [Next]_vars => TreeStep
<1> SUFFICES ASSUME StreamInv, TreeInv, [Next]_vars PROVE TreeStep
  OBVIOUS
<1>1. StreamInv'
  BY FeedNextInv
<1>2. ASSUME NEW q \in Seq(Byte), stream' = stream \o q, UNCHANGED parserVars
      PROVE  TreeStep
  <2>1. maps' = maps /\ map' = map /\ stack' = stack /\ begin' = begin
    BY <1>2 DEF parserVars, groupVars
  <2>2. QED
    BY <1>1, <1>2, <2>1, QuietStep
<1>3. ASSUME NEW b \in Bodies, Send(b) PROVE TreeStep
  <2>1. PICK q \in Seq(Byte) : q = Frame(b)
    BY FrameType
  <2>2. stream' = stream \o q /\ UNCHANGED parserVars
    BY <1>3, <2>1 DEF Send
  <2>3. QED
    BY <1>2, <2>2
<1>4. ASSUME NEW b \in CutBodies, NEW n \in 0 .. Len(Frame(b)) - 1, HangUp(b, n)
      PROVE  TreeStep
  <2>1. PICK w \in Seq(Byte) : w = Frame(b)
    BY FrameType
  <2>2. PICK q \in Seq(Byte) : q = SubSeq(w, 1, n)
    <3>1. n \in 0 .. Len(w)
      BY <1>4, <2>1
    <3>2. SubSeq(w, 1, n) \in Seq(Byte)
      BY <3>1
    <3>3. QED
      BY <3>2
  <2>3. stream' = stream \o q /\ UNCHANGED parserVars
    BY <1>4, <2>1, <2>2 DEF HangUp
  <2>4. QED
    BY <1>2, <2>3
<1>5. CASE ParserCall
  <2>1. CASE Parse
    BY <1>1, <2>1, ParseStep
  <2>2. QED
    BY <1>5, <2>1 DEF ParserCall
<1>6. CASE ParserStep
  BY <1>6, ParserTreeStep
<1>7. CASE UNCHANGED vars
  <2>1. <<>> \in Seq(Byte) /\ stream' = stream \o <<>>
    BY <1>7 DEF vars, StreamInv
  <2>2. QED
    BY <1>2, <1>7, <2>1 DEF vars
<1>8. QED
  BY <1>3, <1>4, <1>5, <1>6, <1>7 DEF Next

(* What parse, put and addGroup make of any bytes, as FieldAccessor shows  *)
(* it, changes as GroupTree says: a field goes to the node where parsing   *)
(* stands, a group is followed by the next or ended as the count of its    *)
(* parent's field says, and nothing else that was stored changes.          *)
THEOREM FeedImplementsGroupTree == Spec => ImplementsGroupTree
<1>1. Init => TreeInv /\ GT!Init
  BY TreeInit DEF Init
<1>2. StreamInv /\ TreeInv /\ [Next]_vars => TreeInv'
  BY FeedTreeStep, TreeSteps
<1>3. StreamInv /\ TreeInv /\ [Next]_vars => [GT!vars' # GT!vars /\ GT!Next]_(GT!vars)
  BY FeedTreeStep, TreeSteps
<1>4. QED
  BY <1>1, <1>2, <1>3, FeedInvariance, PTL DEF Spec, ImplementsGroupTree, GT!Spec
=============================================================================
