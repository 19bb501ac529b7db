---------------------------- MODULE ParserProofs ----------------------------
(***************************************************************************)
(* Safety of the parser for any stream, any group definitions and known    *)
(* tags, and any sizes of its buffers that RoomAssumption admits.          *)
(***************************************************************************)
EXTENDS FixParser, FoldTheorems

-----------------------------------------------------------------------------
(* Bytes.                                                                  *)

Byte == STRING \cup {"8", "9", "10", EQ, SOH, "FIX", "0", "c"}
               \cup {Digits(n) : n \in Int}
Fields == [tag : Byte, value : Seq(Byte)]

(* What the assumptions on the models' constants call fields.              *)
LEMMA StringFields ==
  /\ [tag : STRING, value : Seq(STRING)] \subseteq Fields
  /\ Seq([tag : STRING, value : Seq(STRING)]) \subseteq Seq(Fields)
<1>1. STRING \subseteq Byte
  BY DEF Byte
<1>2. Seq(STRING) \subseteq Seq(Byte)
  BY <1>1, SeqMonotonic
<1>3. [tag : STRING, value : Seq(STRING)] \subseteq Fields
  <2>1. PICK T : T = Seq(STRING)
    OBVIOUS
  <2>2. T \subseteq Seq(Byte)
    BY <1>2, <2>1
  <2>3. [tag : STRING, value : T] \subseteq [tag : Byte, value : Seq(Byte)]
    BY <1>1, <2>2
  <2>4. QED
    BY <2>1, <2>3 DEF Fields
<1>4. QED
  BY <1>3, SeqMonotonic

(* A field is a tag and bytes.                                             *)
LEMMA FieldType == \A t \in Byte, v \in Seq(Byte) : Field(t, v) \in Fields
BY DEF Field, Fields

(* A field is three bytes longer than its value.                           *)
LEMMA BytesType == \A f \in Fields : Bytes(f) \in Seq(Byte) /\ Len(Bytes(f)) = Len(f.value) + 3
<1> TAKE f \in Fields
<1>1. f.tag \in Byte /\ f.value \in Seq(Byte)
  BY DEF Fields
<1>2. EQ \in Byte /\ SOH \in Byte
  BY DEF Byte
<1> HIDE DEF Byte
<1>3. QED
  BY <1>1, <1>2 DEF Bytes

(* A value of one byte makes a field of four.                              *)
LEMMA OneByteType ==
  \A t, x \in Byte : LET q == Bytes(Field(t, <<x>>)) IN q \in Seq(Byte) /\ Len(q) = 4
<1> TAKE t, x \in Byte
<1> HIDE DEF Byte
<1>1. <<x>> \in Seq(Byte) /\ Len(<<x>>) = 1
  OBVIOUS
<1>2. Field(t, <<x>>) \in Fields /\ Field(t, <<x>>).value = <<x>>
  BY <1>1 DEF Field, Fields
<1>3. PICK f \in Fields : f = Field(t, <<x>>) /\ Len(f.value) = 1
  BY <1>1, <1>2
<1>4. PICK m, n : m = Len(Bytes(f)) /\ n = Len(f.value)
  OBVIOUS
<1>5. m = n + 3 /\ n = 1
  BY <1>3, <1>4, BytesType
<1>6. m = 4
  BY <1>5
<1>7. QED
  BY <1>3, <1>4, <1>6, BytesType

(* The bytes of fields, one after the other.                               *)
LEMMA AllBytesIs ==
  \E f \in [Fields -> Seq(Byte)] : /\ \A g \in Fields : f[g] = Bytes(g)
                                   /\ \A fs \in Seq(Fields) : AllBytes(fs) = Image(f, fs)
<1>1. PICK f \in [Fields -> Seq(Byte)] : f = [g \in Fields |-> Bytes(g)]
  BY BytesType
<1>2. ASSUME NEW fs \in Seq(Fields) PROVE AllBytes(fs) = Image(f, fs)
  <2>1. \A i \in DOMAIN fs : Bytes(fs[i]) = f[fs[i]]
    BY <1>1
  <2>2. [i \in DOMAIN fs |-> Bytes(fs[i])] = [i \in DOMAIN fs |-> f[fs[i]]]
    BY <2>1
  <2>3. QED
    BY <2>2 DEF AllBytes, Image
<1>3. QED
  BY <1>1, <1>2

(* No field, no bytes.                                                     *)
LEMMA AllBytesEmpty == AllBytes(<<>>) = <<>>
<1>1. <<>> \in Seq(Fields)
  OBVIOUS
<1>2. QED
  BY <1>1, AllBytesIs, ImageEmpty

(* One field more gives its bytes more.                                    *)
LEMMA AllBytesAppend ==
  ASSUME NEW fs \in Seq(Fields), NEW f \in Fields
  PROVE  /\ AllBytes(fs) \in Seq(Byte)
         /\ AllBytes(Append(fs, f)) = AllBytes(fs) \o Bytes(f)
<1>1. PICK h \in [Fields -> Seq(Byte)] :
        /\ \A g \in Fields : h[g] = Bytes(g)
        /\ \A gs \in Seq(Fields) : AllBytes(gs) = Image(h, gs)
  BY AllBytesIs
<1>2. Extends(h, Byte, Fields)
  BY ImageAppend
<1>3. Append(fs, f) \in Seq(Fields)
  OBVIOUS
<1>4. QED
  BY <1>1, <1>2, <1>3 DEF Extends

(* Fields after fields give bytes after bytes.                             *)
LEMMA AllBytesConcat ==
  ASSUME NEW fs \in Seq(Fields), NEW gs \in Seq(Fields)
  PROVE  /\ AllBytes(fs) \in Seq(Byte) /\ AllBytes(gs) \in Seq(Byte)
         /\ AllBytes(fs \o gs) = AllBytes(fs) \o AllBytes(gs)
<1>1. PICK h \in [Fields -> Seq(Byte)] :
        \A hs \in Seq(Fields) : AllBytes(hs) = Image(h, hs)
  BY AllBytesIs
<1>2. Joins(h, Byte, Fields)
  BY ImageConcat
<1>3. fs \o gs \in Seq(Fields)
  OBVIOUS
<1>4. QED
  BY <1>1, <1>2, <1>3 DEF Joins

-----------------------------------------------------------------------------
(* Types.                                                                  *)

Tags == KnownTags \cup {INVALID}

EntryType == [tag : Tags, offset : Nat, length : Nat, groups : Nat, tail : Nat]
EntrySeqs == Seq(EntryType)
MapType == [fields : EntrySeqs, next : Nat]
MapSeqs == Seq(MapType)

(* An entry of a message with n maps, whose value ends in the buffer.      *)
EntryOK(e, n) == /\ e.offset + e.length \in 1 .. MaxMessage - 1
                 /\ e.groups \in 0 .. n /\ e.tail \in 0 .. n
MapOK(m, n) == /\ m.next \in 0 .. n
               /\ Len(m.fields) <= MaxFields
               /\ \A k \in DOMAIN m.fields : EntryOK(m.fields[k], n)
MapsOK(ms) == /\ ms \in MapSeqs
              /\ Len(ms) >= 1 /\ Allocated(ms) <= capacity_
              /\ \A i \in DOMAIN ms : MapOK(ms[i], Len(ms))

-----------------------------------------------------------------------------
(* Sequences and searches.                                                 *)

LEMMA UpdateSeq ==
  \A S, i : \A q \in Seq(S), v \in S :
    LET r == [q EXCEPT ![i] = v] IN
    /\ r \in Seq(S) /\ Len(r) = Len(q) /\ DOMAIN r = DOMAIN q
    /\ \A j \in DOMAIN q : r[j] = IF j = i THEN v ELSE q[j]
<1> TAKE S, i
<1> TAKE q \in Seq(S), v \in S
<1>1. PICK n \in Nat : n = Len(q)
  OBVIOUS
<1>2. q \in [1 .. n -> S]
  BY <1>1
<1>3. PICK r \in [1 .. n -> S] : r = [q EXCEPT ![i] = v]
  BY <1>2
<1>4. \A j \in 1 .. n : r[j] = IF j = i THEN v ELSE q[j]
  BY <1>2, <1>3
<1>5. r \in Seq(S) /\ Len(r) = n
  BY <1>1
<1>6. QED
  BY <1>1, <1>2, <1>3, <1>4, <1>5

(* The least of a set of naturals is in it.                                *)
LEMMA MinIs ==
  \A T \in SUBSET Nat : T # {} => Min(T) \in T /\ \A u \in T : Min(T) <= u
<1> TAKE T \in SUBSET Nat
<1> HAVE T # {}
<1>1. \E t \in T : \A u \in T : t <= u
  BY LeastNat
<1>2. QED
  BY <1>1, Zenon DEF Min

(* The lesser of two,                                                      *)
LEMMA MinOfTwo ==
  \A a, b \in Nat : LET m == Min({a, b}) IN m \in Nat /\ m <= a /\ m <= b /\ m \in {a, b}
<1> TAKE a, b \in Nat
<1>1. PICK T \in SUBSET Nat : T = {a, b}
  <2>1. {a, b} \in SUBSET Nat
    OBVIOUS
  <2>2. QED
    BY <2>1
<1>2. Min(T) \in T /\ \A u \in T : Min(T) <= u
  BY <1>1, MinIs
<1>3. QED
  BY <1>1, <1>2

(* and the greater.                                                        *)
LEMMA MaxOfInts ==
  \A a, b \in Int : LET m == Max({a, b}) IN m \in {a, b} /\ a <= m /\ b <= m
<1> TAKE a, b \in Int
<1>1. \E x \in {a, b} : \A y \in {a, b} : x >= y
  <2>1. CASE a >= b
    BY <2>1
  <2>2. CASE b >= a
    BY <2>2
  <2>3. QED
    BY <2>1, <2>2
<1>2. Max({a, b}) \in {a, b} /\ \A y \in {a, b} : Max({a, b}) >= y
  BY <1>1, Zenon DEF Max
<1>3. PICK x : x = Max({a, b})
  OBVIOUS
<1>4. x \in {a, b} /\ x >= a /\ x >= b
  BY <1>2, <1>3
<1>5. QED
  BY <1>3, <1>4

LEMMA MaxOfTwo ==
  \A a, b \in Nat : LET m == Max({a, b}) IN m \in {a, b} /\ a <= m /\ b <= m
<1>1. Nat \subseteq Int
  OBVIOUS
<1>2. QED
  BY <1>1, MaxOfInts, Zenon

(* What a map of the arena consists of.                                    *)
LEMMA MapSeqIs ==
  ASSUME NEW ms \in MapSeqs
  PROVE  /\ Len(ms) \in Nat /\ DOMAIN ms = 1 .. Len(ms)
         /\ \A j \in DOMAIN ms :
              /\ ms[j] \in MapType /\ ms[j].fields \in EntrySeqs
              /\ Len(ms[j].fields) \in Nat
              /\ DOMAIN ms[j].fields = 1 .. Len(ms[j].fields)
              /\ \A k \in DOMAIN ms[j].fields : ms[j].fields[k] \in EntryType
<1>1. Len(ms) \in Nat /\ DOMAIN ms = 1 .. Len(ms)
  BY DEF MapSeqs
<1>2. ASSUME NEW j \in DOMAIN ms
      PROVE  /\ ms[j] \in MapType /\ ms[j].fields \in EntrySeqs
             /\ Len(ms[j].fields) \in Nat
             /\ DOMAIN ms[j].fields = 1 .. Len(ms[j].fields)
             /\ \A k \in DOMAIN ms[j].fields : ms[j].fields[k] \in EntryType
  <2>1. ms[j] \in MapType
    BY <1>1 DEF MapSeqs
  <2>2. PICK q \in EntrySeqs : q = ms[j].fields
    BY <2>1 DEF MapType
  <2>3. /\ Len(q) \in Nat /\ DOMAIN q = 1 .. Len(q)
        /\ \A k \in DOMAIN q : q[k] \in EntryType
    BY DEF EntrySeqs
  <2>4. QED
    BY <2>1, <2>2, <2>3
<1>3. QED
  BY <1>1, <1>2

(* find is a position of the tag, the first, and 0 when there is none.     *)
LEMMA FindIs ==
  ASSUME NEW m \in MapType, NEW t
  PROVE  /\ find(m, t) \in 0 .. Len(m.fields)
         /\ find(m, t) # 0 => m.fields[find(m, t)].tag = t
         /\ find(m, t) = 0 => \A k \in DOMAIN m.fields : m.fields[k].tag # t
<1>1. PICK q \in EntrySeqs : q = m.fields
  BY DEF MapType
<1>2. Len(q) \in Nat /\ DOMAIN q = 1 .. Len(q)
  BY DEF EntrySeqs
<1>3. PICK I \in SUBSET Nat : I = {i \in 1 .. Len(q) : q[i].tag = t}
  <2>1. {i \in 1 .. Len(q) : q[i].tag = t} \in SUBSET Nat
    BY <1>2
  <2>2. QED
    BY <2>1
<1>4. find(m, t) = IF I # {} THEN Min(I) ELSE 0
  BY <1>1, <1>3 DEF find, SelectInSeq
<1>5. I # {} => Min(I) \in I
  BY MinIs
<1>6. QED
  BY <1>1, <1>2, <1>3, <1>4, <1>5

-----------------------------------------------------------------------------
(* The fields on the stream.                                               *)

RawFields == [tag : Tags, soh : Nat, offset : Nat, length : Nat]

(* The byte after the next b is further on, but not past the stream.       *)
LEMMA AfterIs ==
  ASSUME NEW n \in Nat, n = Len(stream), NEW p \in Nat, NEW b, Holds(p, b)
  PROVE  After(p, b) \in p + 1 .. n
<1>1. PICK T \in SUBSET Nat : T = {q \in p + 1 .. n : stream[q] = b}
  <2>1. {q \in p + 1 .. n : stream[q] = b} \in SUBSET Nat
    OBVIOUS
  <2>2. QED
    BY <2>1
<1>2. PICK t \in T : \A u \in T : t <= u
  <2>1. T # {}
    BY <1>1 DEF Holds
  <2>2. QED
    BY <2>1, LeastNat
<1>3. t \in p + 1 .. n /\ stream[t] = b /\ \A r \in p + 1 .. t - 1 : stream[r] # b
  <2>1. ASSUME NEW r \in p + 1 .. t - 1, stream[r] = b PROVE FALSE
    <3>1. t \in p + 1 .. n
      BY <1>1
    <3>2. r \in p + 1 .. n /\ r < t
      BY <3>1
    <3>3. r \in T
      BY <1>1, <2>1, <3>2
    <3>4. t <= r
      BY <1>2, <3>3
    <3>5. QED
      BY <3>1, <3>2, <3>4
  <2>2. QED
    BY <1>1, <2>1
<1>4. \E q \in p + 1 .. Len(stream) :
         stream[q] = b /\ \A r \in p + 1 .. q - 1 : stream[r] # b
  BY <1>3
<1>5. QED
  BY <1>4 DEF After

(* Whatever stands before an EQ is looked up to be a tag.                  *)
LEMMA StoftType == \A token : stoft(token) \in Tags
BY DEF stoft, Tags

(* A field that is read ends in the stream, and its value in the field.    *)
LEMMA NextFieldIs ==
  ASSUME NEW n \in Nat, n = Len(stream), cp \in 0 .. n, begin \in 0 .. cp,
         NEW f \in NextField
  PROVE  /\ f \in RawFields /\ f.soh \in cp + 2 .. n
         /\ f.offset >= 1 /\ f.offset + f.length = f.soh - 1 - begin
<1>1. PICK eq : eq = After(cp, EQ)
  OBVIOUS
<1>2. PICK soh : soh = After(eq, SOH)
  OBVIOUS
<1>3. Holds(cp, EQ) /\ Holds(eq, SOH)
  BY <1>1 DEF NextField
<1>4. eq \in cp + 1 .. n
  BY <1>1, <1>3, AfterIs
<1>5. soh \in eq + 1 .. n
  <2>1. eq \in Nat
    BY <1>4
  <2>2. QED
    BY <1>2, <1>3, <2>1, AfterIs
<1>6. f = [tag |-> stoft(SubSeq(stream, cp + 1, eq - 1)), soh |-> soh,
           offset |-> eq - begin, length |-> soh - 1 - eq]
  BY <1>1, <1>2 DEF NextField
<1>7. eq - begin \in Nat /\ soh - 1 - eq \in Nat /\ soh \in Nat
  BY <1>4, <1>5
<1>8. f \in RawFields
  BY <1>6, <1>7, StoftType DEF RawFields
<1>9. f.soh = soh /\ f.offset = eq - begin /\ f.length = soh - 1 - eq
  BY <1>6
<1>10. QED
  BY <1>4, <1>5, <1>8, <1>9

(* Every value stands for some number.                                     *)
LEMMA NumberIs == \A v : parseInt(v) \in Int
<1> TAKE v
<1>1. Numbers \subseteq Int
  BY NumberAssumption DEF Numbers
<1>2. \A t \in DOMAIN OtherNumbers : OtherNumbers[t] \in Int
  BY OtherAssumption, Zenon
<1>3. CASE v # <<>> /\ v[1] \in DOMAIN OtherNumbers
  <2>1. parseInt(v) = OtherNumbers[v[1]]
    BY <1>3, Zenon DEF parseInt
  <2>2. QED
    BY <1>2, <1>3, <2>1, Zenon
<1>4. CASE v # <<>> /\ v[1] \notin DOMAIN OtherNumbers
  <2>1. parseInt(v) = IF \E n \in Numbers : Digits(n) = v[1]
                      THEN CHOOSE n \in Numbers : Digits(n) = v[1] ELSE 0
    BY <1>4, Zenon DEF parseInt
  <2>2. (\E n \in Numbers : Digits(n) = v[1])
          => (CHOOSE n \in Numbers : Digits(n) = v[1]) \in Numbers
    BY Zenon
  <2>3. 0 \in Int
    OBVIOUS
  <2>4. CASE \E n \in Numbers : Digits(n) = v[1]
    BY <1>1, <2>1, <2>2, <2>4, Zenon
  <2>5. CASE ~ \E n \in Numbers : Digits(n) = v[1]
    BY <2>1, <2>3, <2>5, Zenon
  <2>6. QED
    BY <2>4, <2>5
<1>5. CASE v = <<>>
  BY <1>5 DEF parseInt
<1>6. QED
  BY <1>3, <1>4, <1>5, Zenon

(* The read-ahead does not go back.                                        *)
LEMMA ReadToIs ==
  ASSUME NEW f \in RawFields PROVE ReadTo(f) \in Int /\ ReadTo(f) >= f.soh
<1>1. PICK n \in Int : n = getInt(Entry(f))
  BY NumberIs DEF getInt
<1>2. f.soh \in Nat
  BY DEF RawFields
<1>3. Max({f.soh, f.soh - 1 + n + 4}) \in Int /\ Max({f.soh, f.soh - 1 + n + 4}) >= f.soh
  <2>1. PICK s \in Int, e \in Int : s = f.soh /\ e = f.soh - 1 + n + 4
    BY <1>2
  <2>2. Max({s, e}) \in {s, e} /\ s <= Max({s, e})
    BY MaxOfInts
  <2>3. QED
    BY <2>1, <2>2
<1>4. QED
  BY <1>1, <1>2, <1>3 DEF ReadTo, CHECKSUM_WIDTH

-----------------------------------------------------------------------------
(* Field maps.                                                             *)

(* A field of the message whose value ends in the buffer.                  *)
Whole(f) == f \in RawFields /\ f.offset + f.length \in 1 .. MaxMessage - 1

(* Offset and length of a field that fits survive their 16 bits.           *)
LEMMA EntryIs ==
  ASSUME NEW f, Whole(f)
  PROVE  LET e == Entry(f) IN
         /\ e \in EntryType /\ e.tag = f.tag
         /\ e.offset = f.offset /\ e.length = f.length
         /\ e.groups = 0 /\ e.tail = 0
<1>1. /\ f.tag \in Tags /\ f.offset \in Nat /\ f.length \in Nat
      /\ f.offset + f.length \in 1 .. MaxMessage - 1
  BY DEF Whole, RawFields
<1>2. MaxMessage \in Nat /\ Word16 \in Nat /\ MaxMessage <= Word16
  BY RoomAssumption
<1>3. f.offset < Word16 /\ f.length < Word16
  BY <1>1, <1>2
<1>4. f.offset % Word16 = f.offset /\ f.length % Word16 = f.length
  BY <1>1, <1>2, <1>3
<1>5. Entry(f) = [tag |-> f.tag, offset |-> f.offset, length |-> f.length,
                  groups |-> 0, tail |-> 0]
  BY <1>4 DEF Entry
<1>6. QED
  BY <1>1, <1>5 DEF EntryType

(* Map r is map m after put of f: its place in the list is the same, and   *)
(* what hangs off its fields hangs off them still.                         *)
PutOf(m, r, f) ==
  /\ r \in MapType /\ r.next = m.next
  /\ Len(r.fields) = IF find(m, f.tag) = 0 THEN Len(m.fields) + 1 ELSE Len(m.fields)
  /\ \A k \in DOMAIN m.fields : /\ r.fields[k].groups = m.fields[k].groups
                                /\ r.fields[k].tail = m.fields[k].tail
                                /\ r.fields[k].tag = m.fields[k].tag
  /\ \A k \in DOMAIN r.fields \ DOMAIN m.fields :
       r.fields[k].groups = 0 /\ r.fields[k].tail = 0
  /\ \A k \in DOMAIN r.fields :
       \/ r.fields[k].offset = f.offset /\ r.fields[k].length = f.length
       \/ k \in DOMAIN m.fields /\ r.fields[k] = m.fields[k]
  /\ \E k \in DOMAIN r.fields : r.fields[k].tag = f.tag

(* put keeps all fields but the one of its tag.                            *)
LEMMA PutIs ==
  ASSUME NEW m \in MapType, NEW f, Whole(f)
  PROVE  PutOf(m, put(m, f), f)
<1>1. PICK q \in EntrySeqs : q = m.fields
  BY DEF MapType
<1>2. PICK n \in Nat : n = Len(q)
  BY DEF EntrySeqs
<1>3. q \in Seq(EntryType) /\ DOMAIN q = 1 .. n
  BY <1>2 DEF EntrySeqs
<1>4. PICK i : i = find(m, f.tag)
  OBVIOUS
<1>5. i \in 0 .. n /\ (i # 0 => q[i].tag = f.tag)
  BY <1>1, <1>2, <1>4, FindIs
<1>6. PICK e \in EntryType :
        /\ e = Entry(f) /\ e.tag = f.tag /\ e.groups = 0 /\ e.tail = 0
        /\ e.offset = f.offset /\ e.length = f.length
  BY EntryIs
<1>7. CASE i = 0
  <2>1. PICK r \in EntrySeqs : r = Append(q, e)
    <3>1. Append(q, e) \in EntrySeqs
      BY <1>3 DEF EntrySeqs
    <3>2. QED
      BY <3>1
  <2>2. put(m, f) = [m EXCEPT !.fields = r]
    BY <1>1, <1>4, <1>6, <1>7, <2>1 DEF put, MapType
  <2>3. /\ Len(r) = n + 1 /\ DOMAIN r = 1 .. n + 1 /\ r[n + 1] = e
        /\ \A k \in 1 .. n : r[k] = q[k]
    BY <1>2, <1>3, <2>1
  <2>4. PICK p \in MapType : p = put(m, f) /\ p.fields = r /\ p.next = m.next
    BY <2>2 DEF MapType
  <2>5. \A k \in DOMAIN r \ DOMAIN q : k = n + 1
    BY <1>3, <2>3
  <2>6. n + 1 \in DOMAIN r
    BY <2>3
  <2>7. \A k \in DOMAIN r : k = n + 1 \/ k \in DOMAIN q
    BY <2>5
  <2>8. QED
    BY <1>1, <1>2, <1>3, <1>4, <1>6, <1>7, <2>3, <2>4, <2>5, <2>6, <2>7 DEF PutOf
<1>8. CASE i # 0
  <2>1. PICK d \in EntryType :
          /\ d = [e EXCEPT !.groups = q[i].groups, !.tail = q[i].tail]
          /\ d.tag = f.tag /\ d.offset = f.offset /\ d.length = f.length
          /\ d.groups = q[i].groups /\ d.tail = q[i].tail
    <3>1. PICK o \in EntryType : o = q[i]
      BY <1>3, <1>5, <1>8
    <3>2. [e EXCEPT !.groups = o.groups, !.tail = o.tail] \in EntryType
      BY DEF EntryType
    <3>3. QED
      BY <1>6, <3>1, <3>2 DEF EntryType
  <2>2. PICK r \in EntrySeqs :
          /\ r = [q EXCEPT ![i] = d] /\ Len(r) = n /\ DOMAIN r = DOMAIN q
          /\ \A j \in DOMAIN q : r[j] = IF j = i THEN d ELSE q[j]
    <3>1. [q EXCEPT ![i] = d] \in EntrySeqs
      BY <1>3, UpdateSeq DEF EntrySeqs
    <3>2. QED
      BY <1>2, <1>3, <3>1, UpdateSeq
  <2>3. put(m, f) = [m EXCEPT !.fields = r]
    BY <1>1, <1>4, <1>6, <1>8, <2>1, <2>2 DEF put, MapType
  <2>4. PICK p \in MapType : p = put(m, f) /\ p.fields = r /\ p.next = m.next
    BY <2>2, <2>3 DEF MapType
  <2>5. i \in DOMAIN q
    BY <1>3, <1>5, <1>8
  <2>6. QED
    BY <1>1, <1>2, <1>3, <1>4, <1>5, <1>8, <2>1, <2>2, <2>4, <2>5 DEF PutOf
<1>9. QED
  BY <1>7, <1>8

(* What becomes of map m, which is r now, when group new is added to field *)
(* k, that was e, of this map (here) or another one.                       *)
LinkOf(m, r, j, here, k, e, new) ==
  /\ r.next = IF e.groups # 0 /\ j = e.tail THEN new ELSE m.next
  /\ Len(r.fields) = Len(m.fields)
  /\ \A l \in DOMAIN m.fields :
       /\ r.fields[l].tag = m.fields[l].tag
       /\ r.fields[l].offset = m.fields[l].offset
       /\ r.fields[l].length = m.fields[l].length
       /\ r.fields[l].groups = IF here /\ l = k /\ e.groups = 0
                               THEN new ELSE m.fields[l].groups
       /\ r.fields[l].tail = IF here /\ l = k THEN new ELSE m.fields[l].tail

(* In rs, a group was added to field k of map i of ms.                     *)
LinksOf(ms, rs, i, k) ==
  \A j \in DOMAIN ms :
    LinkOf(ms[j], rs[j], j, j = i, k, ms[i].fields[k], Len(ms) + 1)

GrowthOf(ms, rs, i, k) ==
  /\ rs \in MapSeqs /\ Len(rs) = Len(ms) + 1
  /\ rs[Len(ms) + 1] = NewMap
  /\ LinksOf(ms, rs, i, k)

(* A new map is empty and in no list.                                      *)
LEMMA NewMapType == NewMap \in MapType /\ NewMap.fields = <<>> /\ NewMap.next = 0
<1>1. <<>> \in EntrySeqs
  BY DEF EntrySeqs
<1>2. PICK q \in EntrySeqs : q = <<>>
  BY <1>1
<1>3. NewMap = [fields |-> q, next |-> 0]
  BY <1>2 DEF NewMap
<1>4. QED
  BY <1>2, <1>3 DEF MapType

(* Entry k of map m is replaced.                                           *)
Replaced(m, k, d, p) ==
  /\ p = [m EXCEPT !.fields = [m.fields EXCEPT ![k] = d]]
  /\ p.next = m.next /\ Len(p.fields) = Len(m.fields)
  /\ \A l \in DOMAIN m.fields : p.fields[l] = IF l = k THEN d ELSE m.fields[l]

(* A field of a map can be replaced.                                       *)
LEMMA EntryReplaced ==
  \A m \in MapType, d \in EntryType : \A k \in DOMAIN m.fields :
    \E p \in MapType : Replaced(m, k, d, p)
<1> TAKE m \in MapType, d \in EntryType
<1> TAKE k \in DOMAIN m.fields
<1>1. PICK q \in EntrySeqs : q = m.fields
  BY DEF MapType
<1>2. PICK r \in EntrySeqs :
        /\ r = [q EXCEPT ![k] = d] /\ Len(r) = Len(q)
        /\ \A l \in DOMAIN q : r[l] = IF l = k THEN d ELSE q[l]
  <2>1. [q EXCEPT ![k] = d] \in EntrySeqs
    BY UpdateSeq DEF EntrySeqs
  <2>2. QED
    BY <2>1, UpdateSeq DEF EntrySeqs
<1>3. PICK p \in MapType : /\ p = [m EXCEPT !.fields = r]
                            /\ p.fields = r /\ p.next = m.next
  <2>1. [m EXCEPT !.fields = r] \in MapType
    BY DEF MapType
  <2>2. QED
    BY <2>1 DEF MapType
<1>4. QED
  BY <1>1, <1>2, <1>3 DEF Replaced

(* addGroup changes one field, and the map that was last in its list.      *)
LEMMA GrowthIs ==
  ASSUME NEW ms \in MapSeqs, NEW i \in DOMAIN ms, NEW t, ~ArenaFull(ms),
         find(ms[i], t) # 0,
         LET e == ms[i].fields[find(ms[i], t)] IN
         e.groups # 0 => e.tail \in DOMAIN ms /\ e.tail # i
  PROVE  GrowthOf(ms, addGroup(ms, i, t), i, find(ms[i], t))
<1>1. PICK n \in Nat : n = Len(ms)
  BY DEF MapSeqs
<1>2. PICK new \in Nat : new = n + 1
  OBVIOUS
<1>3. DOMAIN ms = 1 .. n /\ ms \in Seq(MapType)
  BY <1>1 DEF MapSeqs
<1>4. PICK m \in MapType : m = ms[i]
  BY <1>3
<1>5. PICK k : k = find(ms[i], t)
  OBVIOUS
<1>6. k \in DOMAIN m.fields /\ m.fields \in EntrySeqs
  <2>1. m.fields \in EntrySeqs
    BY DEF MapType
  <2>2. DOMAIN m.fields = 1 .. Len(m.fields)
    BY <2>1 DEF EntrySeqs
  <2>3. k \in 0 .. Len(m.fields)
    BY <1>4, <1>5, FindIs
  <2>4. QED
    BY <1>5, <2>1, <2>2, <2>3
<1>7. PICK e \in EntryType : e = m.fields[k]
  BY <1>6 DEF EntrySeqs
<1>8. ASSUME NEW xs \in Seq(MapType), Len(xs) = n, LinksOf(ms, xs, i, k)
      PROVE  GrowthOf(ms, Append(xs, NewMap), i, k)
  <2>1. PICK w \in MapType : w = NewMap
    BY NewMapType
  <2>2. PICK rs \in Seq(MapType) : rs = Append(xs, w)
    <3>1. Append(xs, w) \in Seq(MapType)
      OBVIOUS
    <3>2. QED
      BY <3>1
  <2>3. /\ Len(rs) = Len(xs) + 1 /\ rs[Len(xs) + 1] = w
        /\ \A j \in 1 .. Len(xs) : rs[j] = xs[j]
    BY <2>2
  <2>4. Len(rs) = Len(ms) + 1 /\ rs[Len(ms) + 1] = w /\ \A j \in DOMAIN ms : rs[j] = xs[j]
    BY <1>1, <1>3, <1>8, <2>3
  <2>5. rs \in MapSeqs
    BY DEF MapSeqs
  <2>6. LinksOf(ms, rs, i, k)
    BY <1>8, <2>4 DEF LinksOf
  <2>7. QED
    BY <2>1, <2>2, <2>4, <2>5, <2>6 DEF GrowthOf
<1>9. CASE e.groups = 0
  <2>1. PICK d \in EntryType :
          /\ d = [e EXCEPT !.groups = new, !.tail = new]
          /\ d.tag = e.tag /\ d.offset = e.offset /\ d.length = e.length
          /\ d.groups = new /\ d.tail = new
    <3>1. [e EXCEPT !.groups = new, !.tail = new] \in EntryType
      BY DEF EntryType
    <3>2. QED
      BY <3>1 DEF EntryType
  <2>2. PICK p \in MapType : Replaced(m, k, d, p)
    BY <1>6, EntryReplaced
  <2>3. PICK xs \in Seq(MapType) :
          /\ xs = [ms EXCEPT ![i] = p] /\ Len(xs) = n
          /\ \A j \in DOMAIN ms : xs[j] = IF j = i THEN p ELSE ms[j]
    <3>1. [ms EXCEPT ![i] = p] \in Seq(MapType)
      BY <1>3, UpdateSeq
    <3>2. QED
      BY <1>1, <1>3, <3>1, UpdateSeq
  <2>4. [ms EXCEPT ![i].fields[k].groups = new, ![i].fields[k].tail = new] = xs
    <3>1. p = [m EXCEPT !.fields = [m.fields EXCEPT ![k] = d]]
      BY <2>2 DEF Replaced
    <3>2. d = [e EXCEPT !.groups = new, !.tail = new] /\ xs = [ms EXCEPT ![i] = p]
      BY <2>1, <2>3
    <3>3. QED
      BY <1>4, <1>6, <1>7, <3>1, <3>2
  <2>5. addGroup(ms, i, t) = Append(xs, NewMap)
    BY <1>1, <1>2, <1>4, <1>5, <1>7, <1>9, <2>4 DEF addGroup
  <2>6. LinksOf(ms, xs, i, k)
    BY <1>1, <1>2, <1>4, <1>7, <1>9, <2>1, <2>2, <2>3 DEF LinksOf, LinkOf, Replaced
  <2>7. QED
    BY <1>5, <1>8, <2>3, <2>5, <2>6
<1>10. CASE e.groups # 0
  <2>1. PICK b \in DOMAIN ms : b = e.tail /\ b # i
    BY <1>4, <1>5, <1>7, <1>10
  <2>2. PICK d \in EntryType :
          /\ d = [e EXCEPT !.tail = new]
          /\ d.tag = e.tag /\ d.offset = e.offset /\ d.length = e.length
          /\ d.groups = e.groups /\ d.tail = new
    <3>1. [e EXCEPT !.tail = new] \in EntryType
      BY DEF EntryType
    <3>2. QED
      BY <3>1 DEF EntryType
  <2>3. PICK p \in MapType : Replaced(m, k, d, p)
    BY <1>6, EntryReplaced
  <2>4. PICK o \in MapType : o = ms[b]
    BY <1>3
  <2>5. PICK h \in MapType : h = [o EXCEPT !.next = new] /\ h.next = new
                              /\ h.fields = o.fields
    <3>1. [o EXCEPT !.next = new] \in MapType
      BY DEF MapType
    <3>2. QED
      BY <3>1 DEF MapType
  <2>6. PICK ys \in Seq(MapType) :
          /\ ys = [ms EXCEPT ![b] = h] /\ Len(ys) = n /\ DOMAIN ys = DOMAIN ms
          /\ \A j \in DOMAIN ms : ys[j] = IF j = b THEN h ELSE ms[j]
    <3>1. [ms EXCEPT ![b] = h] \in Seq(MapType)
      BY <1>3, UpdateSeq
    <3>2. QED
      BY <1>1, <1>3, <3>1, UpdateSeq
  <2>7. PICK xs \in Seq(MapType) :
          /\ xs = [ys EXCEPT ![i] = p] /\ Len(xs) = n
          /\ \A j \in DOMAIN ms : xs[j] = IF j = i THEN p ELSE ys[j]
    <3>1. [ys EXCEPT ![i] = p] \in Seq(MapType)
      BY <1>3, UpdateSeq
    <3>2. QED
      BY <1>1, <1>3, <2>6, <3>1, UpdateSeq
  <2>8. [ms EXCEPT ![b].next = new, ![i].fields[k].tail = new] = xs
    <3>1. [ms EXCEPT ![b].next = new] = ys
      BY <2>4, <2>5, <2>6
    <3>2. ys[i] = m
      BY <1>4, <2>1, <2>6
    <3>3. [ys EXCEPT ![i].fields[k].tail = new] = xs
      <4>1. p = [m EXCEPT !.fields = [m.fields EXCEPT ![k] = d]]
        BY <2>3 DEF Replaced
      <4>2. /\ d = [e EXCEPT !.tail = new] /\ xs = [ys EXCEPT ![i] = p]
            /\ i \in DOMAIN ys
        BY <2>2, <2>6, <2>7
      <4>3. QED
        BY <1>6, <1>7, <3>2, <4>1, <4>2
    <3>4. QED
      BY <3>1, <3>3
  <2>9. addGroup(ms, i, t) = Append(xs, NewMap)
    BY <1>1, <1>2, <1>4, <1>5, <1>7, <1>10, <2>1, <2>8 DEF addGroup
  <2>10. LinksOf(ms, xs, i, k)
    <3> DEFINE L(j) == LinkOf(ms[j], xs[j], j, j = i, k, e, new)
    <3>1. L(i)
      <4>1. xs[i] = p /\ ms[i] = m
        BY <1>4, <2>7
      <4>2. p.next = m.next /\ Len(p.fields) = Len(m.fields)
        BY <2>3 DEF Replaced
      <4>3. \A l \in DOMAIN m.fields :
              p.fields[l] = IF l = k THEN d ELSE m.fields[l]
        BY <2>3 DEF Replaced
      <4>4. QED
        BY <1>7, <1>10, <2>1, <2>2, <4>1, <4>2, <4>3 DEF LinkOf
    <3>2. L(b)
      <4>1. xs[b] = h /\ ms[b] = o
        BY <2>1, <2>4, <2>6, <2>7
      <4>2. QED
        BY <1>10, <2>1, <2>5, <4>1 DEF LinkOf
    <3>3. ASSUME NEW j \in DOMAIN ms, j # i, j # b PROVE L(j)
      <4>1. xs[j] = ms[j]
        BY <2>6, <2>7, <3>3
      <4>2. QED
        BY <2>1, <3>3, <4>1 DEF LinkOf
    <3>4. \A j \in DOMAIN ms : L(j)
      BY <3>1, <3>2, <3>3
    <3>5. new = Len(ms) + 1 /\ e = ms[i].fields[k]
      BY <1>1, <1>2, <1>4, <1>7
    <3>6. QED
      BY <3>4, <3>5, Zenon DEF LinksOf
  <2>11. QED
    BY <1>5, <1>8, <2>7, <2>9, <2>10
<1>11. QED
  BY <1>9, <1>10

-----------------------------------------------------------------------------
(* The groups.  par and slot say which field of which map a map hangs off. *)

Owner(ms, par, slot, j) == ms[par[j]].fields[slot[j]]

(* A map is younger than the map it hangs off, the first or the next of    *)
(* one map in its list, and the tail of it or with a younger one behind.   *)
Linked(ms, par, slot, j) ==
  LET e == Owner(ms, par, slot, j) IN
  /\ par[j] \in 1 .. j - 1 /\ slot[j] \in DOMAIN ms[par[j]].fields
  /\ e.groups # 0
  /\ \/ ms[j].next = 0 /\ e.tail = j
     \/ /\ ms[j].next \in j + 1 .. Len(ms)
        /\ par[ms[j].next] = par[j] /\ slot[ms[j].next] = slot[j]
  /\ e.groups = j \/ \E l \in 2 .. j - 1 : ms[l].next = j

(* The list of a field begins and ends with maps that hang off it.         *)
Held(ms, par, slot, i, k) ==
  LET e == ms[i].fields[k] IN
  e.groups # 0 =>
    /\ e.groups \in 2 .. Len(ms) /\ par[e.groups] = i /\ slot[e.groups] = k
    /\ e.tail \in 2 .. Len(ms) /\ par[e.tail] = i /\ slot[e.tail] = k
    /\ ms[e.tail].next = 0

Owned(ms, par, slot) ==
  /\ ms[1].next = 0
  /\ \A j \in 2 .. Len(ms) : Linked(ms, par, slot, j)
  /\ \A i \in DOMAIN ms : \A k \in DOMAIN ms[i].fields : Held(ms, par, slot, i, k)

(* put moves nothing.                                                      *)
LEMMA OwnedAfterPut ==
  ASSUME NEW ms \in MapSeqs, NEW rs \in MapSeqs, NEW i \in DOMAIN ms, NEW f,
         NEW par, NEW slot, Owned(ms, par, slot),
         Len(rs) = Len(ms), PutOf(ms[i], rs[i], f),
         \A j \in DOMAIN ms : j # i => rs[j] = ms[j]
  PROVE  Owned(rs, par, slot)
<1>1. PICK n \in Nat : n = Len(ms) /\ n = Len(rs) /\ DOMAIN ms = 1 .. n /\ DOMAIN rs = 1 .. n
  BY DEF MapSeqs
<1>2. ASSUME NEW qs \in MapSeqs, NEW j \in DOMAIN qs
      PROVE  /\ Len(qs[j].fields) \in Nat
             /\ DOMAIN qs[j].fields = 1 .. Len(qs[j].fields)
  BY MapSeqIs
<1>3. \A j \in 1 .. n : /\ DOMAIN ms[j].fields = 1 .. Len(ms[j].fields)
                        /\ DOMAIN rs[j].fields = 1 .. Len(rs[j].fields)
                        /\ Len(ms[j].fields) \in Nat /\ Len(rs[j].fields) \in Nat
  BY <1>1, <1>2
<1>4. ASSUME NEW j \in 1 .. n
      PROVE  /\ rs[j].next = ms[j].next
             /\ \A k \in DOMAIN ms[j].fields :
                  /\ k \in DOMAIN rs[j].fields
                  /\ rs[j].fields[k].groups = ms[j].fields[k].groups
                  /\ rs[j].fields[k].tail = ms[j].fields[k].tail
             /\ \A k \in DOMAIN rs[j].fields :
                  k \in DOMAIN ms[j].fields \/ rs[j].fields[k].groups = 0
  <2>1. CASE j # i
    BY <1>1, <2>1
  <2>2. CASE j = i
    <3>1. Len(rs[i].fields) = Len(ms[i].fields) \/ Len(rs[i].fields) = Len(ms[i].fields) + 1
      BY DEF PutOf
    <3>2. DOMAIN ms[i].fields \subseteq DOMAIN rs[i].fields
      BY <1>1, <1>3, <3>1
    <3>3. QED
      BY <2>2, <3>2 DEF PutOf
  <2>3. QED
    BY <2>1, <2>2
<1>5. ASSUME NEW j \in 2 .. Len(rs) PROVE Linked(rs, par, slot, j)
  <2>1. Linked(ms, par, slot, j) /\ j \in 1 .. n /\ par[j] \in 1 .. n
    <3>1. Linked(ms, par, slot, j) /\ j \in 1 .. n
      BY <1>1, <1>5 DEF Owned
    <3>2. par[j] \in 1 .. j - 1
      BY <3>1 DEF Linked
    <3>3. QED
      BY <3>1, <3>2
  <2>2. \A l \in 2 .. j - 1 : l \in 1 .. n
    BY <2>1
  <2>3. /\ slot[j] \in DOMAIN rs[par[j]].fields
        /\ Owner(rs, par, slot, j).groups = Owner(ms, par, slot, j).groups
        /\ Owner(rs, par, slot, j).tail = Owner(ms, par, slot, j).tail
    BY <1>4, <2>1 DEF Linked, Owner
  <2>4. rs[j].next = ms[j].next /\ \A l \in 2 .. j - 1 : rs[l].next = ms[l].next
    BY <1>4, <2>1, <2>2
  <2>5. QED
    BY <1>1, <2>1, <2>3, <2>4 DEF Linked
<1>6. ASSUME NEW j \in DOMAIN rs, NEW k \in DOMAIN rs[j].fields
      PROVE  Held(rs, par, slot, j, k)
  <2> SUFFICES ASSUME rs[j].fields[k].groups # 0 PROVE Held(rs, par, slot, j, k)
    BY DEF Held
  <2>1. /\ j \in DOMAIN ms /\ k \in DOMAIN ms[j].fields
        /\ rs[j].fields[k].groups = ms[j].fields[k].groups
        /\ rs[j].fields[k].tail = ms[j].fields[k].tail
    BY <1>1, <1>4
  <2>2. Held(ms, par, slot, j, k)
    BY <2>1 DEF Owned
  <2>3. \A l \in 2 .. n : rs[l].next = ms[l].next
    BY <1>4
  <2>4. QED
    BY <1>1, <2>1, <2>2, <2>3 DEF Held
<1>7. rs[1].next = 0
  BY <1>1, <1>4 DEF Owned
<1>8. QED
  BY <1>5, <1>6, <1>7 DEF Owned

(* One map more, after n of them: x is said of it, g of the others.        *)
Longer(g, n, x) == [j \in 2 .. n + 1 |-> IF j = n + 1 THEN x ELSE g[j]]

(* A new group is the new tail of its list.                                *)
LEMMA OwnedAfterGrowth ==
  ASSUME NEW ms \in MapSeqs, NEW rs, NEW i \in DOMAIN ms,
         NEW k \in DOMAIN ms[i].fields, NEW par, NEW slot,
         Owned(ms, par, slot), GrowthOf(ms, rs, i, k)
  PROVE  Owned(rs, Longer(par, Len(ms), i), Longer(slot, Len(ms), k))
<1>1. PICK n \in Nat : n = Len(ms) /\ DOMAIN ms = 1 .. n
  BY DEF MapSeqs
<1>2. PICK new \in Nat : new = n + 1
  OBVIOUS
<1>3. PICK p : p = [j \in 2 .. new |-> IF j = new THEN i ELSE par[j]]
  OBVIOUS
<1>4. PICK s : s = [j \in 2 .. new |-> IF j = new THEN k ELSE slot[j]]
  OBVIOUS
<1>5. PICK e : e = ms[i].fields[k]
  OBVIOUS
<1>6. /\ rs \in MapSeqs /\ Len(rs) = new /\ DOMAIN rs = 1 .. new
      /\ rs[new].next = 0 /\ rs[new].fields = <<>>
  BY <1>1, <1>2, NewMapType DEF GrowthOf, MapSeqs
<1>7. ASSUME NEW j \in 1 .. n PROVE LinkOf(ms[j], rs[j], j, j = i, k, e, new)
  BY <1>1, <1>2, <1>5 DEF GrowthOf, LinksOf
<1>8. \A j \in 1 .. n : DOMAIN rs[j].fields = DOMAIN ms[j].fields
  <2> TAKE j \in 1 .. n
  <2>1. j \in 1 .. new
    BY <1>2
  <2>2. /\ DOMAIN ms[j].fields = 1 .. Len(ms[j].fields)
        /\ DOMAIN rs[j].fields = 1 .. Len(rs[j].fields)
    BY <1>1, <1>6, <2>1, MapSeqIs
  <2>3. Len(rs[j].fields) = Len(ms[j].fields)
    BY <1>7 DEF LinkOf
  <2>4. QED
    BY <2>2, <2>3
<1>9. i \in 1 .. n /\ (\A j \in 2 .. n : p[j] = par[j] /\ s[j] = slot[j])
  BY <1>1, <1>2, <1>3, <1>4
<1>10. n >= 1 /\ new \in 2 .. new /\ p[new] = i /\ s[new] = k
  BY <1>1, <1>2, <1>3, <1>4
<1>11. Held(ms, par, slot, i, k)
  BY DEF Owned
<1>12. Owner(rs, p, s, new).tail = new /\ Owner(rs, p, s, new).groups # 0
  BY <1>2, <1>5, <1>7, <1>9, <1>10 DEF Owner, LinkOf
<1>13. Linked(rs, p, s, new)
  <2>1. p[new] \in 1 .. new - 1 /\ s[new] \in DOMAIN rs[p[new]].fields
    BY <1>2, <1>8, <1>9, <1>10
  <2>2. CASE e.groups = 0
    <3>1. Owner(rs, p, s, new).groups = new
      BY <1>5, <1>7, <1>9, <1>10, <2>2 DEF Owner, LinkOf
    <3>2. QED
      BY <1>6, <1>12, <2>1, <3>1 DEF Linked
  <2>3. CASE e.groups # 0
    <3>1. e.tail \in 2 .. n
      BY <1>1, <1>5, <1>11, <2>3 DEF Held
    <3>2. e.tail \in 2 .. new - 1 /\ rs[e.tail].next = new
      BY <1>2, <1>7, <2>3, <3>1 DEF LinkOf
    <3>3. QED
      BY <1>6, <1>12, <2>1, <3>2 DEF Linked
  <2>4. QED
    BY <2>2, <2>3
<1>14. ASSUME NEW j \in 2 .. n PROVE Linked(rs, p, s, j)
  <2>1. /\ Linked(ms, par, slot, j) /\ j \in 1 .. n
        /\ p[j] = par[j] /\ s[j] = slot[j] /\ par[j] \in 1 .. n
        /\ slot[j] \in DOMAIN ms[par[j]].fields
    BY <1>1, <1>9 DEF Owned, Linked
  <2>2. LinkOf(ms[par[j]], rs[par[j]], par[j], par[j] = i, k, e, new)
    BY <1>7, <2>1
  <2>3. PICK o : o = Owner(ms, par, slot, j)
    OBVIOUS
  <2>4. PICK q : q = Owner(rs, p, s, j)
    OBVIOUS
  <2>5. q.groups = o.groups
    <3>1. o.groups # 0
      BY <2>1, <2>3 DEF Linked
    <3>2. par[j] = i /\ slot[j] = k => o = e
      BY <1>5, <2>3 DEF Owner
    <3>3. QED
      BY <2>1, <2>2, <2>3, <2>4, <3>1, <3>2 DEF Owner, LinkOf
  <2>6. p[j] \in 1 .. j - 1 /\ s[j] \in DOMAIN rs[p[j]].fields
    BY <1>8, <2>1 DEF Linked
  <2>7. q.groups = j \/ \E l \in 2 .. j - 1 : rs[l].next = j
    <3>1. CASE o.groups = j
      BY <2>5, <3>1
    <3>2. CASE o.groups # j
      <4>1. PICK l \in 2 .. j - 1 : ms[l].next = j
        BY <2>1, <2>3, <3>2 DEF Linked
      <4>2. l \in 1 .. n /\ j # 0
        BY <2>1
      <4>3. ~(e.groups # 0 /\ l = e.tail)
        BY <1>5, <1>11, <4>1, <4>2 DEF Held
      <4>4. rs[l].next = j
        BY <1>7, <4>1, <4>2, <4>3 DEF LinkOf
      <4>5. QED
        BY <4>4
    <3>3. QED
      BY <3>1, <3>2
  <2>8. CASE e.groups # 0 /\ j = e.tail
    <3>1. rs[j].next = new
      BY <1>7, <2>1, <2>8 DEF LinkOf
    <3>2. par[j] = i /\ slot[j] = k
      BY <1>5, <1>11, <2>8 DEF Held
    <3>3. new \in j + 1 .. new
      BY <1>2
    <3>4. QED
      BY <1>6, <1>10, <2>1, <2>3, <2>4, <2>5, <2>6, <2>7, <3>1, <3>2, <3>3 DEF Linked
  <2>9. CASE ~(e.groups # 0 /\ j = e.tail)
    <3>1. rs[j].next = ms[j].next
      BY <1>7, <2>1, <2>9 DEF LinkOf
    <3>2. CASE ms[j].next = 0 /\ o.tail = j
      <4>1. ~(par[j] = i /\ slot[j] = k)
        BY <1>5, <2>1, <2>3, <2>9, <3>2 DEF Linked, Owner
      <4>2. q.tail = j
        BY <2>1, <2>2, <2>3, <2>4, <3>2, <4>1 DEF Owner, LinkOf
      <4>3. QED
        BY <2>1, <2>3, <2>4, <2>5, <2>6, <2>7, <3>1, <3>2, <4>2 DEF Linked
    <3>3. CASE /\ ms[j].next \in j + 1 .. Len(ms)
               /\ par[ms[j].next] = par[j] /\ slot[ms[j].next] = slot[j]
      <4>1. PICK b : b = ms[j].next
        OBVIOUS
      <4>2. b \in 2 .. n /\ b \in j + 1 .. new
        BY <1>1, <1>2, <3>3, <4>1
      <4>3. p[b] = p[j] /\ s[b] = s[j]
        BY <1>9, <2>1, <3>3, <4>1, <4>2
      <4>4. QED
        BY <1>6, <2>1, <2>3, <2>4, <2>5, <2>6, <2>7, <3>1, <4>1, <4>2, <4>3 DEF Linked
    <3>4. QED
      BY <2>1, <2>3, <3>2, <3>3 DEF Linked
  <2>10. QED
    BY <2>8, <2>9
<1>15. ASSUME NEW j \in 1 .. n, NEW l \in DOMAIN rs[j].fields PROVE Held(rs, p, s, j, l)
  <2>1. l \in DOMAIN ms[j].fields /\ Held(ms, par, slot, j, l)
    BY <1>1, <1>8 DEF Owned
  <2>2. PICK d : d = ms[j].fields[l]
    OBVIOUS
  <2>3. PICK c : c = rs[j].fields[l]
    OBVIOUS
  <2>4. LinkOf(ms[j], rs[j], j, j = i, k, e, new)
    BY <1>7
  <2>5. CASE j = i /\ l = k
    <3>1. d = e /\ c.tail = new
      BY <1>5, <2>1, <2>2, <2>3, <2>4, <2>5 DEF LinkOf
    <3>2. c.groups = IF e.groups = 0 THEN new ELSE e.groups
      BY <2>1, <2>2, <2>3, <2>4, <2>5, <3>1 DEF LinkOf
    <3>3. c.groups \in 2 .. new /\ p[c.groups] = i /\ s[c.groups] = k
      <4>1. CASE e.groups = 0
        BY <1>10, <3>2, <4>1
      <4>2. CASE e.groups # 0
        <5>1. e.groups \in 2 .. n /\ par[e.groups] = i /\ slot[e.groups] = k
          BY <1>1, <1>5, <1>11, <4>2 DEF Held
        <5>2. QED
          BY <1>2, <1>9, <3>2, <4>2, <5>1
      <4>3. QED
        BY <4>1, <4>2
    <3>4. QED
      BY <1>6, <1>10, <2>3, <2>5, <3>1, <3>3 DEF Held
  <2>6. CASE ~(j = i /\ l = k)
    <3>1. c.groups = d.groups /\ c.tail = d.tail
      BY <2>1, <2>2, <2>3, <2>4, <2>6 DEF LinkOf
    <3>2. CASE d.groups = 0
      BY <2>3, <3>1, <3>2 DEF Held
    <3>3. CASE d.groups # 0
      <4>1. /\ d.groups \in 2 .. n /\ par[d.groups] = j /\ slot[d.groups] = l
            /\ d.tail \in 2 .. n /\ par[d.tail] = j /\ slot[d.tail] = l
            /\ ms[d.tail].next = 0
        BY <1>1, <2>1, <2>2, <3>3 DEF Held
      <4>2. ~(e.groups # 0 /\ d.tail = e.tail)
        BY <1>5, <1>11, <2>6, <4>1 DEF Held
      <4>3. rs[d.tail].next = 0
        <5>1. d.tail \in 1 .. n
          BY <4>1
        <5>2. QED
          BY <1>7, <4>1, <4>2, <5>1 DEF LinkOf
      <4>4. d.groups \in 2 .. new /\ d.tail \in 2 .. new
        BY <1>2, <4>1
      <4>5. p[d.groups] = j /\ s[d.groups] = l /\ p[d.tail] = j /\ s[d.tail] = l
        BY <1>9, <4>1
      <4>6. QED
        BY <1>6, <2>3, <3>1, <4>3, <4>4, <4>5 DEF Held
    <3>4. QED
      BY <3>2, <3>3
  <2>7. QED
    BY <2>5, <2>6
<1>16. Owned(rs, p, s)
  <2>1. ASSUME NEW j \in 2 .. Len(rs) PROVE Linked(rs, p, s, j)
    <3>1. j = new \/ j \in 2 .. n
      BY <1>2, <1>6
    <3>2. QED
      BY <1>13, <1>14, <3>1
  <2>2. ASSUME NEW j \in DOMAIN rs, NEW l \in DOMAIN rs[j].fields
        PROVE  Held(rs, p, s, j, l)
    <3>1. j = new \/ j \in 1 .. n
      BY <1>2, <1>6
    <3>2. j # new
      BY <1>6
    <3>3. QED
      BY <1>15, <3>1, <3>2
  <2>3. rs[1].next = 0
    <3>1. 1 \in 1 .. n /\ ms[1].next = 0
      BY <1>10 DEF Owned
    <3>2. e.groups # 0 => e.tail # 1
      BY <1>5, <1>11 DEF Held
    <3>3. QED
      BY <1>7, <3>1, <3>2 DEF LinkOf
  <2>4. QED
    BY <2>1, <2>2, <2>3 DEF Owned
<1>17. QED
  BY <1>1, <1>2, <1>3, <1>4, <1>16 DEF Longer

-----------------------------------------------------------------------------
(* The lists of groups.  nx is the link from one map to the next.          *)

Forward(nx, n) == /\ nx \in [0 .. n -> 0 .. n] /\ nx[0] = 0
                  /\ \A j \in 1 .. n : nx[j] = 0 \/ nx[j] > j

Counts(c, nx, n) == c[0] = 0 /\ \A j \in 1 .. n : c[j] = 1 + c[nx[j]]

(* Links lead forward, so the maps behind one can be counted, the last map *)
(* first.                                                                  *)
LEMMA CountExists ==
  ASSUME NEW n \in Nat, NEW nx, Forward(nx, n)
  PROVE  \E c \in [0 .. n -> Nat] : Counts(c, nx, n)
<1> DEFINE Good(c, m) == c[0] = 0 /\ \A j \in 1 .. n : j > n - m => c[j] = 1 + c[nx[j]]
           Q == {m \in Nat : m <= n => \E c \in [0 .. n -> Nat] : Good(c, m)}
<1>1. 0 \in Q
  <2>1. PICK c \in [0 .. n -> Nat] : c = [j \in 0 .. n |-> 0]
    <3>1. [j \in 0 .. n |-> 0] \in [0 .. n -> Nat]
      OBVIOUS
    <3>2. QED
      BY <3>1
  <2>2. Good(c, 0)
    BY <2>1
  <2>3. QED
    BY <2>2
<1>2. ASSUME NEW m \in Nat, m \in Q PROVE m + 1 \in Q
  <2> SUFFICES ASSUME m + 1 <= n PROVE \E c \in [0 .. n -> Nat] : Good(c, m + 1)
    OBVIOUS
  <2>1. PICK c \in [0 .. n -> Nat] : Good(c, m)
    BY <1>2
  <2>2. PICK i \in 1 .. n : i = n - m
    <3>1. n - m \in 1 .. n
      OBVIOUS
    <3>2. QED
      BY <3>1
  <2>3. PICK v \in Nat : v = 1 + c[nx[i]]
    <3>1. nx[i] \in 0 .. n
      BY DEF Forward
    <3>2. 1 + c[nx[i]] \in Nat
      BY <3>1
    <3>3. QED
      BY <3>2
  <2>4. PICK d \in [0 .. n -> Nat] : d = [c EXCEPT ![i] = v]
    <3>1. [c EXCEPT ![i] = v] \in [0 .. n -> Nat]
      OBVIOUS
    <3>2. QED
      BY <3>1
  <2>5. \A j \in 0 .. n : d[j] = IF j = i THEN v ELSE c[j]
    BY <2>4
  <2>6. ASSUME NEW j \in 1 .. n, j > n - (m + 1) PROVE d[j] = 1 + d[nx[j]]
    <3>1. nx[j] \in 0 .. n /\ nx[j] # i
      <4>1. nx[j] \in 0 .. n /\ (nx[j] = 0 \/ nx[j] > j)
        BY DEF Forward
      <4>2. j >= i /\ i >= 1
        BY <2>2, <2>6
      <4> HIDE DEF Good
      <4>3. QED
        BY <4>1, <4>2
    <3>2. d[nx[j]] = c[nx[j]]
      BY <2>5, <3>1
    <3>3. CASE j = i
      BY <2>3, <2>5, <3>2, <3>3
    <3>4. CASE j # i
      <4>1. j > n - m
        BY <2>2, <2>6, <3>4
      <4>2. c[j] = 1 + c[nx[j]]
        BY <2>1, <4>1
      <4>3. QED
        BY <2>5, <3>2, <3>4, <4>2
    <3>5. QED
      BY <3>3, <3>4
  <2>7. d[0] = 0
    BY <2>1, <2>2, <2>5
  <2>8. Good(d, m + 1)
    BY <2>6, <2>7
  <2> HIDE DEF Good
  <2>9. QED
    BY <2>8
<1>3. Nat \subseteq Q
  <2> HIDE DEF Q
  <2>1. QED
    BY <1>1, <1>2, NatInduct
<1>4. PICK c \in [0 .. n -> Nat] : Good(c, n)
  <2>1. n \in Q
    BY <1>3
  <2>2. QED
    BY <2>1
<1>5. \A j \in 1 .. n : j > n - n
  OBVIOUS
<1>6. QED
  BY <1>4, <1>5 DEF Counts

(* There is one way to count.                                              *)
LEMMA CountUnique ==
  ASSUME NEW n \in Nat, NEW nx, Forward(nx, n), NEW c, NEW d,
         Counts(c, nx, n), Counts(d, nx, n)
  PROVE  \A j \in 0 .. n : c[j] = d[j]
<1> DEFINE Q == {m \in Nat : \A j \in 0 .. n : j > n - m => c[j] = d[j]}
<1>1. 0 \in Q
  OBVIOUS
<1>2. ASSUME NEW m \in Nat, m \in Q PROVE m + 1 \in Q
  <2>1. ASSUME NEW j \in 0 .. n, j > n - (m + 1) PROVE c[j] = d[j]
    <3>1. CASE j = 0
      BY <3>1 DEF Counts
    <3>2. CASE j # 0
      <4>1. j \in 1 .. n /\ nx[j] \in 0 .. n /\ (nx[j] = 0 \/ nx[j] > n - m)
        BY <2>1, <3>2 DEF Forward
      <4>2. c[nx[j]] = d[nx[j]]
        BY <1>2, <4>1 DEF Counts
      <4>3. QED
        BY <4>1, <4>2 DEF Counts
    <3>3. QED
      BY <3>1, <3>2
  <2>2. QED
    BY <2>1
<1>3. Nat \subseteq Q
  <2> HIDE DEF Q
  <2>1. QED
    BY <1>1, <1>2, NatInduct
<1>4. n + 1 \in Q
  <2>1. n + 1 \in Nat
    OBVIOUS
  <2> HIDE DEF Q
  <2>2. QED
    BY <1>3, <2>1
<1>5. QED
  BY <1>4

(* What group follows, function by function.                               *)
IsWalk(p, h, nx, m) == p = [k \in 0 .. m |-> IF k = 0 THEN h ELSE nx[p[k - 1]]]

(* A walk goes from link to link.                                          *)
LEMMA WalkSteps ==
  ASSUME NEW p, NEW h, NEW nx, NEW m \in Nat, IsWalk(p, h, nx, m)
  PROVE  p[0] = h /\ \A k \in 1 .. m : p[k] = nx[p[k - 1]]
<1>1. \A k \in 0 .. m : p[k] = IF k = 0 THEN h ELSE nx[p[k - 1]]
  BY DEF IsWalk
<1>2. QED
  BY <1>1

(* Links that lead forward can be followed any number of times,            *)
LEMMA WalkExists ==
  ASSUME NEW n \in Nat, NEW nx, NEW h \in 0 .. n, Forward(nx, n), NEW m \in Nat
  PROVE  \E p : IsWalk(p, h, nx, m)
<1> DEFINE Good(p, l) == p[0] = h /\ \A k \in 1 .. m : k <= l => p[k] = nx[p[k - 1]]
           Q == {l \in Nat : \E p \in [0 .. m -> 0 .. n] : Good(p, l)}
<1>1. 0 \in Q
  <2>1. PICK p \in [0 .. m -> 0 .. n] : p = [k \in 0 .. m |-> h]
    <3>1. [k \in 0 .. m |-> h] \in [0 .. m -> 0 .. n]
      OBVIOUS
    <3>2. QED
      BY <3>1
  <2>2. QED
    BY <2>1
<1>2. ASSUME NEW l \in Nat, l \in Q PROVE l + 1 \in Q
  <2>1. PICK p \in [0 .. m -> 0 .. n] :
          p[0] = h /\ \A k \in 1 .. m : k <= l => p[k] = nx[p[k - 1]]
    BY <1>2
  <2>2. PICK v \in 0 .. n : l \in 0 .. m => v = nx[p[l]]
    <3>1. l \in 0 .. m => nx[p[l]] \in 0 .. n
      BY DEF Forward
    <3>2. QED
      BY <3>1
  <2>3. PICK q \in [0 .. m -> 0 .. n] : q = [p EXCEPT ![l + 1] = v]
    <3>1. [p EXCEPT ![l + 1] = v] \in [0 .. m -> 0 .. n]
      OBVIOUS
    <3>2. QED
      BY <3>1
  <2>4. \A k \in 0 .. m : q[k] = IF k = l + 1 THEN v ELSE p[k]
    BY <2>3
  <2>5. q[0] = h
    BY <2>1, <2>4
  <2>6. ASSUME NEW k \in 1 .. m, k <= l + 1 PROVE q[k] = nx[q[k - 1]]
    <3>1. k - 1 \in 0 .. m /\ k - 1 # l + 1
      BY <2>6
    <3>2. q[k - 1] = p[k - 1]
      BY <2>4, <3>1
    <3>3. CASE k = l + 1
      <4>1. k - 1 = l /\ l \in 0 .. m
        BY <3>1, <3>3
      <4>2. QED
        BY <2>2, <2>4, <3>2, <3>3, <4>1
    <3>4. CASE k # l + 1
      BY <2>1, <2>4, <2>6, <3>2, <3>4
    <3>5. QED
      BY <3>3, <3>4
  <2>7. Good(q, l + 1)
    BY <2>5, <2>6
  <2> HIDE DEF Good
  <2>8. QED
    BY <2>7
<1>3. Nat \subseteq Q
  <2> HIDE DEF Q
  <2>1. QED
    BY <1>1, <1>2, NatInduct
<1>4. PICK p \in [0 .. m -> 0 .. n] :
        p[0] = h /\ \A k \in 1 .. m : k <= m => p[k] = nx[p[k - 1]]
  <2>1. m \in Q
    BY <1>3
  <2>2. QED
    BY <2>1
<1>5. IsWalk(p, h, nx, m)
  BY <1>4 DEF IsWalk
<1>6. QED
  BY <1>5

(* and in one way only.                                                    *)
LEMMA WalkUnique ==
  ASSUME NEW h, NEW nx, NEW l \in Nat, NEW m \in Nat, NEW p, NEW q,
         IsWalk(p, h, nx, l), IsWalk(q, h, nx, m)
  PROVE  \A k \in Nat : k <= l /\ k <= m => p[k] = q[k]
<1> DEFINE Q == {k \in Nat : k <= l /\ k <= m => p[k] = q[k]}
<1>1. 0 \in Q
  BY WalkSteps
<1>2. ASSUME NEW k \in Nat, k \in Q PROVE k + 1 \in Q
  <2> SUFFICES ASSUME k + 1 <= l, k + 1 <= m PROVE p[k + 1] = q[k + 1]
    OBVIOUS
  <2>1. p[k] = q[k]
    BY <1>2
  <2>2. PICK j : j = k + 1 /\ j \in 1 .. l /\ j \in 1 .. m /\ j - 1 = k
    OBVIOUS
  <2>3. p[j] = nx[p[j - 1]] /\ q[j] = nx[q[j - 1]]
    BY <2>2, WalkSteps
  <2>4. QED
    BY <2>1, <2>2, <2>3
<1>3. Nat \subseteq Q
  <2> HIDE DEF Q
  <2>1. QED
    BY <1>1, <1>2, NatInduct
<1>4. QED
  BY <1>3

Nx(ms) == [j \in 0 .. Len(ms) |-> IF j = 0 THEN 0 ELSE ms[j].next]

(* Maps that are owned link forward.                                       *)
LEMMA NxForward ==
  ASSUME NEW ms \in MapSeqs, NEW par, NEW slot, Owned(ms, par, slot)
  PROVE  Forward(Nx(ms), Len(ms))
<1>1. PICK n \in Nat : n = Len(ms)
  BY MapSeqIs
<1>2. ASSUME NEW j \in 1 .. n
      PROVE  ms[j].next = 0 \/ (ms[j].next \in 0 .. n /\ ms[j].next > j)
  <2>1. CASE j = 1
    BY <2>1 DEF Owned
  <2>2. CASE j # 1
    <3>1. j \in 2 .. n
      BY <2>2
    <3>2. Linked(ms, par, slot, j)
      BY <1>1, <3>1 DEF Owned
    <3>3. ms[j].next = 0 \/ ms[j].next \in j + 1 .. n
      BY <1>1, <3>2 DEF Linked
    <3>4. QED
      BY <3>3
  <2>3. QED
    BY <2>1, <2>2
<1>3. QED
  BY <1>1, <1>2 DEF Forward, Nx

(* groupCount counts the maps that are left in a list,                     *)
LEMMA CountIs ==
  ASSUME NEW ms \in MapSeqs, Forward(Nx(ms), Len(ms))
  PROVE  \E c \in [0 .. Len(ms) -> Nat] :
           /\ Counts(c, Nx(ms), Len(ms))
           /\ \A e : e.groups \in 0 .. Len(ms) => groupCount(ms, e) = c[e.groups]
<1> DEFINE IsCount(c) == c = [j \in 0 .. Len(ms) |->
                               IF j = 0 THEN 0 ELSE 1 + c[ms[j].next]]
           ch == CHOOSE c : IsCount(c)
<1>1. Len(ms) \in Nat
  BY MapSeqIs
<1>2. PICK c \in [0 .. Len(ms) -> Nat] : Counts(c, Nx(ms), Len(ms))
  BY <1>1, CountExists
<1>3. \A j \in 1 .. Len(ms) : Nx(ms)[j] = ms[j].next
  BY <1>1 DEF Nx
<1>4. \A j \in 0 .. Len(ms) : c[j] = IF j = 0 THEN 0 ELSE 1 + c[ms[j].next]
  BY <1>1, <1>2, <1>3 DEF Counts
<1>5. IsCount(c)
  BY <1>4
<1>6. IsCount(ch)
  <2> HIDE DEF IsCount
  <2>1. QED
    BY <1>5
<1>7. Counts(ch, Nx(ms), Len(ms))
  <2>1. \A j \in 0 .. Len(ms) : ch[j] = IF j = 0 THEN 0 ELSE 1 + ch[ms[j].next]
    <3>1. PICK d : d = ch
      OBVIOUS
    <3>2. IsCount(d)
      BY <1>6, <3>1
    <3> HIDE DEF ch
    <3>3. \A j \in 0 .. Len(ms) : d[j] = IF j = 0 THEN 0 ELSE 1 + d[ms[j].next]
      BY <3>2
    <3>4. QED
      BY <3>1, <3>3
  <2> HIDE DEF ch
  <2>2. QED
    BY <1>1, <1>3, <2>1 DEF Counts
<1>8. \A j \in 0 .. Len(ms) : ch[j] = c[j]
  <2> HIDE DEF ch
  <2>1. QED
    BY <1>1, <1>2, <1>7, CountUnique
<1>9. \A e : groupCount(ms, e) = ch[e.groups]
  BY DEF groupCount
<1>10. QED
  <2> HIDE DEF ch
  <2>1. QED
    BY <1>2, <1>8, <1>9

(* and group takes as many links as its index says.                        *)
LEMMA GroupIs ==
  ASSUME NEW ms \in MapSeqs, Forward(Nx(ms), Len(ms)),
         NEW e, e.groups \in 0 .. Len(ms), NEW m \in Nat
  PROVE  \E p : IsWalk(p, e.groups, Nx(ms), m) /\ group(ms, e, m) = p[m]
<1> DEFINE ptr == CHOOSE p : p = [k \in 0 .. m |-> IF k = 0 THEN e.groups
                                                 ELSE Nx(ms)[p[k - 1]]]
           pw == CHOOSE p : IsWalk(p, e.groups, Nx(ms), m)
<1>1. group(ms, e, m) = ptr[m]
  BY DEF group, Nx
<1>2. ptr = pw
  BY DEF IsWalk
<1>3. \E p : IsWalk(p, e.groups, Nx(ms), m)
  BY MapSeqIs, WalkExists
<1>4. IsWalk(pw, e.groups, Nx(ms), m)
  BY <1>3
<1>5. QED
  <2> HIDE DEF ptr, pw
  <2>1. QED
    BY <1>1, <1>2, <1>4

(* group as a function of the index.                                       *)
LEMMA GroupSteps ==
  ASSUME NEW ms \in MapSeqs, Forward(Nx(ms), Len(ms)),
         NEW e, e.groups \in 0 .. Len(ms)
  PROVE  /\ group(ms, e, 0) = e.groups
         /\ \A m \in Nat : group(ms, e, m + 1) = Nx(ms)[group(ms, e, m)]
<1>1. group(ms, e, 0) = e.groups
  <2>1. PICK p : IsWalk(p, e.groups, Nx(ms), 0) /\ group(ms, e, 0) = p[0]
    BY GroupIs
  <2>2. QED
    BY <2>1, WalkSteps
<1>2. ASSUME NEW m \in Nat PROVE group(ms, e, m + 1) = Nx(ms)[group(ms, e, m)]
  <2>1. PICK p : IsWalk(p, e.groups, Nx(ms), m) /\ group(ms, e, m) = p[m]
    BY GroupIs
  <2>2. PICK l \in Nat : l = m + 1
    OBVIOUS
  <2>3. PICK q : IsWalk(q, e.groups, Nx(ms), l) /\ group(ms, e, l) = q[l]
    BY GroupIs
  <2>4. p[m] = q[m]
    <3>1. m <= m /\ m <= l
      BY <2>2
    <3>2. QED
      BY <2>1, <2>3, <3>1, WalkUnique
  <2>5. l \in 1 .. l /\ l - 1 = m
    BY <2>2
  <2>6. q[l] = Nx(ms)[q[l - 1]]
    BY <2>3, <2>5, WalkSteps
  <2>7. QED
    BY <2>1, <2>2, <2>3, <2>4, <2>5, <2>6
<1>3. QED
  BY <1>1, <1>2

Follows(G, h, nx) == G[0] = h /\ \A m \in Nat : G[m + 1] = nx[G[m]]

(* How many maps are left when m of them have been passed.                 *)
Left(G, c, h, n) ==
  \A m \in Nat : m < c[h] => G[m] \in 1 .. n /\ c[G[m]] = c[h] - m

(* Counted down along a list, the maps of a list are as many as its count. *)
LEMMA WalkCounts ==
  ASSUME NEW n \in Nat, NEW nx, Forward(nx, n),
         NEW c \in [0 .. n -> Nat], Counts(c, nx, n),
         NEW h \in 0 .. n, NEW G, Follows(G, h, nx)
  PROVE  Left(G, c, h, n)
<1>1. PICK b \in Nat : b = c[h]
  OBVIOUS
<1> DEFINE Q == {m \in Nat : m < b => G[m] \in 1 .. n /\ c[G[m]] = b - m}
<1>2. 0 \in Q
  <2>1. b = 0 \/ h \in 1 .. n
    BY <1>1 DEF Counts
  <2>2. c[G[0]] = b /\ b - 0 = b
    BY <1>1 DEF Follows
  <2>3. 0 < b => G[0] \in 1 .. n /\ c[G[0]] = b - 0
    BY <2>1, <2>2 DEF Follows
  <2>4. QED
    BY <2>3
<1>3. ASSUME NEW m \in Nat, m \in Q PROVE m + 1 \in Q
  <2> SUFFICES ASSUME m + 1 < b
               PROVE  G[m + 1] \in 1 .. n /\ c[G[m + 1]] = b - (m + 1)
    OBVIOUS
  <2>1. PICK j : j = G[m]
    OBVIOUS
  <2>2. j \in 1 .. n /\ c[j] = b - m
    BY <1>3, <2>1
  <2>3. PICK l \in 0 .. n : l = nx[j]
    BY <2>2 DEF Forward
  <2>4. PICK a \in Nat : a = c[l]
    OBVIOUS
  <2>5. c[j] = 1 + a
    BY <2>2, <2>3, <2>4 DEF Counts
  <2>6. a = b - (m + 1) /\ a # 0
    BY <2>2, <2>5
  <2>7. l # 0
    BY <2>4, <2>6 DEF Counts
  <2>8. G[m + 1] = l
    BY <2>1, <2>3 DEF Follows
  <2>9. l \in 1 .. n
    BY <2>7
  <2>10. QED
    BY <2>4, <2>6, <2>8, <2>9
<1>4. Nat \subseteq Q
  <2> HIDE DEF Q
  <2>1. QED
    BY <1>2, <1>3, NatInduct
<1>5. QED
  BY <1>1, <1>4 DEF Left

(* The maps that hang off field k of map i, by par and slot.               *)
On(ms, par, slot, i, k) == {j \in 2 .. Len(ms) : par[j] = i /\ slot[j] = k}

(* The list G of cnt maps has just these, and the tail is the last.        *)
Lists(ms, par, slot, i, k, cnt, G) ==
  /\ cnt \in Nat
  /\ \A m \in Nat : m < cnt => G[m] \in On(ms, par, slot, i, k)
  /\ \A j \in On(ms, par, slot, i, k) : \E m \in Nat : m < cnt /\ G[m] = j
  /\ ms[i].fields[k].groups # 0 => cnt >= 1 /\ G[cnt - 1] = ms[i].fields[k].tail

(* group and groupCount go through the maps of a field, each owned by it.  *)
LEMMA ListIs ==
  ASSUME NEW ms \in MapSeqs, NEW par, NEW slot, Owned(ms, par, slot),
         NEW i \in DOMAIN ms, NEW k \in DOMAIN ms[i].fields,
         NEW e, e = ms[i].fields[k], e.groups \in 0 .. Len(ms)
  PROVE  Lists(ms, par, slot, i, k, groupCount(ms, e), [m \in Nat |-> group(ms, e, m)])
<1>1. PICK n \in Nat : n = Len(ms)
  BY MapSeqIs
<1>2. PICK nx : nx = Nx(ms) /\ Forward(nx, n)
  BY <1>1, NxForward
<1>3. PICK c \in [0 .. n -> Nat] : Counts(c, nx, n) /\ groupCount(ms, e) = c[e.groups]
  BY <1>1, <1>2, CountIs
<1>4. PICK G : G = [m \in Nat |-> group(ms, e, m)]
  OBVIOUS
<1>5. PICK h \in 0 .. n : h = e.groups
  BY <1>1
<1>6. G[0] = h /\ \A m \in Nat : G[m + 1] = nx[G[m]]
  <2>1. \A m \in Nat : m + 1 \in Nat /\ G[m + 1] = group(ms, e, m + 1) /\ G[m] = group(ms, e, m)
    BY <1>4
  <2>2. \A m \in Nat : group(ms, e, m + 1) = nx[group(ms, e, m)]
    BY <1>1, <1>2, GroupSteps
  <2>3. G[0] = h
    BY <1>1, <1>2, <1>4, <1>5, GroupSteps
  <2>4. QED
    BY <2>1, <2>2, <2>3
<1>7. PICK cnt \in Nat : cnt = c[h]
  OBVIOUS
<1>8. \A m \in Nat : m < cnt => G[m] \in 1 .. n /\ c[G[m]] = cnt - m
  <2>1. Counts(c, nx, n) /\ Forward(nx, n) /\ n \in Nat /\ h \in 0 .. n
    BY <1>2, <1>3
  <2>2. Follows(G, h, nx)
    BY <1>6 DEF Follows
  <2>3. Left(G, c, h, n)
    BY <2>1, <2>2, WalkCounts
  <2>4. QED
    BY <1>7, <2>3 DEF Left
<1>9. \A j \in 1 .. n : nx[j] = ms[j].next
  BY <1>1, <1>2 DEF Nx
<1>10. PICK S : S = On(ms, par, slot, i, k)
  OBVIOUS
<1>11. \A j : j \in S <=> j \in 2 .. n /\ par[j] = i /\ slot[j] = k
  BY <1>1, <1>10 DEF On
<1>12. h # 0 => h \in S /\ e.tail \in S /\ ms[e.tail].next = 0
  BY <1>1, <1>5, <1>11 DEF Owned, Held
<1>13. ASSUME NEW j \in S
       PROVE  /\ ms[j].next # 0 => ms[j].next \in S
              /\ j # h => \E l \in S : l \in 2 .. j - 1 /\ ms[l].next = j
  <2>1. j \in 2 .. n /\ par[j] = i /\ slot[j] = k /\ Linked(ms, par, slot, j)
    BY <1>1, <1>11 DEF Owned
  <2>2. ms[j].next # 0 => ms[j].next \in S
    <3>1. ms[j].next # 0 => /\ ms[j].next \in j + 1 .. n
                            /\ par[ms[j].next] = i /\ slot[ms[j].next] = k
      BY <1>1, <2>1 DEF Linked
    <3>2. QED
      BY <1>11, <2>1, <3>1
  <2>3. ASSUME j # h PROVE \E l \in S : l \in 2 .. j - 1 /\ ms[l].next = j
    <3>1. PICK l \in 2 .. j - 1 : ms[l].next = j
      BY <1>5, <2>1, <2>3 DEF Linked, Owner
    <3>2. l \in 2 .. n /\ ms[l].next # 0
      BY <2>1, <3>1
    <3>3. Linked(ms, par, slot, l)
      BY <1>1, <3>2 DEF Owned
    <3>4. par[j] = par[l] /\ slot[j] = slot[l]
      BY <3>1, <3>2, <3>3 DEF Linked
    <3>5. QED
      BY <1>11, <2>1, <3>1, <3>2, <3>4
  <2>4. QED
    BY <2>2, <2>3
<1>14. ASSUME NEW m \in Nat, m < cnt PROVE G[m] \in S
  <2> DEFINE Q == {l \in Nat : l < cnt => G[l] \in S}
  <2>1. 0 \in Q
    <3>1. h # 0 \/ cnt = 0
      BY <1>3, <1>7 DEF Counts
    <3>2. 0 < cnt => G[0] \in S
      BY <1>6, <1>12, <3>1
    <3>3. QED
      BY <3>2
  <2>2. ASSUME NEW l \in Nat, l \in Q PROVE l + 1 \in Q
    <3> SUFFICES ASSUME l + 1 < cnt PROVE G[l + 1] \in S
      OBVIOUS
    <3>1. PICK j : j = G[l]
      OBVIOUS
    <3>2. j \in S /\ j \in 1 .. n
      BY <1>8, <2>2, <3>1
    <3>3. PICK b : b = G[l + 1]
      OBVIOUS
    <3>4. b \in 1 .. n
      <4>1. l + 1 \in Nat
        OBVIOUS
      <4>2. QED
        BY <1>8, <3>3, <4>1
    <3>5. b = ms[j].next
      BY <1>6, <1>9, <3>1, <3>2, <3>3
    <3>6. QED
      BY <1>13, <3>2, <3>3, <3>4, <3>5
  <2>3. Nat \subseteq Q
    <3> HIDE DEF Q
    <3>1. QED
      BY <2>1, <2>2, NatInduct
  <2>4. QED
    BY <1>14, <2>3
<1>15. ASSUME NEW j \in S PROVE \E m \in Nat : m < cnt /\ G[m] = j
  <2> DEFINE Found(l) == \E m \in Nat : m < cnt /\ G[m] = l
             Q == {b \in Nat : \A l \in S : l <= b => Found(l)}
  <2>1. 0 \in Q
    <3>1. \A l \in S : l \in Nat /\ l >= 2
      BY <1>11
    <3> HIDE DEF Found
    <3>2. QED
      BY <3>1
  <2>2. ASSUME NEW b \in Nat, b \in Q PROVE b + 1 \in Q
    <3>1. ASSUME NEW l \in S, l <= b + 1 PROVE Found(l)
      <4>1. l \in 2 .. n /\ c[l] \in Nat
        BY <1>11
      <4>2. CASE l = h
        <5>1. c[l] = 1 + c[nx[l]] /\ nx[l] \in 0 .. n
          BY <1>2, <1>3, <4>1 DEF Counts, Forward
        <5>2. c[nx[l]] \in Nat
          BY <5>1
        <5>3. 0 < cnt
          BY <1>7, <4>2, <5>1, <5>2
        <5>4. QED
          BY <1>6, <4>2, <5>3
      <4>3. CASE l # h
        <5>1. PICK a \in S : a \in 2 .. l - 1 /\ ms[a].next = l
          BY <1>13, <4>3
        <5>2. a \in Nat /\ a <= b /\ a \in 1 .. n
          BY <3>1, <4>1, <5>1
        <5>3. Found(a)
          BY <2>2, <5>2
        <5>4. PICK m \in Nat : m < cnt /\ G[m] = a
          BY <5>3
        <5>5. nx[a] = l
          BY <1>9, <5>1, <5>2
        <5>6. c[a] = 1 + c[l] /\ c[a] = cnt - m
          BY <1>3, <1>8, <5>2, <5>4, <5>5 DEF Counts
        <5>7. c[l] >= 1
          <6>1. c[l] = 1 + c[nx[l]] /\ nx[l] \in 0 .. n
            BY <1>2, <1>3, <4>1 DEF Counts, Forward
          <6>2. c[nx[l]] \in Nat
            BY <6>1
          <6>3. QED
            BY <6>1, <6>2
        <5>8. m + 1 \in Nat /\ m + 1 < cnt
          BY <4>1, <5>6, <5>7
        <5>9. G[m + 1] = l
          BY <1>6, <5>4, <5>5
        <5>10. QED
          BY <5>8, <5>9
      <4>4. QED
        BY <4>2, <4>3
    <3> HIDE DEF Found
    <3>2. b + 1 \in Nat
      OBVIOUS
    <3>3. QED
      BY <3>1, <3>2
  <2>3. Nat \subseteq Q
    <3> HIDE DEF Q
    <3>1. QED
      BY <2>1, <2>2, NatInduct
  <2>4. j \in Nat /\ j <= j
    BY <1>11
  <2>5. j \in Q
    <3> HIDE DEF Q
    <3>1. QED
      BY <2>3, <2>4
  <2>6. QED
    BY <2>4, <2>5
<1>16. ASSUME h # 0 PROVE cnt >= 1 /\ G[cnt - 1] = e.tail
  <2>1. PICK j \in S : j = e.tail /\ ms[j].next = 0
    BY <1>12, <1>16
  <2>2. PICK m \in Nat : m < cnt /\ G[m] = j
    BY <1>15
  <2>3. j \in 1 .. n /\ nx[j] = 0
    <3>1. j \in 2 .. n
      BY <1>11
    <3>2. j \in 1 .. n
      BY <3>1
    <3>3. QED
      BY <1>9, <2>1, <3>2
  <2>4. c[j] = 1 /\ c[j] = cnt - m
    <3>1. c[j] = 1 + c[nx[j]] /\ c[0] = 0
      BY <1>3, <2>3 DEF Counts
    <3>2. c[j] = 1
      BY <2>3, <3>1
    <3>3. c[G[m]] = cnt - m
      BY <1>8, <2>2
    <3>4. QED
      BY <2>2, <3>2, <3>3
  <2>5. m = cnt - 1
    BY <2>2, <2>4
  <2>6. QED
    BY <2>1, <2>2, <2>5
<1>17. groupCount(ms, e) = cnt
  BY <1>3, <1>5, <1>7
<1>18. Lists(ms, par, slot, i, k, cnt, G)
  BY <1>5, <1>10, <1>14, <1>15, <1>16 DEF Lists
<1>19. QED
  BY <1>4, <1>17, <1>18

(* What a reader is given of a field is what hangs off it.                 *)
LEMMA ListOfIs ==
  ASSUME NEW par, NEW slot, maps \in MapSeqs, Owned(maps, par, slot),
         NEW i \in DOMAIN maps, NEW k \in DOMAIN maps[i].fields,
         NEW e, e = maps[i].fields[k], e.groups \in 0 .. Len(maps)
  PROVE  /\ Range(ListOf(e)) = On(maps, par, slot, i, k)
         /\ e.groups # 0 => e.tail = Last(ListOf(e))
<1>1. PICK S : S = On(maps, par, slot, i, k)
  OBVIOUS
<1>2. PICK G : G = [m \in Nat |-> group(maps, e, m)]
  OBVIOUS
<1>3. PICK cnt : cnt = groupCount(maps, e)
  OBVIOUS
<1>4. Lists(maps, par, slot, i, k, cnt, G)
  BY <1>2, <1>3, ListIs
<1>5. /\ cnt \in Nat
      /\ \A m \in Nat : m < cnt => G[m] \in S
      /\ \A j \in S : \E m \in Nat : m < cnt /\ G[m] = j
      /\ e.groups # 0 => cnt >= 1 /\ G[cnt - 1] = e.tail
  BY <1>1, <1>4 DEF Lists
<1>6. ASSUME NEW q \in 1 .. cnt
      PROVE  q - 1 \in Nat /\ q - 1 < cnt /\ G[q - 1] = group(maps, e, q - 1)
  BY <1>2, <1>5
<1>7. PICK L \in Seq(S) : /\ L = ListOf(e) /\ Len(L) = cnt
                          /\ \A q \in 1 .. cnt : L[q] = G[q - 1]
  <2>1. ListOf(e) = [q \in 1 .. cnt |-> G[q - 1]]
    <3>1. [q \in 1 .. cnt |-> group(maps, e, q - 1)] = [q \in 1 .. cnt |-> G[q - 1]]
      BY <1>6
    <3>2. QED
      BY <1>3, <3>1 DEF ListOf
  <2>2. PICK L : L = [q \in 1 .. cnt |-> G[q - 1]]
    OBVIOUS
  <2>3. \A q \in 1 .. cnt : G[q - 1] \in S
    BY <1>5, <1>6
  <2>4. L \in Seq(S) /\ Len(L) = cnt /\ \A q \in 1 .. cnt : L[q] = G[q - 1]
    BY <1>5, <2>2, <2>3
  <2>5. QED
    BY <2>1, <2>2, <2>4
<1>8. DOMAIN L = 1 .. cnt
  BY <1>7
<1>9. \A x \in Range(L) : x \in S
  BY <1>7 DEF Range
<1>10. ASSUME NEW x \in S PROVE x \in Range(L)
  <2>1. PICK m \in Nat : m < cnt /\ G[m] = x
    BY <1>5
  <2>2. PICK q \in 1 .. cnt : q = m + 1 /\ q - 1 = m
    <3>1. m + 1 \in 1 .. cnt /\ (m + 1) - 1 = m
      BY <1>5, <2>1
    <3>2. QED
      BY <3>1
  <2>3. L[q] = x
    BY <1>7, <2>1, <2>2
  <2>4. QED
    BY <1>8, <2>3 DEF Range
<1>11. ASSUME e.groups # 0 PROVE e.tail = Last(L)
  <2>1. cnt \in 1 .. cnt
    BY <1>5, <1>11
  <2>2. L[cnt] = e.tail
    BY <1>5, <1>7, <1>11, <2>1
  <2>3. QED
    BY <1>7, <2>2 DEF Last
<1>12. QED
  BY <1>1, <1>7, <1>9, <1>10, <1>11

(* Every map but the first hangs off the one field that par and slot give, *)
(* and the tails are the ends of their lists.                              *)
LEMMA TreeIs ==
  ASSUME NEW par, NEW slot, MapsOK(maps), Owned(maps, par, slot)
  PROVE  /\ \A j \in DOMAIN maps :
              Owners(j) = IF j = 1 THEN {} ELSE {<<par[j], slot[j]>>}
         /\ \A i \in DOMAIN maps : \A e \in Range(maps[i].fields) :
              e.groups # 0 => e.tail = Last(ListOf(e))
         /\ \A j \in 2 .. Len(maps) : j \in Children(par[j])
<1>1. PICK n \in Nat : n = Len(maps) /\ DOMAIN maps = 1 .. n
  BY MapSeqIs DEF MapsOK
<1>2. maps \in MapSeqs
  BY DEF MapsOK
<1>3. ASSUME NEW i \in DOMAIN maps, NEW k \in DOMAIN maps[i].fields
      PROVE  /\ Range(ListOf(maps[i].fields[k])) = On(maps, par, slot, i, k)
             /\ maps[i].fields[k].groups # 0 =>
                  maps[i].fields[k].tail = Last(ListOf(maps[i].fields[k]))
             /\ k \in 1 .. MaxFields
  <2>1. PICK e : e = maps[i].fields[k]
    OBVIOUS
  <2>2. MapOK(maps[i], n)
    BY <1>1 DEF MapsOK
  <2>3. e.groups \in 0 .. n
    BY <2>1, <2>2 DEF MapOK, EntryOK
  <2>4. k \in 1 .. MaxFields
    <3>1. /\ Len(maps[i].fields) \in Nat
          /\ DOMAIN maps[i].fields = 1 .. Len(maps[i].fields)
      BY <1>2, MapSeqIs
    <3>2. Len(maps[i].fields) <= MaxFields /\ MaxFields \in Nat
      BY <2>2, RoomAssumption DEF MapOK
    <3>3. QED
      BY <3>1, <3>2
  <2>5. QED
    BY <1>1, <1>2, <2>1, <2>3, <2>4, ListOfIs
<1>4. ASSUME NEW j \in 2 .. n
      PROVE  /\ par[j] \in DOMAIN maps /\ slot[j] \in DOMAIN maps[par[j]].fields
             /\ j \in On(maps, par, slot, par[j], slot[j])
  <2>1. Linked(maps, par, slot, j)
    BY <1>1 DEF Owned
  <2>2. par[j] \in 1 .. j - 1 /\ slot[j] \in DOMAIN maps[par[j]].fields
    BY <2>1 DEF Linked
  <2>3. par[j] \in 1 .. n
    BY <2>2
  <2>4. j \in On(maps, par, slot, par[j], slot[j])
    BY <1>1 DEF On
  <2>5. QED
    BY <1>1, <2>2, <2>3, <2>4
<1>5. ASSUME NEW j \in DOMAIN maps, NEW p \in Owners(j)
      PROVE  j \in 2 .. n /\ p = <<par[j], slot[j]>>
  <2>1. /\ p \in (DOMAIN maps) \X (1 .. MaxFields)
        /\ p[2] \in DOMAIN maps[p[1]].fields
        /\ j \in Range(ListOf(maps[p[1]].fields[p[2]]))
    BY DEF Owners
  <2>2. p = <<p[1], p[2]>> /\ p[1] \in DOMAIN maps
    BY <2>1
  <2>3. j \in On(maps, par, slot, p[1], p[2])
    BY <1>3, <2>1, <2>2
  <2>4. QED
    BY <1>1, <2>2, <2>3 DEF On
<1>6. ASSUME NEW j \in 2 .. n PROVE <<par[j], slot[j]>> \in Owners(j)
  <2>1. PICK i \in DOMAIN maps : i = par[j]
    BY <1>4
  <2>2. PICK k \in DOMAIN maps[i].fields : k = slot[j]
    BY <1>4, <2>1
  <2>3. j \in Range(ListOf(maps[i].fields[k])) /\ k \in 1 .. MaxFields
    BY <1>3, <1>4, <2>1, <2>2
  <2>4. PICK p \in (DOMAIN maps) \X (1 .. MaxFields) : p = <<i, k>> /\ p[1] = i /\ p[2] = k
    <3>1. <<i, k>> \in (DOMAIN maps) \X (1 .. MaxFields)
      BY <2>3
    <3>2. QED
      BY <3>1
  <2>5. p \in Owners(j)
    BY <2>2, <2>3, <2>4 DEF Owners
  <2>6. QED
    BY <2>1, <2>2, <2>4, <2>5
<1>7. ASSUME NEW j \in DOMAIN maps
      PROVE  Owners(j) = IF j = 1 THEN {} ELSE {<<par[j], slot[j]>>}
  <2>1. CASE j = 1
    <3>1. \A p \in Owners(j) : FALSE
      BY <1>5, <2>1
    <3>2. QED
      BY <2>1, <3>1
  <2>2. CASE j # 1
    <3>1. j \in 2 .. n
      BY <1>1, <2>2
    <3>2. \A p \in Owners(j) : p = <<par[j], slot[j]>>
      BY <1>5
    <3>3. <<par[j], slot[j]>> \in Owners(j)
      BY <1>6, <3>1
    <3>4. QED
      BY <2>2, <3>2, <3>3
  <2>3. QED
    BY <2>1, <2>2
<1>8. ASSUME NEW i \in DOMAIN maps, NEW e \in Range(maps[i].fields), e.groups # 0
      PROVE  e.tail = Last(ListOf(e))
  <2>1. PICK k \in DOMAIN maps[i].fields : e = maps[i].fields[k]
    BY DEF Range
  <2>2. QED
    BY <1>3, <1>8, <2>1
<1>9. ASSUME NEW j \in 2 .. n PROVE j \in Children(par[j])
  <2>1. PICK i \in DOMAIN maps : i = par[j]
    BY <1>4
  <2>2. PICK k \in DOMAIN maps[i].fields : k = slot[j]
    BY <1>4, <2>1
  <2>3. j \in Range(ListOf(maps[i].fields[k]))
    BY <1>3, <1>4, <2>1, <2>2
  <2>4. PICK e : e = maps[i].fields[k]
    OBVIOUS
  <2>5. e \in Range(maps[i].fields)
    BY <2>4 DEF Range
  <2>6. Range(ListOf(e)) \in {Range(ListOf(d)) : d \in Range(maps[i].fields)}
    BY <2>5
  <2>7. j \in UNION {Range(ListOf(d)) : d \in Range(maps[i].fields)}
    BY <2>3, <2>4, <2>6
  <2>8. QED
    BY <2>1, <2>7 DEF Children
<1>10. QED
  BY <1>1, <1>7, <1>8, <1>9

-----------------------------------------------------------------------------
(* What the steps do to the maps.                                          *)

LEMMA StoredIs ==
  ASSUME MapsOK(maps), map \in DOMAIN maps, NEW f, Whole(f),
         ~Full(maps[map], f.tag)
  PROVE  /\ MapsOK(Stored(f)) /\ Len(Stored(f)) = Len(maps)
         /\ PutOf(maps[map], Stored(f)[map], f)
         /\ \A j \in DOMAIN maps : j # map => Stored(f)[j] = maps[j]
<1>1. PICK n \in Nat : n = Len(maps) /\ DOMAIN maps = 1 .. n
  BY MapSeqIs DEF MapsOK
<1>2. maps \in Seq(MapType)
  BY DEF MapsOK, MapSeqs
<1>3. PICK m \in MapType : m = maps[map] /\ MapOK(m, n)
  BY <1>1, <1>2 DEF MapsOK
<1>4. PICK r \in MapType : r = put(m, f) /\ PutOf(m, r, f)
  BY PutIs DEF PutOf
<1>5. PICK rs \in Seq(MapType) :
        /\ rs = [maps EXCEPT ![map] = r] /\ Len(rs) = n /\ DOMAIN rs = 1 .. n
        /\ \A j \in 1 .. n : rs[j] = IF j = map THEN r ELSE maps[j]
  <2>1. [maps EXCEPT ![map] = r] \in Seq(MapType)
    BY <1>2, UpdateSeq
  <2>2. QED
    BY <1>1, <1>2, <2>1, UpdateSeq
<1>6. rs = Stored(f)
  BY <1>3, <1>4, <1>5 DEF Stored
<1>7. /\ Len(m.fields) \in Nat /\ Len(r.fields) \in Nat
      /\ DOMAIN m.fields = 1 .. Len(m.fields)
      /\ DOMAIN r.fields = 1 .. Len(r.fields)
  <2>1. m = maps[map] /\ maps \in MapSeqs
    BY <1>3 DEF MapsOK
  <2>2. r = rs[map] /\ rs \in MapSeqs /\ map \in DOMAIN rs
    BY <1>1, <1>5 DEF MapSeqs
  <2>3. QED
    BY <2>1, <2>2, MapSeqIs
<1>8. MapOK(r, n)
  <2>1. r.next \in 0 .. n
    BY <1>3, <1>4 DEF MapOK, PutOf
  <2>2. Len(r.fields) <= MaxFields
    <3>1. Len(m.fields) <= MaxFields /\ MaxFields \in Nat
      BY <1>3, RoomAssumption DEF MapOK
    <3>2. find(m, f.tag) = 0 => Len(m.fields) # MaxFields
      BY <1>3 DEF Full
    <3>3. Len(r.fields) = IF find(m, f.tag) = 0 THEN Len(m.fields) + 1
                                               ELSE Len(m.fields)
      BY <1>4 DEF PutOf
    <3>4. QED
      BY <1>7, <3>1, <3>2, <3>3
  <2>3. ASSUME NEW k \in DOMAIN r.fields PROVE EntryOK(r.fields[k], n)
    <3>1. PICK e : e = r.fields[k]
      OBVIOUS
    <3>2. e.groups \in 0 .. n /\ e.tail \in 0 .. n
      <4>1. CASE k \in DOMAIN m.fields
        <5>1. e.groups = m.fields[k].groups /\ e.tail = m.fields[k].tail
          BY <1>4, <3>1, <4>1 DEF PutOf
        <5>2. EntryOK(m.fields[k], n)
          BY <1>3, <4>1 DEF MapOK
        <5>3. QED
          BY <5>1, <5>2 DEF EntryOK
      <4>2. CASE k \notin DOMAIN m.fields
        BY <1>4, <3>1, <4>2 DEF PutOf
      <4>3. QED
        BY <4>1, <4>2
    <3>3. e.offset + e.length \in 1 .. MaxMessage - 1
      <4>1. CASE e.offset = f.offset /\ e.length = f.length
        BY <4>1 DEF Whole
      <4>2. CASE k \in DOMAIN m.fields /\ e = m.fields[k]
        BY <1>3, <4>2 DEF MapOK, EntryOK
      <4>3. QED
        BY <1>4, <3>1, <4>1, <4>2 DEF PutOf
    <3>4. QED
      BY <3>1, <3>2, <3>3 DEF EntryOK
  <2>4. QED
    BY <2>1, <2>2, <2>3 DEF MapOK
<1>9. MapsOK(rs)
  <2>1. ASSUME NEW j \in DOMAIN rs PROVE MapOK(rs[j], n)
    BY <1>1, <1>5, <1>8 DEF MapsOK
  <2>2. Len(rs) >= 1 /\ Allocated(rs) <= capacity_
    BY <1>1, <1>5 DEF MapsOK, Allocated
  <2>3. QED
    BY <1>5, <2>1, <2>2 DEF MapsOK, MapSeqs
<1>10. QED
  BY <1>1, <1>3, <1>4, <1>5, <1>6, <1>9

(* What addGroup leaves: new is 0 or the new map, which hangs off map i.   *)
Grown(ms, rs, i, par, new) ==
  /\ MapsOK(rs) /\ Len(rs) >= Len(ms)
  /\ \E p, s : /\ Owned(rs, p, s)
               /\ \A j \in 2 .. Len(ms) : p[j] = par[j]
               /\ new # 0 => new \in 2 .. Len(rs) /\ p[new] = i

(* addGroup keeps every map owned by one field, the new one included.      *)
LEMMA AddGroupIs ==
  ASSUME NEW ms, MapsOK(ms), NEW i \in DOMAIN ms, NEW t, find(ms[i], t) # 0,
         NEW par, NEW slot, Owned(ms, par, slot)
  PROVE  Grown(ms, addGroup(ms, i, t), i, par, AddedMap(ms))
<1>1. PICK n \in Nat : n = Len(ms) /\ DOMAIN ms = 1 .. n /\ n >= 1
  BY MapSeqIs DEF MapsOK
<1>2. ms \in MapSeqs
  BY DEF MapsOK
<1>3. CASE ArenaFull(ms)
  <2>1. addGroup(ms, i, t) = ms /\ AddedMap(ms) = 0
    BY <1>3 DEF addGroup, AddedMap
  <2>2. QED
    BY <1>1, <2>1 DEF Grown
<1>4. CASE ~ArenaFull(ms)
  <2>1. PICK k : k = find(ms[i], t)
    OBVIOUS
  <2>2. k \in DOMAIN ms[i].fields
    <3>1. /\ ms[i] \in MapType /\ Len(ms[i].fields) \in Nat
          /\ DOMAIN ms[i].fields = 1 .. Len(ms[i].fields)
      BY <1>2, MapSeqIs
    <3>2. k \in 0 .. Len(ms[i].fields)
      BY <2>1, <3>1, FindIs
    <3>3. QED
      BY <2>1, <3>1, <3>2
  <2>3. PICK e : e = ms[i].fields[k]
    OBVIOUS
  <2>4. e.groups # 0 => e.tail \in DOMAIN ms /\ e.tail # i
    <3>1. Held(ms, par, slot, i, k)
      BY <2>2 DEF Owned
    <3>2. e.groups # 0 => e.tail \in 2 .. n /\ par[e.tail] = i
      BY <1>1, <2>3, <3>1 DEF Held
    <3>3. \A j \in 2 .. n : par[j] \in 1 .. j - 1
      BY <1>1 DEF Owned, Linked
    <3>4. \A j \in 2 .. n : j \in 1 .. n /\ par[j] # j
      BY <3>3
    <3>5. QED
      BY <1>1, <3>2, <3>4
  <2>5. PICK rs : rs = addGroup(ms, i, t)
    OBVIOUS
  <2>6. GrowthOf(ms, rs, i, k)
    BY <1>2, <1>4, <2>1, <2>3, <2>4, <2>5, GrowthIs
  <2>7. PICK new \in Nat : new = n + 1 /\ new = AddedMap(ms)
    BY <1>1, <1>4 DEF AddedMap
  <2>8. PICK p, s : /\ Owned(rs, p, s) /\ p[new] = i
                    /\ \A j \in 2 .. n : p[j] = par[j]
    <3>1. Owned(rs, Longer(par, n, i), Longer(slot, n, k))
      BY <1>1, <1>2, <2>2, <2>6, OwnedAfterGrowth
    <3>2. Longer(par, n, i)[new] = i /\ \A j \in 2 .. n : Longer(par, n, i)[j] = par[j]
      BY <1>1, <2>7 DEF Longer
    <3>3. QED
      BY <3>1, <3>2
  <2>9. /\ rs \in MapSeqs /\ Len(rs) = new /\ DOMAIN rs = 1 .. new
        /\ rs[new] = NewMap
    BY <1>1, <2>6, <2>7, MapSeqIs DEF GrowthOf
  <2>10. ASSUME NEW j \in 1 .. n PROVE MapOK(rs[j], new)
    <3>1. LinkOf(ms[j], rs[j], j, j = i, k, e, new)
      BY <1>1, <2>3, <2>6, <2>7 DEF GrowthOf, LinksOf
    <3>2. MapOK(ms[j], n)
      BY <1>1 DEF MapsOK
    <3>3. j \in DOMAIN ms /\ j \in DOMAIN rs
      BY <1>1, <2>7, <2>9
    <3>4. DOMAIN rs[j].fields = DOMAIN ms[j].fields
      <4>1. /\ DOMAIN ms[j].fields = 1 .. Len(ms[j].fields)
            /\ DOMAIN rs[j].fields = 1 .. Len(rs[j].fields)
        BY <1>2, <2>9, <3>3, MapSeqIs
      <4>2. QED
        BY <3>1, <4>1 DEF LinkOf
    <3>5. new \in 0 .. new /\ 0 .. n \subseteq 0 .. new
      BY <2>7
    <3>6. rs[j].next \in 0 .. new
      BY <3>1, <3>2, <3>5 DEF LinkOf, MapOK
    <3>7. Len(rs[j].fields) <= MaxFields
      BY <3>1, <3>2 DEF LinkOf, MapOK
    <3>8. ASSUME NEW l \in DOMAIN rs[j].fields PROVE EntryOK(rs[j].fields[l], new)
      <4>1. EntryOK(ms[j].fields[l], n)
        BY <3>2, <3>4 DEF MapOK
      <4>2. PICK d : d = rs[j].fields[l]
        OBVIOUS
      <4>3. PICK c : c = ms[j].fields[l]
        OBVIOUS
      <4>4. /\ d.offset = c.offset /\ d.length = c.length
            /\ d.groups = new \/ d.groups = c.groups
            /\ d.tail = new \/ d.tail = c.tail
        BY <3>1, <3>4, <4>2, <4>3 DEF LinkOf
      <4>5. QED
        BY <3>5, <4>1, <4>2, <4>3, <4>4 DEF EntryOK
    <3>9. QED
      BY <3>6, <3>7, <3>8 DEF MapOK
  <2>11. MapOK(rs[new], new)
    <3>1. rs[new].next = 0 /\ rs[new].fields = <<>>
      BY <2>9, NewMapType
    <3>2. Len(rs[new].fields) <= MaxFields /\ DOMAIN rs[new].fields = {}
      BY <3>1, RoomAssumption
    <3>3. QED
      BY <3>1, <3>2 DEF MapOK
  <2>12. Allocated(rs) <= capacity_
    <3>1. PICK a : a = SizeOfFieldMap * n
      OBVIOUS
    <3>2. SizeOfFieldMap * new = a + SizeOfFieldMap
      BY <2>7, <3>1, RoomAssumption
    <3>3. a \in Int
      BY <3>1, RoomAssumption
    <3>4. ~(MaxMessage + a + SizeOfFieldMap > capacity_)
      BY <1>1, <1>4, <3>1 DEF ArenaFull, Allocated
    <3>5. capacity_ \in Int /\ MaxMessage \in Int /\ SizeOfFieldMap \in Int
      BY RoomAssumption DEF capacity_
    <3>6. MaxMessage + (a + SizeOfFieldMap) <= capacity_
      BY <3>3, <3>4, <3>5
    <3>7. QED
      BY <2>9, <3>2, <3>6 DEF Allocated
  <2>13. MapsOK(rs)
    <3>1. \A j \in DOMAIN rs : MapOK(rs[j], Len(rs))
      <4>1. \A j \in 1 .. new : j = new \/ j \in 1 .. n
        BY <2>7
      <4>2. QED
        BY <2>9, <2>10, <2>11, <4>1
    <3>2. Len(rs) >= 1
      BY <1>1, <2>7, <2>9
    <3>3. QED
      BY <2>9, <2>12, <3>1, <3>2 DEF MapsOK
  <2>14. new \in 2 .. Len(rs) /\ Len(rs) >= n
    BY <1>1, <2>7, <2>9
  <2>15. QED
    BY <1>1, <2>5, <2>7, <2>8, <2>13, <2>14 DEF Grown
<1>5. QED
  BY <1>3, <1>4

-----------------------------------------------------------------------------
(* The inductive invariant.                                                *)

(* Maps st and then m, which may be nullptr, lead down from the first map. *)
DownFrom(n, par, st, m) ==
  /\ st \in Seq(Nat) /\ m \in 0 .. n
  /\ \A k \in DOMAIN st : /\ st[k] \in 1 .. n
                          /\ IF k = 1 THEN st[k] = 1
                             ELSE st[k] # 1 /\ par[st[k]] = st[k - 1]
  /\ IF st = <<>> THEN m = 1
     ELSE m # 0 => m # 1 /\ par[m] = st[Len(st)]

Groups(ms, st, m) ==
  \E par, slot : Owned(ms, par, slot) /\ DownFrom(Len(ms), par, st, m)

Positions == /\ Len(stream) \in Nat
             /\ taken \in 0 .. Len(stream) /\ begin \in 0 .. taken
             /\ cp \in begin .. Len(stream)

Control == /\ closed \in BOOLEAN
           /\ status \in {"idle", "parsing", "undefined"}
           /\ outcome \in {"none", "complete", "cut"}
           /\ parses \in 0 .. MaxParses

ParserInv == Positions /\ Control /\ MapsOK(maps) /\ Groups(maps, stack, map)

(* The root map alone is a tree.                                           *)
LEMMA FirstMapIs == MapsOK(<<NewMap>>) /\ Groups(<<NewMap>>, <<>>, 1)
<1>1. PICK m \in MapType : m = NewMap /\ m.fields = <<>> /\ m.next = 0
  BY NewMapType
<1>2. PICK ms \in Seq(MapType) : ms = <<m>> /\ Len(ms) = 1 /\ ms[1] = m /\ DOMAIN ms = {1}
  <2>1. <<m>> \in Seq(MapType) /\ Len(<<m>>) = 1 /\ <<m>>[1] = m
    OBVIOUS
  <2>2. DOMAIN <<m>> = {1}
    OBVIOUS
  <2>3. QED
    BY <2>1, <2>2
<1>3. MapOK(m, 1)
  <2>1. Len(m.fields) <= MaxFields /\ DOMAIN m.fields = {}
    BY <1>1, RoomAssumption
  <2>2. QED
    BY <1>1, <2>1 DEF MapOK
<1>4. Allocated(ms) <= capacity_
  <2>1. SizeOfFieldMap * 1 = SizeOfFieldMap
    BY RoomAssumption
  <2>2. QED
    BY <1>2, <2>1, RoomAssumption DEF Allocated
<1>5. MapsOK(ms)
  <2>1. \A i \in DOMAIN ms : MapOK(ms[i], Len(ms))
    BY <1>2, <1>3
  <2>2. Len(ms) >= 1
    BY <1>2
  <2>3. QED
    BY <1>4, <2>1, <2>2 DEF MapsOK, MapSeqs
<1>6. \A par, slot : Owned(ms, par, slot)
  <2> TAKE par, slot
  <2>1. \A j \in 2 .. Len(ms) : Linked(ms, par, slot, j)
    BY <1>2
  <2>2. \A i \in DOMAIN ms : \A k \in DOMAIN ms[i].fields : FALSE
    BY <1>1, <1>2
  <2>3. QED
    BY <1>1, <1>2, <2>1, <2>2 DEF Owned
<1>7. \A par : DownFrom(1, par, <<>>, 1)
  BY DEF DownFrom
<1>8. QED
  BY <1>1, <1>2, <1>5, <1>6, <1>7 DEF Groups

(* ParserInv holds at the start.                                           *)
LEMMA ParserInitInv == ParserInit => ParserInv
<1> SUFFICES ASSUME ParserInit PROVE ParserInv
  OBVIOUS
<1>1. Positions
  <2>1. Len(stream) = 0
    BY DEF ParserInit
  <2>2. QED
    BY <2>1 DEF ParserInit, Positions
<1>2. Control
  <2>1. 0 \in 0 .. MaxParses
    BY BoundAssumption
  <2>2. QED
    BY <2>1 DEF ParserInit, Control
<1>3. QED
  BY <1>1, <1>2, FirstMapIs DEF ParserInit, ParserInv

(* A field the parser meets, when it is read within the buffer.            *)
LEMMA FieldIs ==
  ASSUME Positions, NEW f \in NextField, NEW p \in Int, p >= f.soh, Fits(p)
  PROVE  Whole(f) /\ f.soh \in cp .. Len(stream)
<1>1. PICK n \in Nat : n = Len(stream)
  BY DEF Positions
<1>2. cp \in 0 .. n /\ begin \in 0 .. cp /\ taken \in 0 .. n
  BY <1>1 DEF Positions
<1>3. /\ f \in RawFields /\ f.soh \in cp + 2 .. n
      /\ f.offset >= 1 /\ f.offset + f.length = f.soh - 1 - begin
  BY <1>1, <1>2, NextFieldIs
<1>4. MaxMessage \in Nat /\ p - begin <= MaxMessage
  BY RoomAssumption DEF Fits
<1>5. PICK o \in Nat, l \in Nat : o = f.offset /\ l = f.length
  BY <1>3 DEF RawFields
<1>6. o + l \in 1 .. MaxMessage - 1
  BY <1>2, <1>3, <1>4, <1>5
<1>7. f.soh \in cp .. n
  BY <1>2, <1>3
<1>8. QED
  BY <1>1, <1>3, <1>5, <1>6, <1>7 DEF Whole

(* Storing it leaves the groups as they were.                              *)
LEMMA GroupsAfterStore ==
  ASSUME MapsOK(maps), NEW f, Whole(f), CanStore(f),
         NEW par, NEW slot, Owned(maps, par, slot), map \in 0 .. Len(maps)
  PROVE  /\ map \in DOMAIN maps
         /\ MapsOK(Stored(f)) /\ Len(Stored(f)) = Len(maps)
         /\ Owned(Stored(f), par, slot)
         /\ find(Stored(f)[map], f.tag) # 0
<1>1. map \in DOMAIN maps /\ maps \in MapSeqs
  <2>1. Len(maps) \in Nat /\ DOMAIN maps = 1 .. Len(maps)
    BY MapSeqIs DEF MapsOK
  <2>2. QED
    BY <2>1 DEF CanStore, MapsOK
<1>2. ~Full(maps[map], f.tag)
  BY DEF CanStore
<1>3. PICK rs : rs = Stored(f)
  OBVIOUS
<1>4. /\ MapsOK(rs) /\ Len(rs) = Len(maps)
      /\ PutOf(maps[map], rs[map], f)
      /\ \A j \in DOMAIN maps : j # map => rs[j] = maps[j]
  BY <1>1, <1>2, <1>3, StoredIs
<1>5. Owned(rs, par, slot)
  <2>1. rs \in MapSeqs
    BY <1>4 DEF MapsOK
  <2>2. QED
    BY <1>1, <1>4, <2>1, OwnedAfterPut
<1>6. find(rs[map], f.tag) # 0
  <2>1. rs[map] \in MapType /\ \E k \in DOMAIN rs[map].fields : rs[map].fields[k].tag = f.tag
    BY <1>4 DEF PutOf
  <2>2. QED
    BY <2>1, FindIs
<1>7. QED
  BY <1>1, <1>3, <1>4, <1>5, <1>6

(* The map last on the stack is one of the message.                        *)
LEMMA LastIs ==
  ASSUME NEW n, NEW par, NEW st, NEW m, DownFrom(n, par, st, m), st # <<>>
  PROVE  /\ Len(st) \in Nat \ {0} /\ Last(st) = st[Len(st)] /\ Last(st) \in 1 .. n
         /\ Front(st) \in Seq(Nat) /\ Len(Front(st)) = Len(st) - 1
         /\ \A k \in 1 .. Len(st) - 1 : Front(st)[k] = st[k]
<1>1. st \in Seq(Nat) /\ \A k \in DOMAIN st : st[k] \in 1 .. n
  BY DEF DownFrom
<1>2. PICK l \in Nat : l = Len(st) /\ DOMAIN st = 1 .. l
  BY <1>1
<1>3. l # 0
  BY <1>1, <1>2
<1>4. l \in DOMAIN st
  BY <1>2, <1>3
<1>5. /\ Front(st) \in Seq(Nat) /\ Len(Front(st)) = l - 1
      /\ \A k \in 1 .. l - 1 : Front(st)[k] = st[k]
  BY <1>1, <1>2, <1>3 DEF Front
<1>6. QED
  BY <1>1, <1>2, <1>3, <1>4, <1>5 DEF Last

(* A path is a path still when more maps hang off the ones there were.     *)
LEMMA DownAfterGrowth ==
  ASSUME NEW n \in Nat, NEW o \in Nat, n <= o, NEW par, NEW p, NEW st, NEW m,
         \A j \in 2 .. n : p[j] = par[j], DownFrom(n, par, st, m)
  PROVE  DownFrom(o, p, st, m)
<1>1. st \in Seq(Nat) /\ m \in 0 .. o
  BY DEF DownFrom
<1>2. ASSUME NEW k \in DOMAIN st
      PROVE  /\ st[k] \in 1 .. o
             /\ IF k = 1 THEN st[k] = 1 ELSE st[k] # 1 /\ p[st[k]] = st[k - 1]
  <2>1. /\ st[k] \in 1 .. n
        /\ IF k = 1 THEN st[k] = 1 ELSE st[k] # 1 /\ par[st[k]] = st[k - 1]
    BY DEF DownFrom
  <2>2. st[k] # 1 => st[k] \in 2 .. n
    BY <2>1
  <2>3. QED
    BY <2>1, <2>2
<1>3. IF st = <<>> THEN m = 1 ELSE m # 0 => m # 1 /\ p[m] = st[Len(st)]
  <2>1. /\ m \in 0 .. n
        /\ IF st = <<>> THEN m = 1 ELSE m # 0 => m # 1 /\ par[m] = st[Len(st)]
    BY DEF DownFrom
  <2>2. m # 0 /\ m # 1 => m \in 2 .. n
    BY <2>1
  <2>3. QED
    BY <2>1, <2>2
<1>4. QED
  BY <1>1, <1>2, <1>3 DEF DownFrom

(* OpenGroup and NextGroup: a new map that hangs off the last on the stack,*)
(* which is where the parser goes, or nullptr.                             *)
LEMMA DownToNew ==
  ASSUME NEW n \in Nat, NEW par, NEW st, NEW m, DownFrom(n, par, st, m), st # <<>>,
         NEW new \in 0 .. n, new # 0 => new # 1 /\ par[new] = st[Len(st)]
  PROVE  DownFrom(n, par, st, new)
BY DEF DownFrom

(* A map that leads down from the stack can be put on it.                  *)
LEMMA DownToStack ==
  ASSUME NEW n \in Nat, NEW par, NEW st, NEW m, DownFrom(n, par, st, m), m # 0
  PROVE  DownFrom(n, par, Append(st, m), 0)
<1>1. st \in Seq(Nat) /\ m \in 0 .. n /\ m \in Nat
  BY DEF DownFrom
<1>2. PICK l \in Nat : l = Len(st) /\ DOMAIN st = 1 .. l
  BY <1>1
<1>3. PICK q \in Seq(Nat) :
        /\ q = Append(st, m) /\ Len(q) = l + 1 /\ DOMAIN q = 1 .. l + 1
        /\ q[l + 1] = m /\ \A k \in 1 .. l : q[k] = st[k]
  <2>1. Append(st, m) \in Seq(Nat)
    BY <1>1
  <2>2. PICK q \in Seq(Nat) : q = Append(st, m)
    BY <2>1
  <2>3. Len(q) = l + 1 /\ q[l + 1] = m /\ \A k \in 1 .. l : q[k] = st[k]
    BY <1>1, <1>2, <2>2
  <2>4. DOMAIN q = 1 .. l + 1
    BY <2>3
  <2>5. QED
    BY <2>2, <2>3, <2>4
<1>4. ASSUME NEW k \in DOMAIN q
      PROVE  /\ q[k] \in 1 .. n
             /\ IF k = 1 THEN q[k] = 1 ELSE q[k] # 1 /\ par[q[k]] = q[k - 1]
  <2>1. CASE k \in 1 .. l
    <3>1. k # 1 => k - 1 \in 1 .. l
      BY <2>1
    <3>2. QED
      BY <1>2, <1>3, <2>1, <3>1 DEF DownFrom
  <2>2. CASE k = l + 1
    <3>1. q[k] \in 1 .. n
      BY <1>1, <1>3, <2>2
    <3>2. CASE l = 0
      <4>1. st = <<>>
        BY <1>1, <1>2, <3>2
      <4>2. QED
        BY <1>3, <2>2, <3>1, <3>2, <4>1 DEF DownFrom
    <3>3. CASE l # 0
      <4>1. st # <<>> /\ k # 1 /\ k - 1 = l /\ l \in 1 .. l
        BY <1>2, <2>2, <3>3
      <4>2. m # 1 /\ par[m] = st[l]
        BY <1>2, <4>1 DEF DownFrom
      <4>3. QED
        BY <1>3, <2>2, <3>1, <4>1, <4>2
    <3>4. QED
      BY <3>2, <3>3
  <2>3. QED
    BY <1>3, <2>1, <2>2
<1>5. q # <<>>
  BY <1>3
<1>6. 0 \in 0 .. n
  OBVIOUS
<1>7. QED
  BY <1>3, <1>4, <1>5, <1>6 DEF DownFrom

(* CloseGroup.                                                             *)
LEMMA DownBack ==
  ASSUME NEW n \in Nat, NEW par, NEW st, NEW m, DownFrom(n, par, st, m), st # <<>>
  PROVE  DownFrom(n, par, Front(st), Last(st))
<1>1. PICK l \in Nat \ {0} : l = Len(st)
  BY LastIs
<1>2. PICK q \in Seq(Nat) : /\ q = Front(st) /\ Len(q) = l - 1
                            /\ \A k \in 1 .. l - 1 : q[k] = st[k]
  BY <1>1, LastIs
<1>3. PICK b \in 1 .. n : b = Last(st) /\ b = st[l]
  BY <1>1, LastIs
<1>4. DOMAIN st = 1 .. l /\ DOMAIN q = 1 .. l - 1
  BY <1>1, <1>2 DEF DownFrom
<1>5. \A k \in 1 .. l : IF k = 1 THEN st[k] = 1 ELSE st[k] # 1 /\ par[st[k]] = st[k - 1]
  BY <1>4 DEF DownFrom
<1>6. ASSUME NEW k \in DOMAIN q
      PROVE  /\ q[k] \in 1 .. n
             /\ IF k = 1 THEN q[k] = 1 ELSE q[k] # 1 /\ par[q[k]] = q[k - 1]
  <2>1. k \in 1 .. l /\ q[k] = st[k] /\ (k # 1 => q[k - 1] = st[k - 1])
    <3>1. k \in 1 .. l - 1 /\ k \in 1 .. l
      BY <1>4
    <3>2. k # 1 => k - 1 \in 1 .. l - 1
      BY <3>1
    <3>3. QED
      BY <1>2, <3>1, <3>2
  <2>2. st[k] \in 1 .. n
    BY <1>4, <2>1 DEF DownFrom
  <2>3. QED
    BY <1>5, <2>1, <2>2
<1>7. IF q = <<>> THEN b = 1 ELSE b # 0 => b # 1 /\ par[b] = q[Len(q)]
  <2>1. l \in 1 .. l
    OBVIOUS
  <2>2. CASE l = 1
    <3>1. q = <<>>
      BY <1>2, <2>2
    <3>2. QED
      BY <1>3, <1>5, <2>1, <2>2, <3>1
  <2>3. CASE l # 1
    <3>1. q # <<>> /\ l - 1 \in 1 .. l - 1
      BY <1>2, <2>3
    <3>2. b # 1 /\ par[b] = st[l - 1]
      BY <1>3, <1>5, <2>1, <2>3
    <3>3. QED
      BY <1>2, <3>1, <3>2
  <2>4. QED
    BY <2>2, <2>3
<1>8. b \in 0 .. n
  OBVIOUS
<1>9. QED
  BY <1>2, <1>3, <1>6, <1>7, <1>8 DEF DownFrom

-----------------------------------------------------------------------------
(* The steps of the parser.                                                *)

LEMMA EndOfInputInv ==
  ASSUME ParserInv, EndOfInput, stream' = stream, closed' = closed
  PROVE  ParserInv'
<1>1. Positions'
  BY DEF ParserInv, Positions, EndOfInput, ParserReturn
<1>2. Control'
  BY DEF ParserInv, Control, EndOfInput, ParserReturn
<1>3. QED
  BY <1>1, <1>2 DEF ParserInv, EndOfInput, ParserReturn

(* Undefined keeps ParserInv.                                              *)
LEMMA UndefinedInv ==
  ASSUME ParserInv, Undefined, stream' = stream, closed' = closed
  PROVE  ParserInv'
<1>1. Positions'
  BY DEF ParserInv, Positions, Undefined
<1>2. Control'
  BY DEF ParserInv, Control, Undefined
<1>3. QED
  BY <1>1, <1>2 DEF ParserInv, Undefined, groupVars

(* CheckSumField keeps ParserInv.                                          *)
LEMMA CheckSumFieldInv ==
  ASSUME ParserInv, stream' = stream, closed' = closed,
         NEW f \in NextField, CheckSumField(f)
  PROVE  ParserInv'
<1>1. Positions'
  <2>1. PICK n \in Nat : n = Len(stream)
    BY DEF ParserInv, Positions
  <2>2. taken \in 0 .. n /\ begin \in 0 .. taken /\ cp \in begin .. n
    BY <2>1 DEF ParserInv, Positions
  <2>3. f.soh \in cp .. n
    <3>1. f.soh \in Int /\ f.soh >= f.soh
      BY <2>1, <2>2, NextFieldIs
    <3>2. QED
      BY <2>1, <3>1, FieldIs DEF ParserInv, CheckSumField
  <2>4. PICK s \in Nat : s = f.soh
    BY <2>2, <2>3
  <2>5. PICK t \in Nat : t = taken
    BY <2>2
  <2>6. taken' = Max({t, s}) /\ cp' = s /\ begin' = begin
    BY <2>4, <2>5 DEF CheckSumField, ParserReturn
  <2>7. taken' \in {t, s} /\ t <= taken'
    BY <2>6, MaxOfTwo
  <2>8. taken' \in 0 .. n /\ begin \in 0 .. taken' /\ cp' \in begin .. n
    BY <2>2, <2>3, <2>4, <2>5, <2>6, <2>7
  <2>9. QED
    BY <2>1, <2>6, <2>8 DEF Positions
<1>2. Control'
  BY DEF ParserInv, Control, CheckSumField, ParserReturn
<1>3. QED
  BY <1>1, <1>2 DEF ParserInv, CheckSumField, ParserReturn

(* CutShort keeps ParserInv.                                               *)
LEMMA CutShortInv ==
  ASSUME ParserInv, stream' = stream, closed' = closed,
         NEW f \in NextField, CutShort(f)
  PROVE  ParserInv'
<1>1. PICK n \in Nat : n = Len(stream)
  BY DEF ParserInv, Positions
<1>2. taken \in 0 .. n /\ begin \in 0 .. taken /\ cp \in begin .. n
  BY <1>1 DEF ParserInv, Positions
<1>3. Whole(f) /\ f.soh \in cp .. n
  <2>1. n >= f.soh /\ n \in Int
    BY <1>1, <1>2, NextFieldIs
  <2>2. QED
    BY <1>1, <2>1, FieldIs DEF ParserInv, CutShort
<1>4. Positions'
  <2>1. taken' = n /\ cp' = f.soh /\ begin' = begin
    BY <1>1 DEF CutShort, ParserReturn
  <2>2. taken' \in 0 .. n /\ begin \in 0 .. taken' /\ cp' \in begin .. n
    BY <1>2, <1>3, <2>1
  <2>3. QED
    BY <1>1, <2>1, <2>2 DEF Positions
<1>5. Control'
  BY DEF ParserInv, Control, CutShort, ParserReturn
<1>6. MapsOK(maps') /\ Groups(maps', stack', map')
  <2>1. PICK par, slot : Owned(maps, par, slot) /\ DownFrom(Len(maps), par, stack, map)
    BY DEF ParserInv, Groups
  <2>2. map \in 0 .. Len(maps)
    BY <2>1 DEF DownFrom
  <2>3. MapsOK(Stored(f)) /\ Len(Stored(f)) = Len(maps) /\ Owned(Stored(f), par, slot)
    BY <1>3, <2>1, <2>2, GroupsAfterStore DEF ParserInv, CutShort
  <2>4. maps' = Stored(f) /\ stack' = stack /\ map' = map
    BY DEF CutShort, ParserReturn
  <2>5. QED
    BY <2>1, <2>3, <2>4 DEF Groups
<1>7. QED
  BY <1>4, <1>5, <1>6 DEF ParserInv

(* What Store leaves to the actions with it is the maps, the map and stack.*)
LEMMA StoreInv ==
  ASSUME ParserInv, stream' = stream, closed' = closed,
         NEW f \in NextField, Store(f)
  PROVE  Positions' /\ Control' /\ Whole(f) /\ CanStore(f)
<1>1. PICK n \in Nat : n = Len(stream)
  BY DEF ParserInv, Positions
<1>2. taken \in 0 .. n /\ begin \in 0 .. taken /\ cp \in begin .. n
  BY <1>1 DEF ParserInv, Positions
<1>3. f \in RawFields /\ f.soh \in cp .. n
  <2>1. f \in RawFields /\ f.soh \in cp + 2 .. n
    BY <1>1, <1>2, NextFieldIs
  <2>2. QED
    BY <1>2, <2>1
<1>4. PICK p \in Int : p = ReadTo(f) /\ p >= f.soh
  BY <1>3, ReadToIs
<1>5. p <= n /\ Fits(p) /\ CanStore(f)
  BY <1>1, <1>4 DEF Store
<1>6. Whole(f)
  BY <1>4, <1>5, FieldIs DEF ParserInv
<1>7. Positions'
  <2>1. p \in Nat /\ p \in cp .. n
    BY <1>2, <1>3, <1>4, <1>5
  <2>2. PICK t \in Nat : t = taken
    BY <1>2
  <2>3. taken' = Max({t, p}) /\ cp' = f.soh /\ begin' = begin
    BY <1>4, <2>2 DEF Store
  <2>4. taken' \in {t, p} /\ t <= taken'
    BY <2>1, <2>3, MaxOfTwo
  <2>5. taken' \in 0 .. n /\ begin \in 0 .. taken' /\ cp' \in begin .. n
    BY <1>2, <1>3, <2>1, <2>2, <2>3, <2>4
  <2>6. QED
    BY <1>1, <2>3, <2>5 DEF Positions
<1>8. Control'
  BY DEF ParserInv, Control, Store
<1>9. QED
  BY <1>5, <1>6, <1>7, <1>8

(* The stack names maps, and get finds what find does.                     *)
LEMMA EndsIn ==
  ASSUME NEW f, Ends(f), NEW par, DownFrom(Len(maps), par, stack, map)
  PROVE  /\ stack # <<>> /\ Last(stack) \in 1 .. Len(maps)
         /\ Last(stack) = stack[Len(stack)]
         /\ find(Stored(f)[Last(stack)], CountTag(f)) # 0
<1>1. stack # <<>>
  BY DEF Ends
<1>2. QED
  BY <1>1, LastIs DEF Ends, get

(* A field that is stored keeps ParserInv, whatever it does to the groups. *)
LEMMA StoreFieldInv ==
  ASSUME ParserInv, stream' = stream, closed' = closed, NEW f \in NextField,
         PlainField(f) \/ OpenGroup(f) \/ NextGroup(f) \/ CloseGroup(f)
  PROVE  ParserInv'
<1>1. Store(f)
  BY DEF PlainField, OpenGroup, NextGroup, CloseGroup
<1>2. Positions' /\ Control' /\ Whole(f) /\ CanStore(f)
  BY <1>1, StoreInv
<1>3. PICK n \in Nat : n = Len(maps) /\ DOMAIN maps = 1 .. n
  BY MapSeqIs DEF ParserInv, MapsOK
<1>4. PICK par, slot : Owned(maps, par, slot) /\ DownFrom(n, par, stack, map)
  BY <1>3 DEF ParserInv, Groups
<1>5. map \in 0 .. n
  BY <1>4 DEF DownFrom
<1>6. PICK ms : ms = Stored(f)
  OBVIOUS
<1>7. /\ map \in DOMAIN maps /\ MapsOK(ms) /\ Len(ms) = n
      /\ Owned(ms, par, slot) /\ find(ms[map], f.tag) # 0
  BY <1>2, <1>3, <1>4, <1>5, <1>6, GroupsAfterStore DEF ParserInv
<1>8. AddedMap(maps) = AddedMap(ms) /\ DOMAIN ms = 1 .. n
  <2>1. AddedMap(maps) = AddedMap(ms)
    BY <1>3, <1>7 DEF AddedMap, ArenaFull, Allocated
  <2>2. ms \in MapSeqs
    BY <1>7 DEF MapsOK
  <2>3. QED
    BY <1>7, <2>1, <2>2, MapSeqIs
<1>9. ASSUME NEW i \in 1 .. n, NEW t, find(ms[i], t) # 0, NEW st,
             st # <<>>, DownFrom(n, par, st, 0), st[Len(st)] = i
      PROVE  MapsOK(addGroup(ms, i, t)) /\ Groups(addGroup(ms, i, t), st, AddedMap(ms))
  <2>1. PICK rs : rs = addGroup(ms, i, t)
    OBVIOUS
  <2>2. PICK new : new = AddedMap(ms)
    OBVIOUS
  <2>3. Grown(ms, rs, i, par, new)
    BY <1>7, <1>8, <1>9, <2>1, <2>2, AddGroupIs
  <2>4. MapsOK(rs) /\ Len(rs) >= n
    BY <1>7, <2>3 DEF Grown
  <2>5. PICK p, s : /\ Owned(rs, p, s)
                    /\ \A j \in 2 .. n : p[j] = par[j]
                    /\ new # 0 => new \in 2 .. Len(rs) /\ p[new] = i
    BY <1>7, <2>3 DEF Grown
  <2>6. PICK o \in Nat : o = Len(rs) /\ n <= o
    BY <2>4, MapSeqIs DEF MapsOK
  <2>7. DownFrom(o, p, st, 0)
    BY <1>9, <2>5, <2>6, DownAfterGrowth
  <2>8. new \in 0 .. o /\ (new # 0 => new # 1 /\ p[new] = st[Len(st)])
    BY <1>9, <2>5, <2>6
  <2>9. DownFrom(o, p, st, new)
    BY <1>9, <2>7, <2>8, DownToNew
  <2>10. QED
    BY <2>1, <2>2, <2>4, <2>5, <2>6, <2>9 DEF Groups
<1>10. CASE PlainField(f)
  <2>1. maps' = ms /\ map' = map /\ stack' = stack
    BY <1>6, <1>10 DEF PlainField
  <2>2. QED
    BY <1>2, <1>4, <1>7, <2>1 DEF ParserInv, Groups
<1>11. CASE OpenGroup(f)
  <2>1. maps' = addGroup(ms, map, f.tag) /\ map' = AddedMap(ms) /\ stack' = Append(stack, map)
    BY <1>6, <1>8, <1>11 DEF OpenGroup
  <2>2. PICK st : st = Append(stack, map)
    OBVIOUS
  <2>3. map # 0
    BY <1>3, <1>7
  <2>4. DownFrom(n, par, st, 0)
    BY <1>4, <2>2, <2>3, DownToStack
  <2>5. st # <<>> /\ st[Len(st)] = map
    <3>1. stack \in Seq(Nat) /\ map \in Nat
      BY <1>4, <1>5 DEF DownFrom
    <3>2. QED
      BY <2>2, <3>1
  <2>6. MapsOK(maps') /\ Groups(maps', st, map')
    BY <1>3, <1>7, <1>9, <2>1, <2>4, <2>5
  <2>7. QED
    BY <1>2, <2>1, <2>2, <2>6 DEF ParserInv
<1>12. CASE NextGroup(f)
  <2>1. PICK i : i = Last(stack)
    OBVIOUS
  <2>2. PICK t : t = CountTag(f)
    OBVIOUS
  <2>3. maps' = addGroup(ms, i, t) /\ map' = AddedMap(ms) /\ stack' = stack
    BY <1>6, <1>8, <1>12, <2>1, <2>2 DEF NextGroup
  <2>4. stack # <<>> /\ i \in 1 .. n /\ i = stack[Len(stack)] /\ find(ms[i], t) # 0
    BY <1>3, <1>4, <1>6, <1>12, <2>1, <2>2, EndsIn DEF NextGroup
  <2>5. DownFrom(n, par, stack, 0)
    <3>1. 0 \in 0 .. n
      OBVIOUS
    <3>2. QED
      BY <1>4, <2>4, <3>1, DownToNew
  <2>6. MapsOK(maps') /\ Groups(maps', stack, map')
    BY <1>9, <2>3, <2>4, <2>5
  <2>7. QED
    BY <1>2, <2>3, <2>6 DEF ParserInv
<1>13. CASE CloseGroup(f)
  <2>1. maps' = ms /\ map' = Last(stack) /\ stack' = Front(stack)
    BY <1>6, <1>13 DEF CloseGroup
  <2>2. stack # <<>>
    BY <1>13 DEF CloseGroup, Ends
  <2>3. DownFrom(n, par, Front(stack), Last(stack))
    BY <1>4, <2>2, DownBack
  <2>4. QED
    BY <1>2, <1>7, <2>1, <2>3 DEF ParserInv, Groups
<1>14. QED
  BY <1>10, <1>11, <1>12, <1>13

(* Every turn of the loop of parse keeps ParserInv.                        *)
LEMMA ParserStepInv == ParserInv /\ ParserStep => ParserInv'
<1> SUFFICES ASSUME ParserInv, ParserStep PROVE ParserInv'
  OBVIOUS
<1>1. stream' = stream /\ closed' = closed
  BY DEF ParserStep
<1>2. CASE EndOfInput
  BY <1>1, <1>2, EndOfInputInv
<1>3. CASE Undefined
  BY <1>1, <1>3, UndefinedInv
<1>4. ASSUME NEW f \in NextField, ReadField(f) PROVE ParserInv'
  <2>1. CASE CheckSumField(f)
    BY <1>1, <2>1, CheckSumFieldInv
  <2>2. CASE CutShort(f)
    BY <1>1, <2>2, CutShortInv
  <2>3. CASE PlainField(f) \/ OpenGroup(f) \/ NextGroup(f) \/ CloseGroup(f)
    BY <1>1, <2>3, StoreFieldInv
  <2>4. QED
    BY <1>4, <2>1, <2>2, <2>3 DEF ReadField
<1>5. QED
  BY <1>2, <1>3, <1>4 DEF ParserStep

(* A call of parse keeps ParserInv.                                        *)
LEMMA ParserCallInv == ParserInv /\ ParserCall => ParserInv'
<1> SUFFICES ASSUME ParserInv, ParserCall PROVE ParserInv'
  OBVIOUS
<1>1. Positions'
  BY DEF ParserInv, Positions, ParserCall, Parse
<1>2. Control'
  <2>1. parses' \in 0 .. MaxParses
    BY BoundAssumption DEF ParserInv, Control, ParserCall, Parse
  <2>2. QED
    BY <2>1 DEF ParserInv, Control, ParserCall, Parse
<1>3. QED
  BY <1>1, <1>2, FirstMapIs DEF ParserInv, ParserCall, Parse

(* With a stream of bytes it is kept by the steps of others, too: bytes    *)
(* that arrive while the parser does nothing.                              *)
StreamInv == stream \in Seq(Byte) /\ ParserInv

(* Bytes that arrive keep StreamInv,                                       *)
LEMMA BytesArrive ==
  ASSUME StreamInv, NEW q \in Seq(Byte), stream' = stream \o q,
         closed' \in BOOLEAN, UNCHANGED parserVars
  PROVE  StreamInv'
<1>1. PICK s \in Seq(Byte) : s = stream
  BY DEF StreamInv
<1>2. stream' \in Seq(Byte) /\ Len(stream') = Len(stream) + Len(q)
  BY <1>1
<1>3. Len(stream') \in Nat /\ Len(stream) <= Len(stream')
  BY <1>1, <1>2
<1>4. Positions'
  BY <1>3 DEF StreamInv, ParserInv, Positions, parserVars
<1>5. Control'
  BY DEF StreamInv, ParserInv, Control, parserVars
<1>6. QED
  BY <1>2, <1>4, <1>5 DEF StreamInv, ParserInv, parserVars, groupVars

(* and so does the peer when it hangs up.                                  *)
LEMMA NothingArrives ==
  ASSUME StreamInv, stream' = stream, closed' = closed, UNCHANGED parserVars
  PROVE  StreamInv'
<1>1. stream' = stream \o <<>> /\ closed' \in BOOLEAN
  BY DEF StreamInv, ParserInv, Control
<1>2. <<>> \in Seq(Byte)
  OBVIOUS
<1>3. QED
  BY <1>1, <1>2, BytesArrive

(* StreamInv holds at the start.                                           *)
LEMMA StreamInitInv == ParserInit => StreamInv
BY ParserInitInv DEF ParserInit, StreamInv

(* The parser keeps StreamInv.                                             *)
LEMMA ParserInvKept == StreamInv /\ (ParserStep \/ ParserCall) => StreamInv'
BY ParserStepInv, ParserCallInv DEF StreamInv, ParserStep, ParserCall

-----------------------------------------------------------------------------
(* What the invariant says.                                                *)

LEMMA InvIsTyped == StreamInv => ParserTypeOK
<1> SUFFICES ASSUME ParserInv PROVE ParserTypeOK
  BY DEF StreamInv
<1>1. PICK n \in Nat : n = Len(maps) /\ DOMAIN maps = 1 .. n
  BY MapSeqIs DEF ParserInv, MapsOK
<1>2. PICK par : DownFrom(n, par, stack, map)
  BY <1>1 DEF ParserInv, Groups
<1>3. map \in Maps /\ \A k \in DOMAIN stack : stack[k] \in DOMAIN maps
  BY <1>1, <1>2 DEF DownFrom, Maps
<1>4. cp \in 0 .. Len(stream)
  BY DEF ParserInv, Positions
<1>5. ASSUME NEW i \in DOMAIN maps
      PROVE  /\ maps[i].next \in Maps
             /\ Len(maps[i].fields) <= MaxFields
             /\ \A k \in DOMAIN maps[i].fields :
                  LET e == maps[i].fields[k] IN
                  /\ e.tag \in KnownTags \cup {INVALID}
                  /\ e.offset + e.length \in 1 .. MaxMessage - 1
                  /\ e.groups \in Maps /\ e.tail \in Maps
  <2>1. MapOK(maps[i], n)
    BY <1>1 DEF ParserInv, MapsOK
  <2>2. ASSUME NEW k \in DOMAIN maps[i].fields
        PROVE  maps[i].fields[k].tag \in KnownTags \cup {INVALID}
    BY MapSeqIs DEF ParserInv, MapsOK, EntryType, Tags
  <2>3. QED
    BY <1>1, <2>1, <2>2 DEF MapOK, EntryOK, Maps
<1>6. QED
  BY <1>3, <1>4, <1>5 DEF ParserTypeOK, ParserInv, Positions, Control, MapsOK

(* The groups are a tree where each map is owned by one field.             *)
LEMMA InvIsATree == StreamInv => GroupsAreATree
<1> SUFFICES ASSUME ParserInv PROVE GroupsAreATree
  BY DEF StreamInv
<1>1. PICK n \in Nat : n = Len(maps) /\ DOMAIN maps = 1 .. n
  BY MapSeqIs DEF ParserInv, MapsOK
<1>2. PICK par, slot : Owned(maps, par, slot) /\ DownFrom(n, par, stack, map)
  BY <1>1 DEF ParserInv, Groups
<1>3. /\ \A j \in DOMAIN maps :
           Owners(j) = IF j = 1 THEN {} ELSE {<<par[j], slot[j]>>}
      /\ \A i \in DOMAIN maps : \A e \in Range(maps[i].fields) :
           e.groups # 0 => e.tail = Last(ListOf(e))
      /\ \A j \in 2 .. n : j \in Children(par[j])
  BY <1>1, <1>2, TreeIs DEF ParserInv
<1>4. \A j \in DOMAIN maps : Cardinality(Owners(j)) = IF j = 1 THEN 0 ELSE 1
  BY <1>3, FS_EmptySet, FS_Singleton
<1>5. stack \in Seq(Nat) /\ map \in 0 .. n
  BY <1>2 DEF DownFrom
<1>6. PICK l \in Nat : l = Len(stack) /\ DOMAIN stack = 1 .. l
  BY <1>5
<1>7. PICK path \in Seq(Nat) : path = Append(stack, map)
  <2>1. Append(stack, map) \in Seq(Nat)
    BY <1>5
  <2>2. QED
    BY <2>1
<1>8. path[l + 1] = map /\ \A k \in 1 .. l : path[k] = stack[k]
  BY <1>5, <1>6, <1>7
<1>9. path[1] \in {0, 1}
  <2>1. CASE l = 0
    <3>1. stack = <<>>
      BY <1>5, <1>6, <2>1
    <3>2. map = 1
      BY <1>2, <3>1 DEF DownFrom
    <3>3. QED
      BY <1>8, <2>1, <3>2
  <2>2. CASE l # 0
    <3>1. 1 \in 1 .. l
      BY <2>2
    <3>2. stack[1] = 1
      BY <1>2, <1>6, <3>1 DEF DownFrom
    <3>3. QED
      BY <1>8, <3>1, <3>2
  <2>3. QED
    BY <2>1, <2>2
<1>10. ASSUME NEW k \in DOMAIN stack PROVE path[k + 1] \in Children(path[k]) \cup {0}
  <2>1. k \in 1 .. l /\ path[k] = stack[k]
    BY <1>6, <1>8
  <2>2. CASE k = l
    <3>1. stack # <<>>
      BY <1>6, <2>1
    <3>2. map # 0 => map # 1 /\ par[map] = stack[l]
      BY <1>2, <1>6, <3>1 DEF DownFrom
    <3>3. map # 0 => map \in 2 .. n
      BY <1>5, <3>2
    <3>4. QED
      BY <1>3, <1>8, <2>1, <2>2, <3>2, <3>3
  <2>3. CASE k # l
    <3>1. PICK q \in 1 .. l : q = k + 1 /\ q # 1 /\ q - 1 = k
      <4>1. k + 1 \in 1 .. l /\ k + 1 # 1 /\ (k + 1) - 1 = k
        BY <2>1, <2>3
      <4>2. QED
        BY <4>1
    <3>2. stack[q] \in 1 .. n /\ stack[q] # 1 /\ par[stack[q]] = stack[k]
      BY <1>2, <1>6, <3>1 DEF DownFrom
    <3>3. stack[q] \in 2 .. n
      BY <3>2
    <3>4. QED
      BY <1>3, <1>8, <2>1, <3>1, <3>2, <3>3
  <2>4. QED
    BY <2>2, <2>3
<1>11. QED
  BY <1>3, <1>4, <1>7, <1>9, <1>10 DEF GroupsAreATree

-----------------------------------------------------------------------------
(* Sequences that are put together and taken apart.                        *)

(* c is q and then r;                                                      *)
Joined(S, q, r, c) == /\ c \in Seq(S) /\ Len(c) = Len(q) + Len(r)
                      /\ \A i \in 1 .. Len(q) : c[i] = q[i]
                      /\ \A i \in 1 .. Len(r) : c[Len(q) + i] = r[i]

(* c is the part of q from a to b.                                         *)
PartOf(S, q, a, b, c) == /\ c \in Seq(S) /\ Len(c) = b - a + 1
                         /\ \A i \in 1 .. b - a + 1 : c[i] = q[a + i - 1]

LEMMA ConcatIs ==
  ASSUME NEW S, NEW q \in Seq(S), NEW r \in Seq(S)
  PROVE  Joined(S, q, r, q \o r)
<1>1. PICK m \in Nat, l \in Nat : m = Len(q) /\ l = Len(r)
  OBVIOUS
<1>2. /\ q \o r \in Seq(S) /\ Len(q \o r) = m + l
      /\ \A i \in 1 .. m + l : (q \o r)[i] = IF i <= m THEN q[i] ELSE r[i - m]
  BY <1>1, ConcatProperties
<1>3. PICK c \in Seq(S) : c = q \o r
  BY <1>2
<1>4. \A i \in 1 .. m : c[i] = q[i]
  BY <1>2, <1>3
<1>5. ASSUME NEW i \in 1 .. l PROVE c[m + i] = r[i]
  <2>1. m + i \in 1 .. m + l /\ ~(m + i <= m) /\ (m + i) - m = i
    OBVIOUS
  <2>2. QED
    BY <1>2, <1>3, <2>1
<1>6. QED
  BY <1>1, <1>2, <1>3, <1>4, <1>5 DEF Joined

(* A part of a sequence is that.                                           *)
LEMMA PartIs ==
  ASSUME NEW S, NEW q \in Seq(S), NEW a \in 1 .. Len(q) + 1, NEW b \in 0 .. Len(q),
         a <= b + 1
  PROVE  PartOf(S, q, a, b, SubSeq(q, a, b))
<1>1. PICK n \in Nat : n = Len(q) /\ a \in 1 .. n + 1 /\ b \in 0 .. n
  OBVIOUS
<1>2. a \in Int /\ b \in Int /\ \A i \in a .. b : q[i] \in S
  BY <1>1
<1>3. /\ SubSeq(q, a, b) \in Seq(S)
      /\ Len(SubSeq(q, a, b)) = IF a <= b THEN b - a + 1 ELSE 0
      /\ \A i \in 1 .. b - a + 1 : SubSeq(q, a, b)[i] = q[a + i - 1]
  BY <1>2, SubSeqProperties
<1>4. ~(a <= b) => b - a + 1 = 0
  BY <1>1
<1>5. QED
  BY <1>3, <1>4 DEF PartOf

-----------------------------------------------------------------------------
(* Reading what was written.  A field is clear when its tag is no delimiter*)
(* and its value does not hold the one that ends it.                       *)
Clear(g) == /\ g \in Fields /\ g.tag # EQ
            /\ \A i \in DOMAIN g.value : g.value[i] # SOH

(* The bytes q are on the stream after position p, as far as it goes.      *)
Shows(p, q) == \A i \in 1 .. Len(q) : p + i <= Len(stream) => stream[p + i] = q[i]

(* Scanning stops at the first byte that is looked for.                    *)
LEMMA AfterFirst ==
  ASSUME NEW n \in Nat, n = Len(stream), NEW p \in Nat, NEW b, NEW q \in p + 1 .. n,
         stream[q] = b, \A r \in p + 1 .. q - 1 : stream[r] # b
  PROVE  Holds(p, b) /\ After(p, b) = q
<1>1. Holds(p, b)
  BY DEF Holds
<1>2. ASSUME NEW u \in p + 1 .. Len(stream), stream[u] = b,
             \A r \in p + 1 .. u - 1 : stream[r] # b
      PROVE  u = q
  <2>1. ~(u < q) /\ ~(q < u)
    BY <1>2
  <2>2. QED
    BY <2>1
<1>3. PICK u : u = After(p, b)
  OBVIOUS
<1>4. u \in p + 1 .. Len(stream) /\ stream[u] = b /\ \A r \in p + 1 .. u - 1 : stream[r] # b
  <2>1. \E v \in p + 1 .. Len(stream) : stream[v] = b /\ \A r \in p + 1 .. v - 1 : stream[r] # b
    OBVIOUS
  <2>2. QED
    BY <1>3, <2>1 DEF After
<1>5. QED
  BY <1>1, <1>2, <1>3, <1>4

(* The bytes of a field, one by one.                                       *)
LEMMA BytesAre ==
  ASSUME NEW g \in Fields
  PROVE  LET v == Len(g.value)
             q == Bytes(g)
         IN  /\ v \in Nat /\ DOMAIN g.value = 1 .. v
             /\ q \in Seq(Byte) /\ Len(q) = v + 3
             /\ q[1] = g.tag /\ q[2] = EQ /\ q[v + 3] = SOH
             /\ \A i \in 1 .. v : q[i + 2] = g.value[i]
<1>1. PICK w \in Seq(Byte), t \in Byte : w = g.value /\ t = g.tag
  BY DEF Fields
<1>2. PICK v \in Nat : v = Len(w) /\ DOMAIN w = 1 .. v
  BY <1>1
<1>3. EQ \in Byte /\ SOH \in Byte
  BY DEF Byte
<1> HIDE DEF Byte
<1>4. PICK h \in Seq(Byte) : h = <<t, EQ>> /\ Len(h) = 2 /\ h[1] = t /\ h[2] = EQ
  <2>1. <<t, EQ>> \in Seq(Byte) /\ Len(<<t, EQ>>) = 2
    BY <1>3
  <2>2. <<t, EQ>>[1] = t /\ <<t, EQ>>[2] = EQ
    OBVIOUS
  <2>3. QED
    BY <2>1, <2>2
<1>5. PICK d \in Seq(Byte) : d = <<SOH>> /\ Len(d) = 1 /\ d[1] = SOH
  <2>1. <<SOH>> \in Seq(Byte) /\ Len(<<SOH>>) = 1 /\ <<SOH>>[1] = SOH
    BY <1>3
  <2>2. QED
    BY <2>1
<1>6. PICK r \in Seq(Byte) : r = h \o w /\ Joined(Byte, h, w, r)
  <2>1. Joined(Byte, h, w, h \o w)
    BY ConcatIs
  <2>2. h \o w \in Seq(Byte)
    BY <2>1 DEF Joined
  <2>3. QED
    BY <2>1, <2>2
<1>7. /\ Len(r) = v + 2 /\ r[1] = t /\ r[2] = EQ
      /\ \A i \in 1 .. v : r[2 + i] = w[i]
  BY <1>2, <1>4, <1>6 DEF Joined
<1>8. PICK q \in Seq(Byte) : q = r \o d /\ Joined(Byte, r, d, q)
  <2>1. Joined(Byte, r, d, r \o d)
    BY ConcatIs
  <2>2. r \o d \in Seq(Byte)
    BY <2>1 DEF Joined
  <2>3. QED
    BY <2>1, <2>2
<1>9. /\ Len(q) = v + 3 /\ q[v + 3] = SOH
      /\ \A i \in 1 .. v + 2 : q[i] = r[i]
  <2>1. Len(d) = 1 /\ Len(r) = v + 2 /\ 1 \in 1 .. Len(d) /\ (v + 2) + 1 = v + 3
    BY <1>5, <1>7
  <2>2. QED
    BY <1>5, <1>8, <2>1 DEF Joined
<1>10. q[1] = t /\ q[2] = EQ /\ \A i \in 1 .. v : q[i + 2] = w[i]
  <2>1. \A i \in 1 .. v : 2 + i \in 1 .. v + 2 /\ i + 2 = 2 + i
    OBVIOUS
  <2>2. QED
    BY <1>7, <1>9, <2>1
<1>11. q = Bytes(g)
  BY <1>1, <1>4, <1>5, <1>6, <1>8 DEF Bytes
<1>12. QED
  BY <1>1, <1>2, <1>9, <1>10, <1>11

(* What NextField makes of field g when it stands after position p.        *)
Seen(g, p) == [tag |-> stoft(<<g.tag>>), soh |-> p + Len(Bytes(g)),
               offset |-> p + 2 - begin, length |-> Len(g.value)]

(* A clear field is what the parser meets, and before the whole of it is on*)
(* the stream, nothing is.                                                 *)
LEMMA NextIs ==
  ASSUME StreamInv, NEW g, Clear(g), Shows(cp, Bytes(g))
  PROVE  NextField = IF cp + Len(Bytes(g)) <= Len(stream) THEN {Seen(g, cp)} ELSE {}
<1>1. PICK n \in Nat : n = Len(stream)
  BY DEF StreamInv, ParserInv, Positions
<1>2. PICK s \in Seq(Byte) : s = stream
  BY DEF StreamInv
<1>3. cp \in 0 .. n /\ cp \in Nat /\ begin \in 0 .. cp
  BY <1>1 DEF StreamInv, ParserInv, Positions
<1>4. PICK p \in Nat : p = cp
  BY <1>3
<1>5. PICK v \in Nat, q \in Seq(Byte), w \in Seq(Byte) :
        /\ v = Len(w) /\ w = g.value /\ DOMAIN w = 1 .. v /\ q = Bytes(g) /\ Len(q) = v + 3
        /\ q[1] = g.tag /\ q[2] = EQ /\ q[v + 3] = SOH
        /\ \A i \in 1 .. v : q[i + 2] = w[i]
  <2>1. g \in Fields
    BY DEF Clear
  <2>2. g.value \in Seq(Byte)
    BY <2>1 DEF Fields
  <2>3. QED
    BY <2>1, <2>2, BytesAre
<1>6. \A i \in 1 .. v + 3 : p + i <= n => s[p + i] = q[i]
  BY <1>1, <1>2, <1>4, <1>5 DEF Shows
<1>7. g.tag # EQ /\ \A i \in 1 .. v : w[i] # SOH
  BY <1>5 DEF Clear
<1>8. p + 1 <= n => s[p + 1] # EQ
  BY <1>5, <1>6, <1>7
<1>9. p + 2 <= n => Holds(p, EQ) /\ After(p, EQ) = p + 2
  <2>1. SUFFICES ASSUME p + 2 <= n PROVE Holds(p, EQ) /\ After(p, EQ) = p + 2
    OBVIOUS
  <2>2. s[p + 2] = EQ
    <3>1. 2 \in 1 .. v + 3
      OBVIOUS
    <3>2. s[p + 2] = q[2]
      BY <1>6, <2>1, <3>1
    <3>3. QED
      BY <1>5, <3>2
  <2>3. \A r \in p + 1 .. (p + 2) - 1 : s[r] # EQ
    BY <1>8, <2>1
  <2>4. p + 2 \in p + 1 .. n
    BY <2>1
  <2>5. QED
    BY <1>1, <1>2, <2>2, <2>3, <2>4, AfterFirst
<1>10. \A r \in p + 3 .. p + v + 2 : r <= n => s[r] # SOH
  <2> TAKE r \in p + 3 .. p + v + 2
  <2> HAVE r <= n
  <2>1. PICK i \in 1 .. v : r = p + (i + 2)
    <3>1. r - p - 2 \in 1 .. v /\ r = p + ((r - p - 2) + 2)
      OBVIOUS
    <3>2. QED
      BY <3>1
  <2>2. i + 2 \in 1 .. v + 3
    OBVIOUS
  <2>3. s[r] = q[i + 2]
    BY <1>6, <2>1, <2>2
  <2>4. QED
    BY <1>5, <1>7, <2>3
<1>11. CASE p + (v + 3) <= n
  <2>1. s[p + (v + 3)] = SOH
    BY <1>5, <1>6, <1>11
  <2>2. Holds(p + 2, SOH) /\ After(p + 2, SOH) = p + (v + 3)
    <3>1. p + (v + 3) \in (p + 2) + 1 .. n /\ p + 2 \in Nat
      BY <1>11
    <3>2. \A r \in (p + 2) + 1 .. (p + (v + 3)) - 1 : s[r] # SOH
      BY <1>10, <1>11
    <3>3. QED
      BY <1>1, <1>2, <2>1, <3>1, <3>2, AfterFirst
  <2>3. SubSeq(s, p + 1, (p + 2) - 1) = <<g.tag>>
    <3>1. (p + 2) - 1 = p + 1 /\ p + 1 \in 1 .. n /\ s[p + 1] = g.tag
      BY <1>5, <1>6, <1>11
    <3>2. PICK c \in Seq(Byte) : c = SubSeq(s, p + 1, p + 1) /\ Len(c) = 1 /\ c[1] = s[p + 1]
      <4>1. p + 1 \in 1 .. Len(s) + 1 /\ p + 1 \in 0 .. Len(s) /\ p + 1 <= (p + 1) + 1
        BY <1>1, <1>2, <3>1
      <4>2. PartOf(Byte, s, p + 1, p + 1, SubSeq(s, p + 1, p + 1))
        BY <4>1, PartIs
      <4>3. (p + 1) - (p + 1) + 1 = 1 /\ 1 \in 1 .. 1 /\ (p + 1) + 1 - 1 = p + 1
        OBVIOUS
      <4>4. QED
        BY <4>2, <4>3 DEF PartOf
    <3>3. c = <<g.tag>>
      <4>1. PICK t \in Byte : t = g.tag
        BY DEF Clear, Fields
      <4>2. PICK d \in Seq(Byte) : d = <<t>> /\ Len(d) = 1 /\ d[1] = t
        <5> HIDE DEF Byte
        <5>1. <<t>> \in Seq(Byte) /\ Len(<<t>>) = 1 /\ <<t>>[1] = t
          OBVIOUS
        <5>2. QED
          BY <5>1
      <4>3. Len(d) = 1 /\ d[1] = t
        BY <4>2
      <4>4. Len(c) = Len(d) /\ \A i \in 1 .. Len(c) : c[i] = d[i]
        BY <3>1, <3>2, <4>1, <4>3
      <4>5. c = d
        BY <4>4, SeqEqual, Zenon
      <4>6. QED
        BY <4>1, <4>2, <4>5
    <3>4. QED
      BY <3>1, <3>2, <3>3
  <2>4. NextField = {[tag |-> stoft(<<g.tag>>), soh |-> p + (v + 3),
                      offset |-> (p + 2) - begin, length |-> (p + (v + 3)) - 1 - (p + 2)]}
    <3>1. p + 2 <= n
      BY <1>11
    <3>2. QED
      BY <1>2, <1>4, <1>9, <2>2, <2>3, <3>1 DEF NextField
  <2>5. (p + (v + 3)) - 1 - (p + 2) = v
    OBVIOUS
  <2>6. NextField = {Seen(g, cp)}
    <3>1. Seen(g, cp) = [tag |-> stoft(<<g.tag>>), soh |-> p + (v + 3),
                         offset |-> (p + 2) - begin, length |-> v]
      <4>1. cp + Len(Bytes(g)) = p + (v + 3) /\ Len(g.value) = v
        BY <1>4, <1>5
      <4>2. cp + 2 - begin = (p + 2) - begin
        BY <1>3, <1>4
      <4>3. Seen(g, cp) = [tag |-> stoft(<<g.tag>>), soh |-> cp + Len(Bytes(g)),
                           offset |-> cp + 2 - begin, length |-> Len(g.value)]
        BY Zenon DEF Seen
      <4>4. QED
        BY <4>1, <4>2, <4>3, Zenon
    <3>2. QED
      BY <2>4, <2>5, <3>1
  <2>7. QED
    BY <1>1, <1>4, <1>5, <1>11, <2>6
<1>12. CASE ~(p + (v + 3) <= n)
  <2>1. CASE p + 2 <= n
    <3>1. ~Holds(p + 2, SOH)
      <4>1. \A r \in (p + 2) + 1 .. n : s[r] # SOH
        BY <1>10, <1>12
      <4>2. QED
        BY <1>1, <1>2, <4>1 DEF Holds
    <3>2. NextField = {}
      BY <1>4, <1>9, <2>1, <3>1 DEF NextField
    <3>3. QED
      BY <1>1, <1>4, <1>5, <1>12, <3>2
  <2>2. CASE ~(p + 2 <= n)
    <3>1. \A r \in p + 1 .. n : s[r] # EQ
      BY <1>8, <2>2
    <3>2. ~Holds(p, EQ)
      BY <1>1, <1>2, <3>1 DEF Holds
    <3>3. NextField = {}
      BY <1>4, <3>2 DEF NextField
    <3>4. QED
      BY <1>1, <1>4, <1>5, <1>12, <3>3
  <2>3. QED
    BY <2>1, <2>2
<1>13. QED
  BY <1>11, <1>12

(* The tag it has is the one it was written with, when that is known.      *)
LEMMA StoftIs ==
  \A t : /\ stoft(<<t>>) = CheckSum <=> t = CheckSum
         /\ stoft(<<t>>) = BodyLength <=> t = BodyLength
         /\ t \in KnownTags => stoft(<<t>>) = t
<1> TAKE t
<1>1. stoft(<<t>>) = IF t \in KnownTags THEN t ELSE INVALID
  BY DEF stoft
<1>2. INVALID # CheckSum /\ INVALID # BodyLength
  BY DEF INVALID, CheckSum, BodyLength
<1>3. QED
  BY <1>1, <1>2, TagAssumption

(* The value of a field that refers to bytes on the stream.                *)
LEMMA ValueIs ==
  ASSUME stream \in Seq(Byte), begin \in Nat, NEW p \in Nat, p >= begin, NEW g \in Fields,
         Shows(p, Bytes(g)), p + Len(Bytes(g)) <= Len(stream),
         NEW e, e.offset = p + 2 - begin, e.length = Len(g.value)
  PROVE  ValueOf(e) = g.value
<1>1. PICK s \in Seq(Byte), n \in Nat : s = stream /\ n = Len(s)
  OBVIOUS
<1>2. PICK b \in Nat : b = begin
  OBVIOUS
<1>3. PICK v \in Nat, q \in Seq(Byte), w \in Seq(Byte) :
        /\ v = Len(w) /\ w = g.value /\ DOMAIN w = 1 .. v /\ q = Bytes(g) /\ Len(q) = v + 3
        /\ \A i \in 1 .. v : q[i + 2] = w[i]
  <2>1. g.value \in Seq(Byte)
    BY DEF Fields
  <2>2. QED
    BY <2>1, BytesAre
<1>4. \A i \in 1 .. v + 3 : p + i <= n => s[p + i] = q[i]
  BY <1>1, <1>3 DEF Shows
<1>5. p + v + 3 <= n
  BY <1>1, <1>3
<1>6. \A i \in 1 .. v : s[p + (i + 2)] = w[i]
  BY <1>3, <1>4, <1>5
<1>7. PICK l \in Nat, h \in Nat : l = p + 3 /\ h = p + 2 + v
  OBVIOUS
<1>8. PICK x \in Seq(Byte) : x = SubSeq(s, l, h) /\ Len(x) = v /\ \A i \in 1 .. v : x[i] = s[l + i - 1]
  <2>1. l \in 1 .. Len(s) + 1 /\ h \in 0 .. Len(s) /\ l <= h + 1 /\ h - l + 1 = v
    BY <1>1, <1>5, <1>7
  <2>2. PartOf(Byte, s, l, h, SubSeq(s, l, h))
    BY <2>1, PartIs
  <2>3. QED
    BY <2>1, <2>2 DEF PartOf
<1>9. \A i \in 1 .. v : l + i - 1 = p + (i + 2)
  BY <1>7
<1>10. \A i \in 1 .. v : x[i] = w[i]
  BY <1>6, <1>8, <1>9
<1>11. x = w
  BY <1>3, <1>8, <1>10, SeqEqual
<1>12. ValueOf(e) = SubSeq(s, l, h)
  <2>1. b + (p + 2 - b) + 1 = l /\ b + (p + 2 - b) + v = h
    BY <1>7
  <2>2. ValueOf(e) = SubSeq(s, b + (p + 2 - b) + 1, b + (p + 2 - b) + v)
    BY <1>1, <1>2, <1>3 DEF ValueOf
  <2>3. QED
    BY <2>1, <2>2
<1>13. QED
  BY <1>3, <1>8, <1>11, <1>12

(* Bytes after bytes are on the stream one after the other.                *)
LEMMA ShowsParts ==
  ASSUME NEW p \in Nat, NEW q \in Seq(Byte), NEW r \in Seq(Byte), Shows(p, q \o r),
         Len(stream) \in Nat
  PROVE  Shows(p, q) /\ Shows(p + Len(q), r)
<1>1. PICK m \in Nat, l \in Nat : m = Len(q) /\ l = Len(r)
  OBVIOUS
<1>2. PICK x \in Seq(Byte) :
        /\ x = q \o r /\ Len(x) = m + l
        /\ \A i \in 1 .. m : x[i] = q[i]
        /\ \A i \in 1 .. l : x[m + i] = r[i]
  <2>1. Joined(Byte, q, r, q \o r)
    BY ConcatIs
  <2>2. QED
    BY <1>1, <2>1 DEF Joined
<1>3. \A i \in 1 .. m + l : p + i <= Len(stream) => stream[p + i] = x[i]
  BY <1>1, <1>2 DEF Shows
<1>4. Shows(p, q)
  BY <1>1, <1>2, <1>3 DEF Shows
<1>5. ASSUME NEW i \in 1 .. l, (p + m) + i <= Len(stream)
      PROVE  stream[(p + m) + i] = r[i]
  <2>1. m + i \in 1 .. m + l /\ p + (m + i) = (p + m) + i
    OBVIOUS
  <2>2. QED
    BY <1>2, <1>3, <1>5, <2>1
<1>6. QED
  BY <1>1, <1>4, <1>5 DEF Shows

(* The first j fields, and where they end.                                 *)
First(fs, j) == SubSeq(fs, 1, j)
End(fs, j) == Len(AllBytes(First(fs, j)))

LEMMA FirstIs ==
  ASSUME NEW S, NEW fs \in Seq(S), NEW j \in 0 .. Len(fs)
  PROVE  /\ First(fs, j) \in Seq(S) /\ Len(First(fs, j)) = j
         /\ \A i \in 1 .. j : First(fs, j)[i] = fs[i]
<1>1. 1 \in 1 .. Len(fs) + 1 /\ 1 <= j + 1 /\ j - 1 + 1 = j /\ \A i \in 1 .. j : 1 + i - 1 = i
  OBVIOUS
<1>2. PartOf(S, fs, 1, j, SubSeq(fs, 1, j))
  BY <1>1, PartIs
<1>3. QED
  BY <1>1, <1>2 DEF First, PartOf

(* A field within a message.                                               *)
LEMMA FieldInMessage ==
  ASSUME NEW fs \in Seq(Fields), NEW j \in 0 .. Len(fs) - 1, NEW p \in Nat,
         Shows(p, AllBytes(fs)), Len(stream) \in Nat
  PROVE  /\ fs[j + 1] \in Fields /\ End(fs, j) \in Nat
         /\ Shows(p + End(fs, j), Bytes(fs[j + 1]))
         /\ End(fs, j + 1) = End(fs, j) + Len(Bytes(fs[j + 1]))
         /\ End(fs, j + 1) <= Len(AllBytes(fs))
         /\ j + 1 = Len(fs) => End(fs, j + 1) = Len(AllBytes(fs))
<1>1. PICK n \in Nat : n = Len(fs) /\ j + 1 \in 1 .. n
  OBVIOUS
<1>2. PICK a \in Seq(Fields) : a = First(fs, j) /\ Len(a) = j /\ \A i \in 1 .. j : a[i] = fs[i]
  <2>1. j \in 0 .. Len(fs)
    BY <1>1
  <2>2. QED
    BY <2>1, FirstIs
<1>3. PICK g \in Fields : g = fs[j + 1]
  BY <1>1
<1>4. PICK c \in Seq(Fields) : c = Append(a, g) /\ Len(c) = j + 1 /\ \A i \in 1 .. j + 1 : c[i] = fs[i]
  <2>1. Append(a, g) \in Seq(Fields) /\ Len(Append(a, g)) = j + 1
    BY <1>2
  <2>2. \A i \in 1 .. j + 1 : Append(a, g)[i] = fs[i]
    BY <1>2, <1>3
  <2>3. QED
    BY <2>1, <2>2
<1>5. First(fs, j + 1) = c
  <2>1. PICK d \in Seq(Fields) : d = First(fs, j + 1) /\ Len(d) = j + 1 /\ \A i \in 1 .. j + 1 : d[i] = fs[i]
    <3>1. j + 1 \in 0 .. Len(fs)
      BY <1>1
    <3>2. QED
      BY <3>1, FirstIs
  <2>2. QED
    BY <1>4, <2>1, SeqEqual
<1>6. PICK r \in Seq(Fields) : r = SubSeq(fs, j + 2, n) /\ Len(r) = n - (j + 1)
                               /\ \A i \in 1 .. n - (j + 1) : r[i] = fs[j + 1 + i]
  <2>1. j + 2 \in 1 .. Len(fs) + 1 /\ n \in 0 .. Len(fs) /\ j + 2 <= n + 1
    BY <1>1
  <2>2. n - (j + 2) + 1 = n - (j + 1) /\ \A i \in 1 .. n - (j + 1) : (j + 2) + i - 1 = j + 1 + i
    BY <1>1
  <2>3. PartOf(Fields, fs, j + 2, n, SubSeq(fs, j + 2, n))
    <3>1. PICK q \in Seq(Fields), a1 \in Int, b1 \in Int : q = fs /\ a1 = j + 2 /\ b1 = n
      OBVIOUS
    <3>2. a1 \in 1 .. Len(q) + 1 /\ b1 \in 0 .. Len(q) /\ a1 <= b1 + 1
      BY <2>1, <3>1
    <3>3. PartOf(Fields, q, a1, b1, SubSeq(q, a1, b1))
      BY <3>2, PartIs
    <3>4. QED
      BY <3>1, <3>3
  <2>4. PICK q : q = SubSeq(fs, j + 2, n)
    OBVIOUS
  <2>5. PartOf(Fields, fs, j + 2, n, q)
    BY <2>3, <2>4
  <2>6. /\ q \in Seq(Fields) /\ Len(q) = n - (j + 1)
        /\ \A i \in 1 .. n - (j + 1) : q[i] = fs[j + 1 + i]
    BY <2>2, <2>5 DEF PartOf
  <2>7. QED
    BY <2>4, <2>6
<1>7. fs = c \o r
  <2>1. PICK d \in Seq(Fields) :
          /\ d = c \o r /\ Len(d) = Len(c) + Len(r)
          /\ \A i \in 1 .. Len(c) : d[i] = c[i]
          /\ \A i \in 1 .. Len(r) : d[Len(c) + i] = r[i]
    <3>1. Joined(Fields, c, r, c \o r)
      BY ConcatIs
    <3>2. QED
      BY <3>1 DEF Joined
  <2>2. Len(d) = n /\ \A i \in 1 .. j + 1 : d[i] = fs[i]
    <3>1. Len(d) = (j + 1) + (n - (j + 1))
      BY <1>4, <1>6, <2>1
    <3>2. \A i \in 1 .. j + 1 : d[i] = fs[i]
      BY <1>4, <2>1
    <3>3. QED
      BY <1>1, <3>1, <3>2
  <2>3. ASSUME NEW i \in 1 .. n, ~(i \in 1 .. j + 1) PROVE d[i] = fs[i]
    <3>1. PICK k \in 1 .. n - (j + 1) : i = j + 1 + k
      <4>1. i - (j + 1) \in 1 .. n - (j + 1) /\ i = j + 1 + (i - (j + 1))
        BY <1>1, <2>3
      <4>2. QED
        BY <4>1
    <3>2. QED
      BY <1>4, <1>6, <2>1, <3>1
  <2>4. \A i \in 1 .. n : d[i] = fs[i]
    BY <2>2, <2>3
  <2>5. QED
    BY <1>1, <2>1, <2>2, <2>4, SeqEqual
<1>8. PICK x \in Seq(Byte), y \in Seq(Byte), z \in Seq(Byte), u \in Seq(Byte) :
        x = AllBytes(a) /\ y = Bytes(g) /\ z = AllBytes(c) /\ u = AllBytes(r)
  BY AllBytesConcat, BytesType
<1>9. z = x \o y /\ AllBytes(fs) = z \o u
  BY <1>4, <1>7, <1>8, AllBytesAppend, AllBytesConcat
<1>10. Shows(p, z) /\ Shows(p + Len(x), y)
  <2>1. Shows(p, z \o u)
    BY <1>9
  <2>2. Shows(p, z)
    BY <2>1, ShowsParts
  <2>3. Shows(p, x \o y)
    BY <1>9, <2>2
  <2>4. QED
    BY <2>2, <2>3, ShowsParts
<1>11. Len(z) = Len(x) + Len(y) /\ Len(AllBytes(fs)) = Len(z) + Len(u)
  BY <1>9
<1>12. End(fs, j) = Len(x) /\ End(fs, j + 1) = Len(z)
  BY <1>2, <1>5, <1>8 DEF End
<1>13. j + 1 = n => Len(u) = 0
  <2>1. ASSUME j + 1 = n PROVE Len(u) = 0
    <3>1. r = <<>>
      BY <1>6, <2>1
    <3>2. QED
      BY <1>8, <3>1, AllBytesEmpty
  <2>2. QED
    BY <2>1
<1>14. Len(x) \in Nat /\ Len(y) \in Nat /\ Len(u) \in Nat
  OBVIOUS
<1>15. QED
  BY <1>1, <1>3, <1>8, <1>10, <1>11, <1>12, <1>13, <1>14

(* A number is read as it was written.                                     *)
LEMMA NumberRead == \A a \in Numbers : parseInt(<<Digits(a)>>) = a
<1> TAKE a \in Numbers
<1>1. PICK v, x : v = <<Digits(a)>> /\ x = Digits(a) /\ v # <<>> /\ v[1] = x
  <2>1. <<Digits(a)>> # <<>> /\ <<Digits(a)>>[1] = Digits(a)
    OBVIOUS
  <2>2. QED
    BY <2>1
<1>2. PICK n \in Numbers : n = (CHOOSE m \in Numbers : Digits(m) = x) /\ Digits(n) = x
  BY <1>1
<1>3. n = a /\ x \notin DOMAIN OtherNumbers
  BY <1>1, <1>2, NumberAssumption, OtherAssumption
<1>4. QED
  BY <1>1, <1>2, <1>3, Zenon DEF parseInt

(* How far the stream is read with a field whose value ends in the buffer. *)
LEMMA ReadToSeen ==
  ASSUME StreamInv, NEW g, Clear(g), Shows(cp, Bytes(g)),
         NEW z \in Nat, z = cp + Len(Bytes(g)), z <= Len(stream), Whole(Seen(g, cp))
  PROVE  ReadTo(Seen(g, cp)) = IF g.tag = BodyLength
                               THEN Max({z, z - 1 + parseInt(g.value) + CHECKSUM_WIDTH})
                               ELSE z
<1>1. PICK f : f = Seen(g, cp)
  OBVIOUS
<1>2. /\ f.tag = stoft(<<g.tag>>) /\ f.soh = z
      /\ f.offset = cp + 2 - begin /\ f.length = Len(g.value)
  BY <1>1 DEF Seen
<1>3. Entry(f).offset = cp + 2 - begin /\ Entry(f).length = Len(g.value)
  BY <1>1, <1>2, EntryIs
<1>4. ValueOf(Entry(f)) = g.value
  <2>1. stream \in Seq(Byte) /\ begin \in Nat /\ cp \in Nat /\ cp >= begin
    BY DEF StreamInv, ParserInv, Positions
  <2>2. g \in Fields
    BY DEF Clear
  <2>3. QED
    BY <1>3, <2>1, <2>2, ValueIs
<1>5. f.tag = BodyLength <=> g.tag = BodyLength
  BY <1>2, StoftIs
<1>6. ReadTo(f) = IF f.tag = BodyLength
                  THEN Max({f.soh, f.soh - 1 + parseInt(ValueOf(Entry(f))) + CHECKSUM_WIDTH})
                  ELSE f.soh
  BY Zenon DEF ReadTo, getInt
<1>7. QED
  BY <1>1, <1>2, <1>4, <1>5, <1>6, Zenon

(* A message that can be read as it was written: the checksum comes last,  *)
(* and no length leads past its first u bytes.                             *)
Readable(fs, u) ==
  /\ fs \in Seq(Fields) /\ u \in Nat /\ u <= Len(AllBytes(fs))
  /\ \A i \in 1 .. Len(fs) :
       /\ Clear(fs[i])
       /\ fs[i].tag = CheckSum <=> i = Len(fs)
       /\ fs[i].tag = BodyLength =>
            End(fs, i) - 1 + parseInt(fs[i].value) + CHECKSUM_WIDTH <= u

(* The parser is before field j + 1 of it.                                 *)
Reading(fs, j) == /\ j \in 0 .. Len(fs) - 1
                  /\ cp = begin + End(fs, j)
                  /\ Shows(begin, AllBytes(fs))

Stores(f) == PlainField(f) \/ OpenGroup(f) \/ NextGroup(f) \/ CloseGroup(f)

(* What a step of the parser can do there.                                 *)
TurnOf(fs, u, j) ==
  \/ Undefined
  \/ EndOfInput /\ begin + Len(AllBytes(fs)) > Len(stream)
  \/ \E f \in {Seen(fs[j + 1], cp)} :
       /\ f \in NextField /\ f.soh = begin + End(fs, j + 1) /\ f.soh <= Len(stream)
       /\ \/ j + 1 = Len(fs) /\ CheckSumField(f)
          \/ j + 1 < Len(fs) /\ CutShort(f) /\ begin + u > Len(stream)
          \/ /\ j + 1 < Len(fs) /\ Stores(f)
             /\ ReadTo(f) <= begin + Len(AllBytes(fs))

(* A message is read field by field.                                       *)
LEMMA TurnIs ==
  ASSUME StreamInv, NEW fs, NEW u, Readable(fs, u), NEW j, Reading(fs, j), ParserStep
  PROVE  TurnOf(fs, u, j)
<1>1. PICK n \in Nat : n = Len(stream)
  BY DEF StreamInv, ParserInv, Positions
<1>2. cp \in Nat /\ begin \in Nat
  BY <1>1 DEF StreamInv, ParserInv, Positions
<1>3. PICK m \in Nat : /\ m = Len(fs) /\ j \in 0 .. m - 1 /\ fs \in Seq(Fields)
                        /\ u \in Nat /\ u <= Len(AllBytes(fs))
  BY DEF Readable, Reading
<1>4. PICK g : g = fs[j + 1]
  OBVIOUS
<1>5. PICK x, y, l : x = End(fs, j) /\ y = End(fs, j + 1) /\ l = Len(AllBytes(fs))
  OBVIOUS
<1>6. /\ g \in Fields /\ x \in Nat /\ Shows(begin + x, Bytes(g))
      /\ y = x + Len(Bytes(g)) /\ y <= l /\ (j + 1 = m => y = l)
  <2>1. j \in 0 .. Len(fs) - 1 /\ Shows(begin, AllBytes(fs)) /\ Len(stream) \in Nat
    BY <1>1, <1>3 DEF Reading
  <2>2. QED
    BY <1>2, <1>3, <1>4, <1>5, <2>1, FieldInMessage
<1>7. y \in Nat /\ l \in Nat
  <2>1. Len(Bytes(g)) \in Nat
    BY <1>6, BytesType
  <2>2. l \in Nat
    BY <1>3, <1>5, BytesType, AllBytesConcat
  <2>3. QED
    BY <1>6, <2>1, <2>2
<1>8. /\ Clear(g) /\ (g.tag = CheckSum <=> j + 1 = m)
      /\ g.tag = BodyLength => y - 1 + parseInt(g.value) + CHECKSUM_WIDTH <= u
  <2>1. j + 1 \in 1 .. Len(fs)
    BY <1>3
  <2>2. QED
    BY <1>3, <1>4, <1>5, <2>1 DEF Readable
<1>9. cp = begin + x /\ Shows(cp, Bytes(g)) /\ cp + Len(Bytes(g)) = begin + y
  <2>1. cp = begin + x
    BY <1>5 DEF Reading
  <2>2. Len(Bytes(g)) \in Nat
    BY <1>6, BytesType
  <2>3. QED
    BY <1>2, <1>6, <2>1, <2>2
<1>10. PICK f : f = Seen(g, cp)
  OBVIOUS
<1>11. NextField = IF begin + y <= n THEN {f} ELSE {}
  BY <1>1, <1>8, <1>9, <1>10, NextIs
<1>12. f.soh = begin + y /\ f.tag = stoft(<<g.tag>>)
  BY <1>9, <1>10 DEF Seen
<1>13. f.tag = CheckSum <=> j + 1 = m
  BY <1>8, <1>12, StoftIs
<1>14. CASE EndOfInput
  <2>1. ~(begin + y <= n)
    BY <1>11, <1>14 DEF EndOfInput
  <2>2. begin + l > n
    BY <1>1, <1>2, <1>6, <1>7, <2>1
  <2>3. QED
    BY <1>1, <1>5, <1>14, <2>2 DEF TurnOf
<1>15. ASSUME NEW h \in NextField, ReadField(h) PROVE TurnOf(fs, u, j)
  <2>1. begin + y <= n /\ h = f /\ f \in NextField
    BY <1>11, <1>15
  <2>2. f.soh <= Len(stream) /\ f.soh = begin + End(fs, j + 1) /\ f \in {Seen(fs[j + 1], cp)}
    BY <1>1, <1>4, <1>5, <1>10, <1>12, <2>1
  <2>3. ASSUME Whole(f)
        PROVE  /\ ReadTo(f) \in Int /\ ReadTo(f) <= begin + l
               /\ ReadTo(f) > n => begin + u > n
    <3>1. begin + y \in Nat
      BY <1>2, <1>7
    <3>2. ReadTo(f) = IF g.tag = BodyLength
                      THEN Max({begin + y, (begin + y) - 1 + parseInt(g.value) + CHECKSUM_WIDTH})
                      ELSE begin + y
      BY <1>1, <1>8, <1>9, <1>10, <2>1, <2>3, <3>1, ReadToSeen
    <3>3. PICK a \in Int : a = parseInt(g.value)
      BY NumberIs
    <3>4. u \in Nat /\ u <= l /\ y <= l
      BY <1>3, <1>5, <1>6
    <3>5. CASE g.tag = BodyLength
      <4>1. ReadTo(f) = Max({begin + y, begin + y - 1 + a + 4}) /\ y - 1 + a + 4 <= u
        BY <1>2, <1>7, <1>8, <3>2, <3>3, <3>5 DEF CHECKSUM_WIDTH
      <4>2. begin + y \in Int /\ begin + y - 1 + a + 4 \in Int
        BY <1>2, <1>7, <3>3
      <4>3. ReadTo(f) \in {begin + y, begin + y - 1 + a + 4}
        BY <4>1, <4>2, MaxOfInts
      <4>4. QED
        BY <1>1, <1>2, <1>7, <2>1, <3>3, <3>4, <4>1, <4>3
    <3>6. CASE g.tag # BodyLength
      <4>1. ReadTo(f) = begin + y /\ begin + y <= n
        BY <2>1, <3>2, <3>6
      <4>2. QED
        BY <1>1, <1>2, <1>7, <3>4, <4>1
    <3>7. QED
      BY <3>5, <3>6
  <2>4. CASE CheckSumField(f)
    <3>1. j + 1 = Len(fs)
      BY <1>3, <1>13, <2>4 DEF CheckSumField
    <3>2. QED
      BY <2>1, <2>2, <2>4, <3>1 DEF TurnOf
  <2>5. CASE f.tag # CheckSum
    <3>1. j + 1 < Len(fs)
      BY <1>3, <1>13, <2>5
    <3>2. CASE CutShort(f)
      <4>1. Whole(f)
        <5>1. n \in Int /\ n >= f.soh /\ Fits(n) /\ Positions
          BY <1>1, <1>12, <2>1, <3>2 DEF CutShort, StreamInv, ParserInv
        <5>2. QED
          BY <2>1, <5>1, FieldIs
      <4>2. ReadTo(f) > n
        BY <1>1, <3>2 DEF CutShort
      <4>3. begin + u > n
        BY <2>3, <4>1, <4>2
      <4>4. QED
        BY <1>1, <1>5, <2>1, <2>2, <3>1, <3>2, <4>3 DEF TurnOf
    <3>3. CASE Stores(f)
      <4>1. Whole(f)
        <5>1. Store(f)
          BY <3>3 DEF Stores, PlainField, OpenGroup, NextGroup, CloseGroup
        <5>2. f \in RawFields
          BY <1>1, <2>1, NextFieldIs DEF StreamInv, ParserInv, Positions
        <5>3. ReadTo(f) \in Int /\ ReadTo(f) >= f.soh
          BY <5>2, ReadToIs
        <5>4. QED
          BY <2>1, <5>1, <5>3, FieldIs DEF Store, StreamInv, ParserInv
      <4>2. ReadTo(f) <= begin + Len(AllBytes(fs))
        BY <1>5, <2>3, <4>1
      <4>3. QED
        BY <2>1, <2>2, <3>1, <3>3, <4>2 DEF TurnOf
    <3>4. CASE CheckSumField(f)
      BY <2>4, <3>4
    <3>5. QED
      BY <1>15, <2>1, <3>2, <3>3, <3>4 DEF ReadField, Stores
  <2>6. QED
    BY <1>15, <2>1, <2>4, <2>5 DEF ReadField, CutShort, PlainField, OpenGroup,
                                   NextGroup, CloseGroup, Store
<1>16. QED
  BY <1>14, <1>15 DEF ParserStep, TurnOf
=============================================================================
