--------------------------- MODULE BuilderProofs ---------------------------
(***************************************************************************)
(* Safety of builders that are called in any order, for any set of them,   *)
(* any fields and any size of the buffer that has room for what reset      *)
(* writes and a checksum.                                                  *)
(***************************************************************************)
EXTENDS FixStream, ParserProofs

-----------------------------------------------------------------------------
(* Builders.  That a builder is within its buffer and counts what it holds *)
(* is inductive as it stands, given the types.                             *)

Messages == Seq(Byte)
FieldSeqs == Seq(Fields)
BuilderState == [message : Messages, headed : BOOLEAN, body_length : Int,
                 added : FieldSeqs, intact : BOOLEAN, clean : BOOLEAN]

Fitting(s) == Len(s.message) <= max_message_size
Counted(s) == s.intact /\ s.headed => s.body_length = Len(s.message) - Len(HEADER)
Start(s) == IF s.headed THEN HEADER ELSE <<>>
Complete(s) == s.clean => s.message = Start(s) \o AllBytes(s.added)

Good(s) == s \in BuilderState /\ Fitting(s) /\ Counted(s) /\ Complete(s)

BuilderInv == /\ builders \in [Builders -> BuilderState]
              /\ \A b \in Builders : Good(builders[b])

(* What reset writes is bytes.                                             *)
LEMMA HeaderType == HEADER \in Seq(Byte) /\ Len(HEADER) \in Nat
<1>1. "8" \in Byte /\ "9" \in Byte /\ "FIX" \in Byte /\ Digits(0) \in Byte
  BY DEF Byte
<1> HIDE DEF Byte
<1>2. PICK t \in Byte, v \in Byte : t = "8" /\ v = "FIX"
  BY <1>1, Zenon
<1>3. PICK u \in Byte, d \in Byte : u = "9" /\ d = Digits(0)
  BY <1>1, Zenon
<1>4. PICK p \in Seq(Byte) : p = Bytes(Field(t, <<v>>)) /\ Len(p) = 4
  BY OneByteType
<1>5. PICK q \in Seq(Byte) : q = Bytes(Field(u, <<d>>)) /\ Len(q) = 4
  BY OneByteType
<1>6. HEADER = p \o q
  BY <1>2, <1>3, <1>4, <1>5, Zenon
     DEF HEADER, BEGIN_STRING, LengthField, BeginString, BodyLength
<1>7. QED
  BY <1>6

(* The checksum field is bytes of its width, though its digits are         *)
(* misplaced.                                                              *)
LEMMA CheckSumType ==
  CheckSumBytes \in Seq(Byte) /\ Len(CheckSumBytes) = CHECKSUM_WIDTH
<1>1. "10" \in Byte /\ "0" \in Byte /\ "c" \in Byte
  BY DEF Byte
<1> HIDE DEF Byte
<1>2. PICK t \in Byte, v \in Byte, c \in Byte : t = "10" /\ v = "0" /\ c = "c"
  BY <1>1, Zenon
<1>3. PICK q \in Seq(Byte) : q = Bytes(Field(t, <<v>>)) /\ Len(q) = 4
  BY OneByteType
<1>4. CheckSumBytes = [q EXCEPT ![4] = c]
  BY <1>2, <1>3, Zenon DEF CheckSumBytes, CheckSum
<1>5. QED
  BY <1>3, <1>4 DEF CHECKSUM_WIDTH

(* What a message starts with is bytes.                                    *)
LEMMA StartType == \A s : Start(s) \in Seq(Byte)
<1>1. <<>> \in Seq(Byte)
  OBVIOUS
<1>2. QED
  BY <1>1, HeaderType DEF Start

(* A builder is good when its constructor is done,                         *)
LEMMA ConstructedGood == Good(Constructed)
<1>1. PICK e \in Seq(Byte) : e = <<>>
  <2>1. <<>> \in Seq(Byte)
    OBVIOUS
  <2>2. QED
    BY <2>1
<1>2. PICK a \in FieldSeqs : a = <<>>
  <2>1. <<>> \in FieldSeqs
    BY DEF FieldSeqs
  <2>2. QED
    BY <2>1
<1>3. e \in Messages /\ Len(e) = 0
  BY <1>1 DEF Messages
<1>4. Constructed = [message |-> e, headed |-> FALSE, body_length |-> 0,
                     added |-> a, intact |-> TRUE, clean |-> TRUE]
  BY <1>1, <1>2 DEF Constructed
<1>5. AllBytes(a) = e /\ e \o e = e
  BY <1>1, <1>2, AllBytesEmpty
<1>6. Constructed \in BuilderState
  BY <1>2, <1>3, <1>4 DEF BuilderState
<1>7. Fitting(Constructed)
  <2>1. 0 <= max_message_size
    BY SizeAssumption
  <2>2. QED
    BY <1>3, <1>4, <2>1 DEF Fitting
<1>8. Counted(Constructed)
  BY <1>4 DEF Counted
<1>9. Complete(Constructed)
  BY <1>1, <1>4, <1>5 DEF Complete, Start
<1>10. QED
  BY <1>6, <1>7, <1>8, <1>9 DEF Good

(* and after reset.                                                        *)
LEMMA WasResetGood == Good(WasReset)
<1>1. PICK c \in BuilderState :
        c = Constructed /\ c.body_length = 0 /\ c.added = <<>>
  <2>1. Constructed \in BuilderState
    BY ConstructedGood DEF Good
  <2>2. Constructed.body_length = 0 /\ Constructed.added = <<>>
    BY DEF Constructed
  <2>3. QED
    BY <2>1, <2>2
<1>2. WasReset = [c EXCEPT !.message = HEADER, !.headed = TRUE]
  BY <1>1 DEF WasReset
<1>3. HEADER \in Messages /\ Len(HEADER) \in Nat
  BY HeaderType DEF Messages
<1>4. /\ WasReset \in BuilderState
      /\ WasReset.message = HEADER /\ WasReset.headed
      /\ WasReset.body_length = 0 /\ WasReset.added = <<>>
  BY <1>1, <1>2, <1>3 DEF BuilderState
<1>5. Fitting(WasReset)
  <2>1. Len(HEADER) <= max_message_size
    BY <1>3, SizeAssumption DEF CHECKSUM_WIDTH
  <2>2. QED
    BY <1>4, <2>1 DEF Fitting
<1>6. Counted(WasReset)
  <2>1. 0 = Len(HEADER) - Len(HEADER)
    BY <1>3
  <2>2. QED
    BY <1>4, <2>1 DEF Counted
<1>7. Complete(WasReset)
  <2>1. HEADER = HEADER \o AllBytes(WasReset.added)
    BY <1>4, AllBytesEmpty, HeaderType
  <2>2. QED
    BY <1>4, <2>1 DEF Complete, Start
<1>8. QED
  BY <1>4, <1>5, <1>6, <1>7 DEF Good

(* A field that fits is written and counted; of one that does not, what    *)
(* leaves room for a checksum.                                             *)
LEMMA WithFieldGood ==
  ASSUME NEW s \in BuilderState, Good(s), NEW f \in Fields
  PROVE  Good(WithField(s, f))
<1>1. PICK q \in Seq(Byte) : q = s.message
  BY DEF BuilderState, Messages
<1>2. PICK w \in Seq(Byte) : w = Bytes(f)
  BY BytesType
<1>3. PICK h \in Nat : h = Len(HEADER)
  BY HeaderType
<1>4. PICK m \in Seq(Byte) : m = q \o w /\ Len(m) = Len(q) + Len(w)
  <2>1. q \o w \in Seq(Byte) /\ Len(q \o w) = Len(q) + Len(w)
    OBVIOUS
  <2>2. QED
    BY <2>1
<1>5. max_message_size \in Nat /\ max_message_size - CHECKSUM_WIDTH \in Nat
  BY SizeAssumption, HeaderType DEF CHECKSUM_WIDTH
<1>6. CASE HasRoom(q, Len(w))
  <2>1. WithField(s, f) = [s EXCEPT !.message = m, !.body_length = Body(s, m),
                                    !.added = Append(@, f)]
    BY <1>1, <1>2, <1>4, <1>6 DEF WithField
  <2>2. Body(s, m) \in Int
    BY <1>3 DEF Body, BuilderState
  <2>3. Append(s.added, f) \in FieldSeqs
    BY DEF BuilderState, FieldSeqs
  <2>4. PICK t \in BuilderState :
          /\ t = WithField(s, f)
          /\ t.message = m /\ t.body_length = Body(s, m)
          /\ t.added = Append(s.added, f)
          /\ t.headed = s.headed /\ t.intact = s.intact /\ t.clean = s.clean
    <3>1. m \in Messages
      BY DEF Messages
    <3>2. QED
      BY <2>1, <2>2, <2>3, <3>1 DEF BuilderState
  <2>5. Fitting(t)
    BY <1>4, <1>5, <1>6, <2>4 DEF Fitting, HasRoom, CHECKSUM_WIDTH
  <2>6. Counted(t)
    BY <2>4 DEF Counted, Body
  <2>7. Complete(t)
    <3> SUFFICES ASSUME t.clean PROVE t.message = Start(t) \o AllBytes(t.added)
      BY DEF Complete
    <3>1. t.clean
      OBVIOUS
    <3>2. PICK b \in Seq(Byte), c \in Seq(Byte) :
            b = Start(s) /\ c = AllBytes(s.added) /\ q = b \o c
      BY <1>1, <2>4, <3>1, StartType, AllBytesAppend
         DEF Good, Complete, BuilderState, FieldSeqs
    <3>3. AllBytes(t.added) = c \o w
      BY <1>2, <2>4, <3>2, AllBytesAppend DEF BuilderState, FieldSeqs
    <3>4. m = b \o (c \o w)
      BY <1>4, <3>2
    <3>5. Start(t) = b
      BY <2>4, <3>2 DEF Start
    <3>6. QED
      BY <2>4, <3>3, <3>4, <3>5
  <2>8. QED
    BY <2>4, <2>5, <2>6, <2>7 DEF Good
<1>7. CASE ~HasRoom(q, Len(w))
  <2>1. PICK n \in Nat : n = max_message_size - CHECKSUM_WIDTH
    BY <1>5
  <2>2. n <= Len(m) /\ n <= max_message_size
    BY <1>4, <1>5, <1>7, <2>1 DEF HasRoom, CHECKSUM_WIDTH
  <2>3. PICK u \in Seq(Byte) : u = SubSeq(m, 1, n) /\ Len(u) = n
    <3>1. SubSeq(m, 1, n) \in Seq(Byte) /\ Len(SubSeq(m, 1, n)) = n
      BY <2>2
    <3>2. QED
      BY <3>1
  <2>4. PICK v \in Seq(Byte) : /\ v = IF Len(q) < Len(u) THEN u ELSE q
                               /\ Len(v) <= max_message_size
    BY <1>1, <1>5, <2>2, <2>3 DEF Good, Fitting
  <2>5. WithField(s, f) = [s EXCEPT !.message = v, !.intact = FALSE, !.clean = FALSE]
    BY <1>1, <1>2, <1>4, <1>7, <2>1, <2>3, <2>4 DEF WithField
  <2>6. v \in Messages
    BY DEF Messages
  <2>7. PICK t \in BuilderState :
          t = WithField(s, f) /\ t.message = v /\ ~t.intact /\ ~t.clean
    BY <2>5, <2>6 DEF BuilderState
  <2>8. QED
    BY <2>4, <2>7 DEF Good, Fitting, Counted, Complete
<1>8. QED
  BY <1>6, <1>7

(* append: the bytes of another message, of which all are counted.         *)
LEMMA WithMessageGood ==
  ASSUME NEW s \in BuilderState, Good(s), NEW src \in BuilderState, Good(src),
         HasRoom(s.message, Len(src.message))
  PROVE  Good(WithMessage(s, src))
<1>1. PICK q \in Seq(Byte) : q = s.message
  BY DEF BuilderState, Messages
<1>2. PICK w \in Seq(Byte) : w = src.message
  BY DEF BuilderState, Messages
<1>3. PICK h \in Nat : h = Len(HEADER)
  BY HeaderType
<1>4. PICK m \in Seq(Byte) : m = q \o w /\ Len(m) = Len(q) + Len(w)
  <2>1. q \o w \in Seq(Byte) /\ Len(q \o w) = Len(q) + Len(w)
    OBVIOUS
  <2>2. QED
    BY <2>1
<1>5. PICK fs \in Seq(Fields), gs \in Seq(Fields) : fs = s.added /\ gs = src.added
  BY DEF BuilderState, FieldSeqs
<1>6. PICK n \in Int :
        n = IF s.headed THEN s.body_length + Len(w) ELSE s.body_length
  <2>1. Len(w) \in Int /\ s.body_length \in Int
    BY DEF BuilderState
  <2>2. QED
    BY <2>1
<1>7. PICK t \in BuilderState :
        /\ t = WithMessage(s, src)
        /\ t.message = m /\ t.body_length = n /\ t.added = fs \o gs
        /\ t.headed = s.headed /\ t.intact = s.intact
        /\ t.clean = (s.clean /\ src.clean /\ ~src.headed)
  <2>1. PICK c \in BOOLEAN : c = (s.clean /\ src.clean /\ ~src.headed)
    BY DEF BuilderState
  <2>2. WithMessage(s, src) = [s EXCEPT !.message = m, !.body_length = n,
                                        !.added = fs \o gs, !.clean = c]
    BY <1>1, <1>2, <1>4, <1>5, <1>6, <2>1 DEF WithMessage, BuilderState
  <2>3. m \in Messages /\ fs \o gs \in FieldSeqs
    BY DEF Messages, FieldSeqs
  <2>4. QED
    BY <2>1, <2>2, <2>3 DEF BuilderState
<1>8. Fitting(t)
  <2>1. HasRoom(q, Len(w))
    BY <1>1, <1>2
  <2>2. Len(q) + Len(w) <= max_message_size
    BY <2>1, SizeAssumption DEF HasRoom, CHECKSUM_WIDTH
  <2>3. QED
    BY <1>4, <1>7, <2>2 DEF Fitting
<1>9. Counted(t)
  <2> SUFFICES ASSUME t.intact /\ t.headed PROVE t.body_length = Len(t.message) - h
    BY <1>3 DEF Counted
  <2>1. s.body_length = Len(q) - h
    BY <1>1, <1>3, <1>7 DEF Good, Counted
  <2>2. n = s.body_length + Len(w)
    BY <1>6, <1>7
  <2>3. QED
    BY <1>4, <1>7, <2>1, <2>2
<1>10. Complete(t)
  <2> SUFFICES ASSUME t.clean PROVE t.message = Start(t) \o AllBytes(t.added)
    BY DEF Complete
  <2>1. s.clean /\ src.clean /\ ~src.headed
    BY <1>7
  <2>2. PICK b \in Seq(Byte), c \in Seq(Byte) :
          b = Start(s) /\ c = AllBytes(fs) /\ q = b \o c
    BY <1>1, <1>5, <2>1, StartType, AllBytesConcat DEF Good, Complete
  <2>3. w = AllBytes(gs)
    <3>1. w = <<>> \o AllBytes(gs)
      BY <1>2, <1>5, <2>1 DEF Good, Complete, Start
    <3>2. PICK g \in Seq(Byte) : g = AllBytes(gs)
      BY AllBytesConcat
    <3>3. <<>> \o g = g
      OBVIOUS
    <3>4. QED
      BY <3>1, <3>2, <3>3
  <2>4. AllBytes(t.added) = c \o w
    BY <1>7, <2>2, <2>3, AllBytesConcat
  <2>5. m = b \o (c \o w)
    BY <1>4, <2>2
  <2>6. Start(t) = b
    BY <1>7, <2>2 DEF Start
  <2>7. QED
    BY <1>7, <2>4, <2>5, <2>6
<1>11. QED
  BY <1>7, <1>8, <1>9, <1>10 DEF Good

(* build overwrites one byte of the header, if there is one.               *)
LEMMA BackfilledType ==
  ASSUME NEW s \in BuilderState
  PROVE  Backfilled(s) \in Seq(Byte) /\ Len(Backfilled(s)) = Len(s.message)
<1>1. PICK q \in Seq(Byte) : q = s.message
  BY DEF BuilderState, Messages
<1>2. PICK d \in Byte : d = Digits(s.body_length)
  <2>1. s.body_length \in Int
    BY DEF BuilderState
  <2>2. Digits(s.body_length) \in Byte
    BY <2>1 DEF Byte
  <2>3. QED
    BY <2>2
<1>3. PICK i : i = LengthAt
  OBVIOUS
<1>4. PICK r \in Seq(Byte) : r = [q EXCEPT ![i] = d] /\ Len(r) = Len(q)
  <2>1. [q EXCEPT ![i] = d] \in Seq(Byte)
    <3>1. PICK n \in Nat : n = Len(q)
      OBVIOUS
    <3>2. q \in [1 .. n -> Byte]
      BY <3>1
    <3>3. [q EXCEPT ![i] = d] \in [1 .. n -> Byte]
      BY <3>2
    <3>4. QED
      BY <3>3
  <2>2. Len([q EXCEPT ![i] = d]) = Len(q)
    OBVIOUS
  <2>3. QED
    BY <2>1, <2>2
<1>5. QED
  BY <1>1, <1>2, <1>3, <1>4 DEF Backfilled

(* What is in builder s after build, built or thrown.                      *)
Spent(s, m) == [s EXCEPT !.message = m, !.intact = FALSE, !.clean = FALSE]

(* What no field is to be added to any more need only be short enough.     *)
LEMMA SpentGood ==
  ASSUME NEW s \in BuilderState, NEW m \in Seq(Byte), Len(m) <= max_message_size
  PROVE  Good(Spent(s, m))
<1>1. m \in Messages
  BY DEF Messages
<1>2. PICK t \in BuilderState :
        t = Spent(s, m) /\ t.message = m /\ ~t.intact /\ ~t.clean
  <2>1. PICK n \in Messages : n = m
    BY <1>1
  <2>2. [s EXCEPT !.message = n, !.intact = FALSE, !.clean = FALSE] \in BuilderState
    BY DEF BuilderState
  <2>3. QED
    BY <2>1, <2>2 DEF Spent, BuilderState
<1>3. QED
  BY <1>2 DEF Good, Fitting, Counted, Complete

(* build leaves a good builder, whether it throws or not.                  *)
LEMMA BuiltGood ==
  ASSUME NEW s \in BuilderState, Good(s)
  PROVE  /\ CanBuild(s) => Good(Spent(s, Built(s)))
         /\ Good(Spent(s, Backfilled(s)))
<1>1. PICK q \in Seq(Byte) : q = Backfilled(s) /\ Len(q) = Len(s.message)
  BY BackfilledType
<1>2. Good(Spent(s, q))
  BY <1>1, SpentGood DEF Good, Fitting
<1>3. ASSUME CanBuild(s) PROVE Good(Spent(s, Built(s)))
  <2>1. PICK c \in Seq(Byte) : c = CheckSumBytes /\ Len(c) = CHECKSUM_WIDTH
    BY CheckSumType
  <2>2. q \o c \in Seq(Byte) /\ Len(q \o c) = Len(q) + Len(c)
    OBVIOUS
  <2>3. Len(q) + CHECKSUM_WIDTH + CHECKSUM_WIDTH <= max_message_size
    BY <1>1, <1>3 DEF CanBuild, HasRoom
  <2>4. Len(q \o c) <= max_message_size
    BY <2>1, <2>2, <2>3, SizeAssumption, HeaderType DEF CHECKSUM_WIDTH
  <2>5. Good(Spent(s, q \o c))
    BY <2>2, <2>4, SpentGood
  <2>6. QED
    BY <1>1, <2>1, <2>5 DEF Built
<1>4. QED
  BY <1>1, <1>2, <1>3

(* Every builder is within its buffer and counts what it holds, whatever   *)
(* is called on it and wherever a call throws.                             *)
THEOREM BuilderInvariance == Spec => []BuilderInv
<1>1. Init => BuilderInv
  <2>1. ASSUME BuilderInit PROVE BuilderInv
    <3>1. Constructed \in BuilderState /\ Good(Constructed)
      BY ConstructedGood DEF Good
    <3>2. QED
      BY <2>1, <3>1 DEF BuilderInit, BuilderInv
  <2>2. QED
    BY <2>1 DEF Init
<1>2. ASSUME BuilderInv, [Next]_vars PROVE BuilderInv'
  <2>1. ASSUME NEW b \in Builders, NEW s, Good(s),
               builders' = [builders EXCEPT ![b] = s]
        PROVE  BuilderInv'
    <3>1. s \in BuilderState
      BY <2>1 DEF Good
    <3>2. builders' \in [Builders -> BuilderState]
      BY <1>2, <2>1, <3>1 DEF BuilderInv
    <3>3. ASSUME NEW c \in Builders PROVE Good(builders'[c])
      BY <1>2, <2>1 DEF BuilderInv
    <3>4. QED
      BY <3>2, <3>3 DEF BuilderInv
  <2>2. ASSUME NEW b \in Builders, build(b) PROVE BuilderInv'
    <3>1. Good(Spent(builders[b], Built(builders[b])))
      BY <1>2, <2>2, BuiltGood DEF BuilderInv, build
    <3>2. builders' = [builders EXCEPT ![b] = Spent(builders[b], Built(builders[b]))]
      BY <1>2, <2>2 DEF BuilderInv, build, Spent
    <3>3. QED
      BY <2>1, <3>1, <3>2
  <2>3. ASSUME NEW b \in Builders, buildThrows(b) PROVE BuilderInv'
    <3>1. Good(Spent(builders[b], Backfilled(builders[b])))
      BY <1>2, BuiltGood DEF BuilderInv
    <3>2. builders' = [builders EXCEPT ![b] = Spent(builders[b], Backfilled(builders[b]))]
      BY <1>2, <2>3 DEF BuilderInv, buildThrows, Spent
    <3>3. QED
      BY <2>1, <3>1, <3>2
  <2>4. ASSUME NEW b \in Builders, NEW f \in NewFields, addField(b, f)
        PROVE  BuilderInv'
    <3>1. Good(WithField(builders[b], f))
      BY <1>2, FieldAssumption, StringFields, WithFieldGood DEF BuilderInv
    <3>2. builders' = [builders EXCEPT ![b] = WithField(builders[b], f)]
      BY <1>2, <2>4 DEF BuilderInv, addField
    <3>3. QED
      BY <2>1, <3>1, <3>2
  <2>5. ASSUME NEW b \in Builders, reset(b) PROVE BuilderInv'
    BY <2>1, <2>5, WasResetGood DEF reset
  <2>6. ASSUME NEW b \in Builders, NEW src \in Builders, append(b, src)
        PROVE  BuilderInv'
    <3>1. PICK s : s = WithMessage(builders[b], builders[src])
      OBVIOUS
    <3>2. Good(s)
      BY <1>2, <2>6, <3>1, WithMessageGood DEF BuilderInv, append
    <3>3. PICK w : w = WasReset /\ Good(w)
      BY WasResetGood
    <3>4. s \in BuilderState /\ w \in BuilderState
      BY <3>2, <3>3 DEF Good
    <3>5. builders' = [builders EXCEPT ![b] = s, ![src] = w]
      BY <1>2, <2>6, <3>1, <3>3 DEF BuilderInv, append
    <3>6. builders' \in [Builders -> BuilderState]
      BY <1>2, <3>4, <3>5 DEF BuilderInv
    <3>7. ASSUME NEW c \in Builders PROVE Good(builders'[c])
      BY <1>2, <3>2, <3>3, <3>5 DEF BuilderInv
    <3>8. QED
      BY <3>6, <3>7 DEF BuilderInv
  <2>7. ASSUME UNCHANGED builders PROVE BuilderInv'
    BY <1>2, <2>7 DEF BuilderInv
  <2>8. ASSUME BuilderNext PROVE BuilderInv'
    BY <2>3, <2>4, <2>5, <2>6, <2>8 DEF BuilderNext
  <2>9. ASSUME NEW b \in Builders, Send(b) PROVE BuilderInv'
    BY <2>2, <2>9 DEF Send
  <2>10. Close => UNCHANGED builders
    BY DEF Close
  <2>11. QED
    BY <1>2, <2>7, <2>8, <2>9, <2>10 DEF Next, vars
<1>3. QED
  BY <1>1, <1>2, PTL DEF Spec

(* However the methods of the builders are called, and whatever is in the  *)
(* fields, no message is longer than its buffer.                           *)
THEOREM NoBufferOverrun == Spec => []WithinBuffer
<1>1. BuilderInv => WithinBuffer
  BY DEF BuilderInv, Good, Fitting, WithinBuffer
<1>2. QED
  BY <1>1, BuilderInvariance, PTL

(* The length that build writes into the header is that of the body, and   *)
(* the body is the fields that were added, one after the other.            *)
THEOREM LengthIsRight == Spec => []LengthIsOfFields
<1>1. BuilderInv => LengthIsOfFields
  BY DEF BuilderInv, Good, Counted, Complete, Start, LengthIsOfFields
<1>2. QED
  BY <1>1, BuilderInvariance, PTL

-----------------------------------------------------------------------------
(* The receiver.                                                           *)

LEMMA BuiltType == \A s \in BuilderState : Built(s) \in Seq(Byte)
<1> TAKE s \in BuilderState
<1>1. PICK q \in Seq(Byte) : q = Backfilled(s)
  BY BackfilledType
<1>2. PICK c \in Seq(Byte) : c = CheckSumBytes
  BY CheckSumType
<1>3. QED
  BY <1>1, <1>2 DEF Built

(* The parser that reads what builders have built keeps the invariant of   *)
(* ParserProofs, the checksum field that does not end notwithstanding.     *)
THEOREM ReceiverInvariance == Spec => []StreamInv
<1>1. Init => StreamInv
  BY StreamInitInv DEF Init
<1>2. ASSUME BuilderInv, StreamInv, [Next]_vars PROVE StreamInv'
  <2>1. ASSUME NEW b \in Builders, Send(b) PROVE StreamInv'
    <3>1. PICK q \in Seq(Byte) : q = Built(builders[b])
      BY <1>2, BuiltType DEF BuilderInv
    <3>2. stream' = stream \o q /\ closed' = closed /\ UNCHANGED parserVars
      BY <2>1, <3>1 DEF Send
    <3>3. closed \in BOOLEAN
      BY <1>2 DEF StreamInv, ParserInv, Control
    <3>4. QED
      BY <1>2, <3>2, <3>3, BytesArrive
  <2>2. ASSUME Close PROVE StreamInv'
    <3>1. /\ stream' = stream \o <<>> /\ closed' \in BOOLEAN
          /\ UNCHANGED parserVars /\ <<>> \in Seq(Byte)
      BY <1>2, <2>2 DEF Close, StreamInv
    <3>2. QED
      BY <1>2, <3>1, BytesArrive
  <2>3. ASSUME UNCHANGED <<stream, closed, parserVars>> PROVE StreamInv'
    BY <1>2, <2>3, NothingArrives
  <2>4. QED
    BY <1>2, <2>1, <2>2, <2>3, ParserInvKept DEF Next, vars
<1>3. QED
  BY <1>1, <1>2, BuilderInvariance, PTL DEF Spec

(* What a receiver makes of built messages is typed and a tree of groups,  *)
(* too: the bytes come from a builder, whole or not, proper or not.        *)
THEOREM ReceiverTypeCorrect == Spec => [](ParserTypeOK /\ GroupsAreATree)
BY ReceiverInvariance, InvIsTyped, InvIsATree, PTL

-----------------------------------------------------------------------------
(* What a builder is given, and what it makes of it.                       *)
Given(s) == s.added \in Seq(NewFields) /\ (s.clean => s.intact)
GivenInv == \A b \in Builders : Given(builders[b])

(* At first no builder has been given anything,                            *)
LEMMA GivenInit == Init => GivenInv
<1>1. Given(Constructed)
  <2>1. Constructed.added = <<>> /\ Constructed.intact
    BY DEF Constructed
  <2>2. <<>> \in Seq(NewFields)
    OBVIOUS
  <2>3. QED
    BY <2>1, <2>2 DEF Given
<1>2. QED
  BY <1>1 DEF Init, BuilderInit, GivenInv

(* and no call gives it anything else.                                     *)
LEMMA GivenKept == BuilderInv /\ GivenInv /\ [Next]_vars => GivenInv'
<1> SUFFICES ASSUME BuilderInv, GivenInv, [Next]_vars PROVE GivenInv'
  OBVIOUS
<1>1. builders \in [Builders -> BuilderState] /\ \A b \in Builders : Given(builders[b])
  BY DEF BuilderInv, GivenInv
<1>2. ASSUME NEW b \in Builders, NEW s, Given(s), builders' = [builders EXCEPT ![b] = s]
      PROVE  GivenInv'
  BY <1>1, <1>2 DEF GivenInv
<1>3. ASSUME NEW s \in BuilderState, Given(s), NEW m PROVE Given(Spent(s, m))
  <2>1. Spent(s, m).added = s.added /\ ~Spent(s, m).clean
    BY DEF Spent, BuilderState
  <2>2. QED
    BY <1>3, <2>1 DEF Given
<1>4. ASSUME NEW b \in Builders, build(b) \/ buildThrows(b) PROVE GivenInv'
  <2>1. PICK m : builders' = [builders EXCEPT ![b] = Spent(builders[b], m)]
    <3>1. builders' = [builders EXCEPT ![b] = Spent(builders[b], Built(builders[b]))]
          \/ builders' = [builders EXCEPT ![b] = Spent(builders[b], Backfilled(builders[b]))]
      BY <1>1, <1>4 DEF build, buildThrows, Spent
    <3>2. QED
      BY <3>1
  <2>2. Given(Spent(builders[b], m))
    BY <1>1, <1>3
  <2>3. QED
    BY <1>2, <2>1, <2>2
<1>5. Given(WasReset)
  <2>1. WasReset.added = <<>> /\ WasReset.intact
    BY DEF WasReset, Constructed
  <2>2. <<>> \in Seq(NewFields)
    OBVIOUS
  <2>3. QED
    BY <2>1, <2>2 DEF Given
<1>6. ASSUME NEW b \in Builders, reset(b) PROVE GivenInv'
  BY <1>2, <1>5, <1>6 DEF reset
<1>7. ASSUME NEW b \in Builders, NEW f \in NewFields, addField(b, f) PROVE GivenInv'
  <2>1. PICK s \in BuilderState : s = builders[b] /\ Given(s)
    BY <1>1
  <2>2. PICK m, n, l : WithField(s, f) =
          IF HasRoom(s.message, Len(Bytes(f)))
          THEN [s EXCEPT !.message = m, !.body_length = n, !.added = Append(@, f)]
          ELSE [s EXCEPT !.message = l, !.intact = FALSE, !.clean = FALSE]
    BY DEF WithField
  <2>3. Append(s.added, f) \in Seq(NewFields)
    BY <2>1 DEF Given
  <2>4. PICK q \in Seq(NewFields) : q = Append(s.added, f)
    BY <2>3
  <2>5. ASSUME NEW t, t = [s EXCEPT !.message = m, !.body_length = n, !.added = q]
        PROVE  Given(t)
    BY <2>1, <2>5 DEF Given, BuilderState
  <2>6. ASSUME NEW t, t = [s EXCEPT !.message = l, !.intact = FALSE, !.clean = FALSE]
        PROVE  Given(t)
    BY <2>1, <2>6 DEF Given, BuilderState
  <2>7. Given(WithField(s, f))
    <3>1. CASE HasRoom(s.message, Len(Bytes(f)))
      BY <2>2, <2>4, <2>5, <3>1
    <3>2. CASE ~HasRoom(s.message, Len(Bytes(f)))
      BY <2>2, <2>6, <3>2
    <3>3. QED
      BY <3>1, <3>2
  <2>8. builders' = [builders EXCEPT ![b] = WithField(s, f)]
    BY <1>1, <1>7, <2>1 DEF addField
  <2>9. QED
    BY <1>2, <2>7, <2>8
<1>8. ASSUME NEW b \in Builders, NEW src \in Builders, append(b, src) PROVE GivenInv'
  <2>1. PICK s \in BuilderState, r \in BuilderState :
          s = builders[b] /\ r = builders[src] /\ Given(s) /\ Given(r)
    BY <1>1
  <2>2. PICK q \in Seq(NewFields) : q = s.added \o r.added
    <3>1. s.added \o r.added \in Seq(NewFields)
      BY <2>1 DEF Given
    <3>2. QED
      BY <3>1
  <2>3. PICK m, n, c : c = (s.clean /\ r.clean /\ ~r.headed)
          /\ WithMessage(s, r) = [s EXCEPT !.message = m, !.body_length = n,
                                           !.added = q, !.clean = c]
    BY <2>2 DEF WithMessage, BuilderState
  <2>4. Given(WithMessage(s, r))
    <3>1. /\ WithMessage(s, r).added = q /\ WithMessage(s, r).clean = c
          /\ WithMessage(s, r).intact = s.intact
      BY <2>3 DEF BuilderState
    <3>2. QED
      BY <2>1, <2>3, <3>1 DEF Given
  <2>5. builders' = [builders EXCEPT ![b] = WithMessage(s, r), ![src] = WasReset]
    BY <1>1, <1>8, <2>1 DEF append
  <2>6. \A d \in Builders : Given(builders'[d])
    BY <1>1, <1>5, <2>4, <2>5
  <2>7. QED
    BY <2>6 DEF GivenInv
<1>9. CASE UNCHANGED builders
  BY <1>9 DEF GivenInv
<1>10. CASE BuilderNext
  BY <1>4, <1>6, <1>7, <1>8, <1>10 DEF BuilderNext
<1>11. ASSUME NEW b \in Builders, Send(b) PROVE GivenInv'
  BY <1>4, <1>11 DEF Send
<1>12. QED
  BY <1>9, <1>10, <1>11 DEF Next, vars, Close

(* A length that it counts.                                                *)
Headers(a) == <<BEGIN_STRING, LengthField(Len(AllBytes(a)))>> \o a

(* The fields of the header, and their bytes.                              *)
LEMMA HeaderFields ==
  ASSUME NEW n \in Int
  PROVE  LET p == BEGIN_STRING
             q == LengthField(n)
         IN  /\ p \in Fields /\ p.tag = BeginString /\ p.value = <<"FIX">>
             /\ Len(Bytes(p)) = 4 /\ Bytes(p)[1] = BeginString /\ Bytes(p)[2] = EQ
             /\ Bytes(p)[3] = "FIX" /\ Bytes(p)[4] = SOH
             /\ q \in Fields /\ q.tag = BodyLength /\ q.value = <<Digits(n)>>
             /\ Len(Bytes(q)) = 4 /\ Bytes(q)[1] = BodyLength /\ Bytes(q)[2] = EQ
             /\ Bytes(q)[3] = Digits(n) /\ Bytes(q)[4] = SOH
<1>1. BeginString \in Byte /\ BodyLength \in Byte /\ "FIX" \in Byte /\ Digits(n) \in Byte
  BY DEF Byte, BeginString, BodyLength
<1> HIDE DEF Byte
<1>2. ASSUME NEW t \in Byte, NEW x \in Byte
      PROVE  LET f == Field(t, <<x>>) IN
             /\ f \in Fields /\ f.tag = t /\ f.value = <<x>>
             /\ Len(Bytes(f)) = 4 /\ Bytes(f)[1] = t /\ Bytes(f)[2] = EQ
             /\ Bytes(f)[3] = x /\ Bytes(f)[4] = SOH
  <2>1. PICK v \in Seq(Byte) : v = <<x>> /\ Len(v) = 1 /\ v[1] = x
    <3>1. <<x>> \in Seq(Byte) /\ Len(<<x>>) = 1 /\ <<x>>[1] = x
      OBVIOUS
    <3>2. QED
      BY <3>1
  <2>2. PICK f \in Fields : f = Field(t, v) /\ f.tag = t /\ f.value = v
    <3>1. Field(t, v) \in Fields
      BY FieldType
    <3>2. Field(t, v).tag = t /\ Field(t, v).value = v
      BY DEF Field
    <3>3. QED
      BY <3>1, <3>2
  <2>3. PICK l \in Nat, q \in Seq(Byte) :
          /\ l = Len(f.value) /\ q = Bytes(f) /\ Len(q) = l + 3
          /\ q[1] = f.tag /\ q[2] = EQ /\ q[l + 3] = SOH
          /\ \A i \in 1 .. l : q[i + 2] = f.value[i]
    BY BytesAre
  <2>4. l = 1 /\ 1 \in 1 .. l /\ l + 3 = 4 /\ 1 + 2 = 3
    BY <2>1, <2>2, <2>3
  <2>5. Len(q) = 4 /\ q[4] = SOH /\ q[3] = x
    BY <2>1, <2>2, <2>3, <2>4
  <2>6. QED
    BY <2>1, <2>2, <2>3, <2>5
<1>3. BEGIN_STRING = Field(BeginString, <<"FIX">>) /\ LengthField(n) = Field(BodyLength, <<Digits(n)>>)
  BY DEF BEGIN_STRING, LengthField
<1>4. QED
  BY <1>1, <1>2, <1>3

(* The fields of a clean message are those it was given, with the header,  *)
(* whose length build writes, in front.                                    *)
LEMMA BuiltIs ==
  ASSUME NEW s, Good(s), Given(s), s.clean, s.headed
  PROVE  LET a == s.added IN
         /\ a \in Seq(NewFields) /\ a \in Seq(Fields)
         /\ s.body_length = Len(AllBytes(a)) /\ Len(AllBytes(a)) \in Nat
         /\ Headers(a) \in Seq(Fields) /\ Len(AllBytes(Headers(a))) = Len(AllBytes(a)) + 8
         /\ Built(s) = AllBytes(Headers(a)) \o CheckSumBytes
<1>1. PICK a : a = s.added /\ a \in Seq(NewFields) /\ a \in Seq(Fields)
  BY DEF Given, Good, BuilderState, FieldSeqs
<1>2. PICK r \in Seq(Byte), l \in Nat : r = AllBytes(a) /\ l = Len(r)
  BY <1>1, AllBytesConcat
<1>3. PICK z \in Seq(Byte), y \in Seq(Byte), x \in Seq(Byte) :
        z = Bytes(LengthField(0)) /\ y = Bytes(LengthField(l)) /\ x = Bytes(BEGIN_STRING)
  BY HeaderFields, BytesType
<1>4. /\ Len(x) = 4 /\ Len(y) = 4 /\ Len(z) = 4
      /\ y[1] = z[1] /\ y[2] = z[2] /\ y[4] = z[4] /\ y[3] = Digits(l)
  BY <1>3, HeaderFields
<1>5. PICK d \in Byte : d = Digits(l)
  <2>1. l \in Int
    BY <1>2
  <2>2. Digits(l) \in Byte
    BY <2>1 DEF Byte
  <2>3. QED
    BY <2>2
<1> HIDE DEF Byte
<1>6. PICK h \in Seq(Byte) : h = x \o z /\ h = HEADER /\ Len(h) = 8
        /\ (\A i \in 1 .. 4 : h[i] = x[i]) /\ (\A i \in 1 .. 4 : h[4 + i] = z[i])
  <2>1. Joined(Byte, x, z, x \o z)
    BY ConcatIs
  <2>2. HEADER = x \o z
    BY <1>3 DEF HEADER
  <2>3. PICK c : c = x \o z
    OBVIOUS
  <2>4. /\ c \in Seq(Byte) /\ Len(c) = 8
        /\ (\A i \in 1 .. 4 : c[i] = x[i]) /\ (\A i \in 1 .. 4 : c[4 + i] = z[i])
    BY <1>4, <2>1, <2>3 DEF Joined
  <2>5. QED
    BY <2>2, <2>3, <2>4
<1>7. PICK m \in Seq(Byte) : m = s.message /\ m = h \o r /\ Len(m) = 8 + l
        /\ (\A i \in 1 .. 8 : m[i] = h[i]) /\ (\A i \in 1 .. l : m[8 + i] = r[i])
  <2>1. Joined(Byte, h, r, h \o r)
    BY ConcatIs
  <2>2. s.message = h \o r
    BY <1>1, <1>2, <1>6 DEF Good, Complete, Start
  <2>3. PICK c : c = h \o r
    OBVIOUS
  <2>4. /\ c \in Seq(Byte) /\ Len(c) = 8 + l
        /\ (\A i \in 1 .. 8 : c[i] = h[i]) /\ (\A i \in 1 .. l : c[8 + i] = r[i])
    BY <1>2, <1>6, <2>1, <2>3 DEF Joined
  <2>5. QED
    BY <2>2, <2>3, <2>4
<1>8. s.body_length = l
  <2>1. s.body_length = Len(m) - Len(h)
    BY <1>6, <1>7 DEF Good, Counted, Given
  <2>2. QED
    BY <1>2, <1>6, <1>7, <2>1
<1>9. LengthAt = 7
  BY <1>6 DEF LengthAt
<1>10. PICK b \in Seq(Byte) : b = Backfilled(s) /\ Len(b) = 8 + l
         /\ (\A i \in 1 .. 8 + l : b[i] = IF i = 7 THEN d ELSE m[i])
  <2>1. Backfilled(s) = [m EXCEPT ![7] = d]
    BY <1>5, <1>7, <1>8, <1>9 DEF Backfilled
  <2>2. PICK n \in Nat : n = 8 + l /\ n = Len(m)
    BY <1>7
  <2>3. PICK i : i = 7
    OBVIOUS
  <2>4. m \in [1 .. n -> Byte]
    BY <2>2
  <2>5. PICK c \in [1 .. n -> Byte] : c = [m EXCEPT ![i] = d]
    BY <2>4
  <2>6. \A k \in 1 .. n : c[k] = IF k = i THEN d ELSE m[k]
    BY <2>4, <2>5
  <2>7. c \in Seq(Byte) /\ Len(c) = n
    BY <2>5
  <2>8. QED
    BY <2>1, <2>2, <2>3, <2>5, <2>6, <2>7
<1>11. PICK g \in Seq(Byte) : g = x \o y /\ Len(g) = 8
        /\ (\A i \in 1 .. 4 : g[i] = x[i]) /\ (\A i \in 1 .. 4 : g[4 + i] = y[i])
  <2>1. Joined(Byte, x, y, x \o y)
    BY ConcatIs
  <2>2. PICK c : c = x \o y
    OBVIOUS
  <2>3. /\ c \in Seq(Byte) /\ Len(c) = 8
        /\ (\A i \in 1 .. 4 : c[i] = x[i]) /\ (\A i \in 1 .. 4 : c[4 + i] = y[i])
    BY <1>4, <2>1, <2>2 DEF Joined
  <2>4. QED
    BY <2>2, <2>3
<1>12. PICK e \in Seq(Byte) : e = g \o r /\ Len(e) = 8 + l
        /\ (\A i \in 1 .. 8 : e[i] = g[i]) /\ (\A i \in 1 .. l : e[8 + i] = r[i])
  <2>1. Joined(Byte, g, r, g \o r)
    BY ConcatIs
  <2>2. PICK c : c = g \o r
    OBVIOUS
  <2>3. /\ c \in Seq(Byte) /\ Len(c) = 8 + l
        /\ (\A i \in 1 .. 8 : c[i] = g[i]) /\ (\A i \in 1 .. l : c[8 + i] = r[i])
    BY <1>2, <1>11, <2>1, <2>2 DEF Joined
  <2>4. QED
    BY <2>2, <2>3
<1>13. b = e
  <2>1. ASSUME NEW i \in 1 .. 8 PROVE b[i] = e[i]
    <3>1. i \in 1 .. 8 + l
      OBVIOUS
    <3>2. CASE i \in 1 .. 4
      <4>1. b[i] = m[i]
        BY <1>10, <3>1, <3>2
      <4>2. m[i] = h[i] /\ e[i] = g[i]
        BY <1>7, <1>12
      <4>3. h[i] = x[i] /\ g[i] = x[i]
        BY <1>6, <1>11, <3>2
      <4>4. QED
        BY <4>1, <4>2, <4>3
    <3>3. CASE i \in 5 .. 8
      <4>1. PICK k \in 1 .. 4 : i = 4 + k
        <5>1. i - 4 \in 1 .. 4 /\ i = 4 + (i - 4)
          BY <3>3
        <5>2. QED
          BY <5>1
      <4>2. e[i] = y[k] /\ m[i] = z[k]
        BY <1>6, <1>7, <1>11, <1>12, <4>1
      <4>3. b[i] = IF i = 7 THEN d ELSE m[i]
        BY <1>10, <3>1
      <4>4. k = 1 \/ k = 2 \/ k = 3 \/ k = 4
        OBVIOUS
      <4>5. (i = 7 <=> k = 3)
        BY <4>1
      <4>6. k # 3 => y[k] = z[k]
        BY <1>4, <4>4
      <4>7. QED
        BY <1>4, <1>5, <4>2, <4>3, <4>5, <4>6
    <3>4. QED
      BY <3>2, <3>3
  <2>2. ASSUME NEW i \in 1 .. 8 + l, ~(i \in 1 .. 8) PROVE b[i] = e[i]
    <3>1. PICK k \in 1 .. l : i = 8 + k
      <4>1. i - 8 \in 1 .. l /\ i = 8 + (i - 8)
        BY <2>2
      <4>2. QED
        BY <4>1
    <3>2. i # 7
      BY <2>2
    <3>3. b[i] = m[i]
      BY <1>10, <2>2, <3>2
    <3>4. m[i] = r[k] /\ e[i] = r[k]
      BY <1>7, <1>12, <3>1
    <3>5. QED
      BY <3>3, <3>4
  <2>3. \A i \in 1 .. 8 + l : b[i] = e[i]
    BY <2>1, <2>2
  <2>4. Len(b) = Len(e) /\ \A i \in 1 .. Len(b) : b[i] = e[i]
    BY <1>10, <1>12, <2>3
  <2>5. QED
    BY <2>4, SeqEqual, Zenon
<1>14. Headers(a) \in Seq(Fields) /\ AllBytes(Headers(a)) = e
  <2>1. PICK p \in Fields, q \in Fields : p = BEGIN_STRING /\ q = LengthField(l)
    BY HeaderFields
  <2>2. PICK P \in Seq(Fields) : P = <<p, q>>
    <3>1. <<p, q>> \in Seq(Fields)
      OBVIOUS
    <3>2. QED
      BY <3>1
  <2>3. Headers(a) = P \o a
    BY <1>2, <2>1, <2>2 DEF Headers
  <2>4. AllBytes(P) = g
    <3>1. PICK O \in Seq(Fields) : O = <<>>
      <4>1. <<>> \in Seq(Fields)
        OBVIOUS
      <4>2. QED
        BY <4>1
    <3>2. PICK A \in Seq(Fields) : A = Append(O, p)
      <4>1. Append(O, p) \in Seq(Fields)
        OBVIOUS
      <4>2. QED
        BY <4>1
    <3>3. P = Append(A, q)
      <4>1. Len(A) = 1 /\ A[1] = p
        BY <3>1, <3>2
      <4>2. PICK B \in Seq(Fields) : B = Append(A, q) /\ Len(B) = 2 /\ B[1] = p /\ B[2] = q
        <5>1. PICK B : B = Append(A, q)
          OBVIOUS
        <5>2. /\ B \in Seq(Fields) /\ Len(B) = Len(A) + 1 /\ B[Len(A) + 1] = q
              /\ \A i \in 1 .. Len(A) : B[i] = A[i]
          BY <5>1, AppendProperties
        <5>3. 1 \in 1 .. Len(A) /\ Len(A) + 1 = 2
          BY <4>1
        <5>4. QED
          BY <4>1, <5>1, <5>2, <5>3
      <4>3. Len(P) = 2 /\ P[1] = p /\ P[2] = q
        BY <2>2
      <4>4. \A i \in 1 .. Len(P) : i = 1 \/ i = 2
        BY <4>3
      <4>5. \A i \in 1 .. Len(P) : P[i] = B[i]
        BY <4>2, <4>3, <4>4
      <4>6. P = B
        BY <4>2, <4>3, <4>5, SeqEqual
      <4>7. QED
        BY <4>2, <4>6
    <3>4. AllBytes(A) = AllBytes(O) \o x
      BY <1>3, <2>1, <3>2, AllBytesAppend
    <3>5. AllBytes(O) = <<>>
      BY <3>1, AllBytesEmpty
    <3>6. AllBytes(A) = x
      <4>1. <<>> \o x = x
        OBVIOUS
      <4>2. QED
        BY <3>4, <3>5, <4>1
    <3>7. AllBytes(P) = AllBytes(A) \o y
      BY <1>3, <2>1, <3>3, AllBytesAppend
    <3>8. QED
      BY <1>11, <3>6, <3>7
  <2>5. P \o a \in Seq(Fields)
    BY <1>1
  <2>6. AllBytes(P \o a) = g \o r
    BY <1>1, <1>2, <2>4, AllBytesConcat
  <2>7. QED
    BY <1>12, <2>3, <2>5, <2>6
<1>15. QED
  BY <1>1, <1>2, <1>8, <1>10, <1>13, <1>14 DEF Built

(* What the checksum that is not ended takes with it.                      *)
LEFTOVER == Field(CheckSum, <<"0", "c", "8", EQ, "FIX">>)

LEMMA LeftoverIs ==
  /\ LEFTOVER \in Fields /\ Clear(LEFTOVER) /\ LEFTOVER.tag = CheckSum
  /\ Len(Bytes(LEFTOVER)) = 8
  /\ Bytes(LEFTOVER) = CheckSumBytes \o Bytes(BEGIN_STRING)
<1>1. /\ "10" \in Byte /\ "0" \in Byte /\ "c" \in Byte /\ "8" \in Byte
      /\ EQ \in Byte /\ "FIX" \in Byte /\ CheckSum \in Byte
  BY DEF Byte, CheckSum
<1>2. /\ "0" # SOH /\ "c" # SOH /\ "8" # SOH /\ EQ # SOH /\ "FIX" # SOH /\ CheckSum # EQ
  BY DEF SOH, EQ, CheckSum
<1> HIDE DEF Byte
<1>3. PICK b0 \in Byte, bc \in Byte, b8 \in Byte, be \in Byte, bf \in Byte :
        b0 = "0" /\ bc = "c" /\ b8 = "8" /\ be = EQ /\ bf = "FIX"
  BY <1>1, Zenon
<1>4. PICK v \in Seq(Byte) :
        /\ v = <<"0", "c", "8", EQ, "FIX">> /\ Len(v) = 5
        /\ v[1] = b0 /\ v[2] = bc /\ v[3] = b8 /\ v[4] = be /\ v[5] = bf
  <2>1. PICK v : v = <<b0, bc, b8, be, bf>>
    OBVIOUS
  <2>2. v \in Seq(Byte) /\ Len(v) = 5
    BY <2>1
  <2>3. v[1] = b0 /\ v[2] = bc /\ v[3] = b8 /\ v[4] = be /\ v[5] = bf
    BY <2>1
  <2>4. v = <<"0", "c", "8", EQ, "FIX">>
    BY <1>3, <2>1, Zenon
  <2>5. QED
    BY <2>2, <2>3, <2>4
<1>5. PICK f \in Fields : f = LEFTOVER /\ f.tag = CheckSum /\ f.value = v
  <2>1. LEFTOVER = Field(CheckSum, v)
    BY <1>4, Zenon DEF LEFTOVER
  <2>2. Field(CheckSum, v) \in Fields
    BY <1>1, FieldType
  <2>3. Field(CheckSum, v).tag = CheckSum /\ Field(CheckSum, v).value = v
    BY DEF Field
  <2>4. QED
    BY <2>1, <2>2, <2>3
<1>6. Clear(f)
  <2>1. DOMAIN v = 1 .. 5
    BY <1>4
  <2>2. \A i \in 1 .. 5 : i = 1 \/ i = 2 \/ i = 3 \/ i = 4 \/ i = 5
    OBVIOUS
  <2>3. \A i \in 1 .. 5 : v[i] # SOH
    BY <1>2, <1>3, <1>4, <2>2
  <2>4. QED
    BY <1>2, <1>5, <2>1, <2>3 DEF Clear
<1>7. PICK q \in Seq(Byte), n \in Nat :
        /\ q = Bytes(f) /\ n = Len(f.value) /\ Len(q) = n + 3
        /\ q[1] = CheckSum /\ q[2] = EQ /\ q[n + 3] = SOH
        /\ \A i \in 1 .. n : q[i + 2] = v[i]
  BY <1>5, BytesAre
<1>8. /\ Len(q) = 8 /\ q[1] = "10" /\ q[2] = EQ /\ q[3] = "0" /\ q[4] = "c"
      /\ q[5] = "8" /\ q[6] = EQ /\ q[7] = "FIX" /\ q[8] = SOH
  <2>1. n = 5
    BY <1>4, <1>5, <1>7
  <2>2. /\ 1 \in 1 .. n /\ 2 \in 1 .. n /\ 3 \in 1 .. n /\ 4 \in 1 .. n /\ 5 \in 1 .. n
        /\ 1 + 2 = 3 /\ 2 + 2 = 4 /\ 3 + 2 = 5 /\ 4 + 2 = 6 /\ 5 + 2 = 7 /\ n + 3 = 8
    BY <2>1
  <2>3. q[3] = v[1] /\ q[4] = v[2] /\ q[5] = v[3] /\ q[6] = v[4] /\ q[7] = v[5]
    BY <1>7, <2>2
  <2>4. QED
    BY <1>3, <1>4, <1>7, <2>2, <2>3 DEF CheckSum
<1>9. PICK c \in Seq(Byte) :
        /\ c = CheckSumBytes /\ Len(c) = 4
        /\ c[1] = "10" /\ c[2] = EQ /\ c[3] = "0" /\ c[4] = "c"
  <2>1. PICK w \in Seq(Byte) : w = <<b0>> /\ Len(w) = 1 /\ w[1] = b0
    <3>1. <<b0>> \in Seq(Byte) /\ Len(<<b0>>) = 1 /\ <<b0>>[1] = b0
      OBVIOUS
    <3>2. QED
      BY <3>1
  <2>2. PICK g \in Fields : g = Field(CheckSum, w) /\ g.tag = CheckSum /\ g.value = w
    <3>1. Field(CheckSum, w) \in Fields
      BY <1>1, FieldType
    <3>2. Field(CheckSum, w).tag = CheckSum /\ Field(CheckSum, w).value = w
      BY DEF Field
    <3>3. QED
      BY <3>1, <3>2
  <2>3. PICK u \in Seq(Byte), l \in Nat :
          /\ u = Bytes(g) /\ l = Len(g.value) /\ Len(u) = l + 3
          /\ u[1] = g.tag /\ u[2] = EQ /\ \A i \in 1 .. l : u[i + 2] = g.value[i]
    BY BytesAre
  <2>4. Len(u) = 4 /\ u[3] = b0
    <3>1. l = 1 /\ 1 \in 1 .. l /\ 1 + 2 = 3
      BY <2>1, <2>2, <2>3
    <3>2. QED
      BY <2>1, <2>2, <2>3, <3>1
  <2>5. CheckSumBytes = [u EXCEPT ![4] = bc]
    BY <1>3, <2>1, <2>2, <2>3, Zenon DEF CheckSumBytes
  <2>6. PICK c : c = CheckSumBytes
    OBVIOUS
  <2>7. c \in Seq(Byte) /\ Len(c) = 4
    BY <2>6, CheckSumType DEF CHECKSUM_WIDTH
  <2>8. PICK i : i = 4
    OBVIOUS
  <2>9. c = [u EXCEPT ![i] = bc]
    BY <2>5, <2>6, <2>8
  <2>10. u \in [1 .. 4 -> Byte]
    <3>1. PICK n4 \in Nat : n4 = Len(u)
      OBVIOUS
    <3>2. u \in [1 .. n4 -> Byte]
      BY <3>1
    <3>3. QED
      BY <2>4, <3>1, <3>2
  <2>11. \A k \in 1 .. 4 : c[k] = IF k = i THEN bc ELSE u[k]
    BY <2>9, <2>10
  <2>12. c[1] = u[1] /\ c[2] = u[2] /\ c[3] = u[3] /\ c[4] = bc
    <3>1. 1 \in 1 .. 4 /\ 2 \in 1 .. 4 /\ 3 \in 1 .. 4 /\ 4 \in 1 .. 4 /\ 1 # i /\ 2 # i /\ 3 # i
      BY <2>8
    <3>2. QED
      BY <2>8, <2>11, <3>1
  <2>13. QED
    BY <1>3, <2>2, <2>3, <2>4, <2>6, <2>7, <2>12 DEF CheckSum
<1>10. PICK x \in Seq(Byte) :
        /\ x = Bytes(BEGIN_STRING) /\ Len(x) = 4
        /\ x[1] = "8" /\ x[2] = EQ /\ x[3] = "FIX" /\ x[4] = SOH
  <2>1. PICK k \in Int : k = 0
    OBVIOUS
  <2>2. BEGIN_STRING \in Fields
    BY <2>1, HeaderFields
  <2>3. Bytes(BEGIN_STRING) \in Seq(Byte)
    BY <2>2, BytesType
  <2>4. PICK x \in Seq(Byte) : x = Bytes(BEGIN_STRING)
    BY <2>3
  <2>5. QED
    BY <2>1, <2>4, HeaderFields DEF BeginString
<1>11. PICK e \in Seq(Byte) : e = c \o x /\ Len(e) = 8
        /\ (\A i \in 1 .. 4 : e[i] = c[i]) /\ (\A i \in 1 .. 4 : e[4 + i] = x[i])
  <2>1. Joined(Byte, c, x, c \o x)
    BY ConcatIs
  <2>2. PICK d : d = c \o x
    OBVIOUS
  <2>3. /\ d \in Seq(Byte) /\ Len(d) = 8
        /\ (\A i \in 1 .. 4 : d[i] = c[i]) /\ (\A i \in 1 .. 4 : d[4 + i] = x[i])
    BY <1>9, <1>10, <2>1, <2>2 DEF Joined
  <2>4. QED
    BY <2>2, <2>3
<1>12. q = e
  <2>0. 1 \in 1 .. 4 /\ 2 \in 1 .. 4 /\ 3 \in 1 .. 4 /\ 4 \in 1 .. 4
    OBVIOUS
  <2>1. /\ e[1] = c[1] /\ e[2] = c[2] /\ e[3] = c[3] /\ e[4] = c[4]
    BY <1>11, <2>0
  <2>2. e[4 + 1] = x[1] /\ e[4 + 2] = x[2] /\ e[4 + 3] = x[3] /\ e[4 + 4] = x[4]
    BY <1>11, <2>0
  <2>3. 4 + 1 = 5 /\ 4 + 2 = 6 /\ 4 + 3 = 7 /\ 4 + 4 = 8
    OBVIOUS
  <2>4. \A i \in 1 .. 8 : i = 1 \/ i = 2 \/ i = 3 \/ i = 4 \/ i = 5 \/ i = 6 \/ i = 7 \/ i = 8
    OBVIOUS
  <2>5. \A i \in 1 .. 8 : q[i] = e[i]
    BY <1>8, <1>9, <1>10, <2>1, <2>2, <2>3, <2>4
  <2>6. QED
    BY <1>8, <1>11, <2>5, SeqEqual
<1>13. QED
  BY <1>5, <1>6, <1>7, <1>8, <1>9, <1>10, <1>11, <1>12

(* What a proper message is made of.                                       *)
Sendable(a) == /\ a \in Seq(NewFields) /\ NoTagTwice(a)
               /\ Len(AllBytes(a)) <= MaxNumber
               /\ Len(a) + 2 <= MaxFields /\ Len(AllBytes(a)) + 16 <= MaxMessage

(* What stands in front of it.                                             *)
Leads(H, a) ==
  /\ H \in Seq(Fields) /\ Len(H) \in 1 .. 2
  /\ H[Len(H)] = LengthField(Len(AllBytes(a)))
  /\ \A i \in 1 .. Len(H) :
       /\ Clear(H[i]) /\ H[i].tag \in {BeginString, BodyLength}
       /\ H[i].tag = BodyLength <=> i = Len(H)
  /\ Len(AllBytes(H)) = 4 * Len(H)

(* The tags it has.                                                        *)
SentTags == {BeginString, BodyLength, CheckSum} \cup {f.tag : f \in NewFields}

(* What the parser is to store of it, before the checksum.                 *)
Storable(rs) == /\ rs \in Seq(Fields) /\ Len(rs) <= MaxFields
                /\ \A i \in 1 .. Len(rs) :
                     /\ rs[i].tag \in KnownTags \cap SentTags
                     /\ \A j \in 1 .. Len(rs) : rs[i].tag = rs[j].tag => i = j

LEMMA TagsDiffer ==
  /\ BeginString # BodyLength /\ BeginString # CheckSum /\ BodyLength # CheckSum
  /\ {BeginString, BodyLength, CheckSum} \subseteq KnownTags /\ EQ \notin KnownTags
BY TagAssumption DEF BeginString, BodyLength, CheckSum

(* A message of the builder, with what follows it, can be read.            *)
LEMMA TextOf ==
  ASSUME NEW a, Sendable(a), NEW H, Leads(H, a)
  PROVE  LET rs == H \o a
             fs == Append(rs, LEFTOVER)
             u == Len(AllBytes(rs)) + 4
         IN  /\ Storable(rs) /\ Readable(fs, u) /\ Len(fs) = Len(rs) + 1
             /\ \A i \in 1 .. Len(rs) : fs[i] = rs[i]
             /\ AllBytes(fs) = AllBytes(rs) \o Bytes(LEFTOVER)
             /\ u \in Nat /\ Len(AllBytes(fs)) = u + 4 /\ u + 4 <= MaxMessage
<1>1. PICK m \in Nat : m = Len(a) /\ a \in Seq(NewFields) /\ a \in Seq(Fields)
  <2>1. NewFields \subseteq Fields
    BY FieldAssumption, StringFields
  <2>2. a \in Seq(Fields)
    BY <2>1, SeqMonotonic DEF Sendable
  <2>3. QED
    BY <2>2 DEF Sendable
<1>2. PICK h \in 1 .. 2 : h = Len(H) /\ H \in Seq(Fields)
  BY DEF Leads
<1>3. PICK l \in Nat : l = Len(AllBytes(a)) /\ l <= MaxNumber /\ l + 16 <= MaxMessage
  BY <1>1, AllBytesConcat DEF Sendable
<1>4. PICK rs \in Seq(Fields) :
        /\ rs = H \o a /\ Len(rs) = h + m
        /\ \A i \in 1 .. h : rs[i] = H[i]
        /\ \A i \in 1 .. m : rs[h + i] = a[i]
  <2>1. Joined(Fields, H, a, H \o a)
    BY <1>1, <1>2, ConcatIs
  <2>2. PICK q : q = H \o a
    OBVIOUS
  <2>3. /\ q \in Seq(Fields) /\ Len(q) = h + m
        /\ \A i \in 1 .. h : q[i] = H[i]
        /\ \A i \in 1 .. m : q[h + i] = a[i]
    BY <1>1, <1>2, <2>1, <2>2 DEF Joined
  <2>4. QED
    BY <2>2, <2>3
<1>5. PICK fs \in Seq(Fields) :
        /\ fs = Append(rs, LEFTOVER) /\ Len(fs) = h + m + 1 /\ fs[h + m + 1] = LEFTOVER
        /\ \A i \in 1 .. h + m : fs[i] = rs[i]
  <2>1. PICK q : q = Append(rs, LEFTOVER)
    OBVIOUS
  <2>2. /\ q \in Seq(Fields) /\ Len(q) = Len(rs) + 1 /\ q[Len(rs) + 1] = LEFTOVER
        /\ \A i \in 1 .. Len(rs) : q[i] = rs[i]
    BY <2>1, LeftoverIs, AppendProperties
  <2>3. QED
    BY <1>4, <2>1, <2>2
<1>6. PICK A \in Seq(Byte), B \in Seq(Byte), D \in Seq(Byte), r \in Nat :
        /\ A = AllBytes(H) /\ B = AllBytes(a) /\ D = AllBytes(rs) /\ D = A \o B
        /\ r = Len(D) /\ r = 4 * h + l
  <2>1. PICK A \in Seq(Byte), B \in Seq(Byte) :
          A = AllBytes(H) /\ B = AllBytes(a) /\ AllBytes(rs) = A \o B
    BY <1>1, <1>2, <1>4, AllBytesConcat
  <2>2. Len(A) = 4 * h /\ Len(B) = l
    BY <1>2, <1>3, <2>1 DEF Leads
  <2>3. PICK D : D = A \o B
    OBVIOUS
  <2>4. Joined(Byte, A, B, D)
    BY <2>3, ConcatIs
  <2>5. D \in Seq(Byte) /\ Len(D) = 4 * h + l
    BY <2>2, <2>4 DEF Joined
  <2>6. 4 * h + l \in Nat
    OBVIOUS
  <2>7. QED
    BY <1>4, <2>1, <2>3, <2>5, <2>6
<1>7. PICK E \in Seq(Byte) : E = AllBytes(fs) /\ E = D \o Bytes(LEFTOVER) /\ Len(E) = r + 8
  <2>1. PICK L \in Seq(Byte) : L = Bytes(LEFTOVER) /\ Len(L) = 8
    BY LeftoverIs, BytesType
  <2>2. AllBytes(fs) = D \o L
    BY <1>5, <1>6, <2>1, LeftoverIs, AllBytesAppend
  <2>3. PICK E : E = D \o L
    OBVIOUS
  <2>4. Joined(Byte, D, L, E)
    BY <2>3, ConcatIs
  <2>5. E \in Seq(Byte) /\ Len(E) = r + 8
    BY <1>6, <2>1, <2>4 DEF Joined
  <2>6. QED
    BY <2>1, <2>2, <2>3, <2>5
<1>8. ASSUME NEW i \in 1 .. m
      PROVE  /\ Clear(a[i]) /\ a[i].tag \in KnownTags \ {BeginString, BodyLength, CheckSum}
             /\ a[i].tag \in SentTags
  <2>1. a[i] \in NewFields /\ a[i] \in Fields
    BY <1>1
  <2>2. /\ a[i].tag \in KnownTags \ {BeginString, BodyLength, CheckSum}
        /\ SOH \notin Range(a[i].value)
    BY <2>1, ClientAssumption
  <2>3. QED
    BY <2>1, <2>2, TagsDiffer DEF Clear, Range, SentTags
<1>9. ASSUME NEW i \in 1 .. h + m
      PROVE  \/ i \in 1 .. h /\ rs[i] = H[i]
             \/ \E k \in 1 .. m : i = h + k /\ rs[i] = a[k]
  <2>1. CASE i \in 1 .. h
    BY <1>4, <2>1
  <2>2. CASE ~(i \in 1 .. h)
    <3>1. i - h \in 1 .. m /\ i = h + (i - h)
      BY <2>2
    <3>2. QED
      BY <1>4, <3>1
  <2>3. QED
    BY <2>1, <2>2
<1>10. ASSUME NEW i \in 1 .. h + m
       PROVE  /\ Clear(rs[i]) /\ rs[i].tag \in KnownTags \cap SentTags /\ rs[i].tag # CheckSum
              /\ rs[i].tag = BodyLength => i = h
  <2>1. CASE i \in 1 .. h /\ rs[i] = H[i]
    BY <1>2, <2>1, TagsDiffer DEF Leads, SentTags
  <2>2. ASSUME NEW k \in 1 .. m, i = h + k, rs[i] = a[k]
        PROVE  /\ Clear(rs[i]) /\ rs[i].tag \in KnownTags \cap SentTags /\ rs[i].tag # CheckSum
               /\ rs[i].tag = BodyLength => i = h
    BY <1>8, <2>2
  <2>3. QED
    BY <1>9, <2>1, <2>2
<1>11. ASSUME NEW i \in 1 .. h + m, NEW j \in 1 .. h + m, rs[i].tag = rs[j].tag
       PROVE  i = j
  <2>1. ASSUME NEW x \in 1 .. h, NEW y \in 1 .. h, H[x].tag = H[y].tag PROVE x = y
    <3>1. /\ H[x].tag \in {BeginString, BodyLength} /\ (H[x].tag = BodyLength <=> x = h)
          /\ H[y].tag \in {BeginString, BodyLength} /\ (H[y].tag = BodyLength <=> y = h)
      BY <1>2 DEF Leads
    <3>2. QED
      BY <2>1, <3>1
  <2>2. ASSUME NEW x \in 1 .. m, NEW y \in 1 .. m, a[x].tag = a[y].tag PROVE x = y
    <3>1. IsInjective([n \in DOMAIN a |-> a[n].tag])
      BY DEF Sendable, NoTagTwice
    <3>2. DOMAIN a = 1 .. m
      BY <1>1
    <3>3. QED
      BY <2>2, <3>1, <3>2 DEF IsInjective
  <2>3. ASSUME NEW x \in 1 .. h, NEW y \in 1 .. m PROVE H[x].tag # a[y].tag
    BY <1>2, <1>8 DEF Leads
  <2>4. CASE i \in 1 .. h /\ rs[i] = H[i]
    <3>1. CASE j \in 1 .. h /\ rs[j] = H[j]
      BY <1>11, <2>1, <2>4, <3>1
    <3>2. ASSUME NEW y \in 1 .. m, j = h + y, rs[j] = a[y] PROVE FALSE
      BY <1>11, <2>3, <2>4, <3>2
    <3>3. QED
      BY <1>9, <3>1, <3>2
  <2>5. ASSUME NEW x \in 1 .. m, i = h + x, rs[i] = a[x] PROVE i = j
    <3>1. CASE j \in 1 .. h /\ rs[j] = H[j]
      BY <1>11, <2>3, <2>5, <3>1
    <3>2. ASSUME NEW y \in 1 .. m, j = h + y, rs[j] = a[y] PROVE i = j
      <4>1. x = y
        BY <1>11, <2>2, <2>5, <3>2
      <4>2. QED
        BY <2>5, <3>2, <4>1
    <3>3. QED
      BY <1>9, <3>1, <3>2
  <2>6. QED
    BY <1>9, <2>4, <2>5
<1>12. Storable(rs)
  <2>1. h + m <= MaxFields
    BY <1>1, RoomAssumption DEF Sendable
  <2>2. QED
    BY <1>4, <1>10, <1>11, <2>1 DEF Storable
<1>13. Readable(fs, r + 4)
  <2>1. \A i \in 1 .. h + m + 1 :
          Clear(fs[i]) /\ (fs[i].tag = CheckSum <=> i = h + m + 1)
          /\ (fs[i].tag = BodyLength => i = h)
    <3> TAKE i \in 1 .. h + m + 1
    <3>1. CASE i = h + m + 1
      BY <1>5, <3>1, LeftoverIs, TagsDiffer
    <3>2. CASE i \in 1 .. h + m
      BY <1>5, <1>10, <3>2
    <3>3. QED
      BY <3>1, <3>2
  <2>2. fs[h] = LengthField(l)
    <3>1. h \in 1 .. h /\ h \in 1 .. h + m
      OBVIOUS
    <3>2. H[h] = LengthField(l)
      BY <1>2, <1>3 DEF Leads
    <3>3. QED
      BY <1>4, <1>5, <3>1, <3>2
  <2>3. parseInt(fs[h].value) = l
    <3>1. LengthField(l).value = <<Digits(l)>>
      BY HeaderFields
    <3>2. parseInt(<<Digits(l)>>) = l
      BY <1>3, NumberRead, NumberAssumption DEF Numbers
    <3>3. QED
      BY <2>2, <3>1, <3>2
  <2>4. End(fs, h) = 4 * h
    <3>1. PICK F \in Seq(Fields) : F = First(fs, h) /\ Len(F) = h /\ \A i \in 1 .. h : F[i] = fs[i]
      <4>1. h \in 0 .. Len(fs)
        BY <1>5
      <4>2. PICK j : j = h /\ j \in 0 .. Len(fs)
        BY <4>1
      <4>3. /\ First(fs, j) \in Seq(Fields) /\ Len(First(fs, j)) = j
            /\ \A i \in 1 .. j : First(fs, j)[i] = fs[i]
        BY <4>2, FirstIs
      <4>4. QED
        BY <4>2, <4>3
    <3>2. \A i \in 1 .. h : i \in 1 .. h + m
      OBVIOUS
    <3>3. \A i \in 1 .. h : F[i] = H[i]
      BY <1>4, <1>5, <3>1, <3>2
    <3>4. F = H
      BY <1>2, <3>1, <3>3, SeqEqual
    <3>5. QED
      BY <1>2, <3>1, <3>4 DEF End, Leads
  <2>5. 4 * h - 1 + l + CHECKSUM_WIDTH <= r + 4
    BY <1>6 DEF CHECKSUM_WIDTH
  <2>6. r + 4 \in Nat /\ r + 4 <= Len(AllBytes(fs))
    BY <1>7
  <2>7. ASSUME NEW i \in 1 .. h + m + 1, fs[i].tag = BodyLength
        PROVE  End(fs, i) - 1 + parseInt(fs[i].value) + CHECKSUM_WIDTH <= r + 4
    <3>1. i = h
      BY <2>1, <2>7
    <3>2. QED
      BY <2>3, <2>4, <2>5, <3>1
  <2>8. QED
    BY <1>5, <2>1, <2>6, <2>7 DEF Readable
<1>14. r + 4 \in Nat /\ r + 8 = (r + 4) + 4 /\ (r + 4) + 4 <= MaxMessage
  BY <1>3, <1>6, RoomAssumption
<1>15. /\ H \o a = rs /\ Append(H \o a, LEFTOVER) = fs /\ Len(AllBytes(H \o a)) = r
  BY <1>4, <1>5, <1>6
<1>16. Len(fs) = Len(rs) + 1 /\ \A i \in 1 .. Len(rs) : fs[i] = rs[i]
  BY <1>4, <1>5
<1>17. QED
  BY <1>6, <1>7, <1>12, <1>13, <1>14, <1>15, <1>16

(* The header leads, with the version or without it.                       *)
LEMMA HeaderLeads ==
  ASSUME NEW a, Sendable(a)
  PROVE  LET w == LengthField(Len(AllBytes(a)))
         IN  /\ a \in Seq(Fields) /\ <<w>> \o a \in Seq(Fields)
             /\ Leads(<<BEGIN_STRING, w>>, a) /\ Leads(<<w>>, a)
             /\ Headers(a) = <<BEGIN_STRING, w>> \o a
             /\ Tail(Headers(a)) = <<w>> \o a
             /\ AllBytes(Headers(a)) = Bytes(BEGIN_STRING) \o AllBytes(<<w>> \o a)
<1>1. PICK l \in Nat : l = Len(AllBytes(a)) /\ l <= MaxNumber
  <2>1. a \in Seq(Fields)
    BY FieldAssumption, StringFields, SeqMonotonic DEF Sendable
  <2>2. QED
    BY <2>1, AllBytesConcat DEF Sendable
<1>2. PICK aa \in Seq(Fields) : aa = a
  BY FieldAssumption, StringFields, SeqMonotonic DEF Sendable
<1>3. PICK p \in Fields, w \in Fields :
        /\ p = BEGIN_STRING /\ w = LengthField(l) /\ p.tag = BeginString /\ w.tag = BodyLength
        /\ Len(Bytes(p)) = 4 /\ Len(Bytes(w)) = 4 /\ p.value = <<"FIX">> /\ w.value = <<Digits(l)>>
  BY HeaderFields
<1>4. Clear(p) /\ Clear(w)
  <2>1. BeginString # EQ /\ BodyLength # EQ /\ "FIX" # SOH /\ Digits(l) # SOH
    BY <1>1, NumberAssumption DEF Numbers, BeginString, BodyLength, EQ, SOH
  <2>2. DOMAIN <<"FIX">> = {1} /\ <<"FIX">>[1] = "FIX"
    OBVIOUS
  <2>3. DOMAIN <<Digits(l)>> = {1} /\ <<Digits(l)>>[1] = Digits(l)
    OBVIOUS
  <2>4. (\A i \in DOMAIN p.value : p.value[i] # SOH) /\ (\A i \in DOMAIN w.value : w.value[i] # SOH)
    BY <1>3, <2>1, <2>2, <2>3
  <2>5. QED
    BY <1>3, <2>1, <2>4 DEF Clear
<1>5. PICK O \in Seq(Fields) : O = <<>>
  <2>1. <<>> \in Seq(Fields)
    OBVIOUS
  <2>2. QED
    BY <2>1
<1>6. PICK P \in Seq(Fields) : P = <<p>> /\ Len(P) = 1 /\ P[1] = p /\ P = Append(O, p)
  <2>1. <<p>> \in Seq(Fields) /\ Len(<<p>>) = 1 /\ <<p>>[1] = p /\ <<p>> = Append(<<>>, p)
    OBVIOUS
  <2>2. QED
    BY <1>5, <2>1
<1>7. PICK W \in Seq(Fields) : W = <<w>> /\ Len(W) = 1 /\ W[1] = w /\ W = Append(O, w)
  <2>1. <<w>> \in Seq(Fields) /\ Len(<<w>>) = 1 /\ <<w>>[1] = w /\ <<w>> = Append(<<>>, w)
    OBVIOUS
  <2>2. QED
    BY <1>5, <2>1
<1>8. PICK D \in Seq(Fields) : /\ D = <<p, w>> /\ Len(D) = 2 /\ D[1] = p /\ D[2] = w
                               /\ D = P \o W
  <2>1. <<p, w>> \in Seq(Fields) /\ Len(<<p, w>>) = 2 /\ <<p, w>>[1] = p /\ <<p, w>>[2] = w
    OBVIOUS
  <2>2. PICK D \in Seq(Fields) : D = <<p, w>> /\ Len(D) = 2 /\ D[1] = p /\ D[2] = w
    BY <2>1
  <2>3. PICK E : E = P \o W
    OBVIOUS
  <2>4. Joined(Fields, P, W, E)
    BY <2>3, ConcatIs
  <2>5. 1 \in 1 .. Len(P) /\ 1 \in 1 .. Len(W) /\ Len(P) + 1 = 2 /\ Len(P) + Len(W) = 2
    BY <1>6, <1>7
  <2>6. E \in Seq(Fields) /\ Len(E) = 2 /\ E[1] = p /\ E[2] = w
    BY <1>6, <1>7, <2>4, <2>5 DEF Joined
  <2>7. \A i \in 1 .. Len(D) : i = 1 \/ i = 2
    BY <2>2
  <2>8. Len(D) = Len(E) /\ \A i \in 1 .. Len(D) : D[i] = E[i]
    BY <2>2, <2>6, <2>7
  <2>9. D = E
    BY <2>2, <2>6, <2>8, SeqEqual
  <2>10. QED
    BY <2>2, <2>3, <2>9
<1>9. ASSUME NEW f \in Fields, Len(Bytes(f)) = 4
      PROVE  AllBytes(Append(O, f)) = Bytes(f)
  <2>1. PICK b \in Seq(Byte) : b = Bytes(f)
    BY BytesType
  <2>2. AllBytes(Append(O, f)) = AllBytes(O) \o b
    BY <2>1, AllBytesAppend
  <2>3. AllBytes(O) = <<>>
    BY <1>5, AllBytesEmpty
  <2>4. <<>> \o b = b
    OBVIOUS
  <2>5. QED
    BY <2>1, <2>2, <2>3, <2>4
<1>10. AllBytes(P) = Bytes(p) /\ AllBytes(W) = Bytes(w)
  BY <1>3, <1>6, <1>7, <1>9
<1>11. Len(AllBytes(D)) = 8
  <2>1. PICK x \in Seq(Byte), y \in Seq(Byte) : x = Bytes(p) /\ y = Bytes(w)
    BY BytesType
  <2>2. AllBytes(D) = x \o y
    BY <1>8, <1>10, <2>1, AllBytesConcat
  <2>3. Len(x \o y) = Len(x) + Len(y)
    OBVIOUS
  <2>4. QED
    BY <1>3, <2>1, <2>2, <2>3
<1>12. Leads(W, a)
  <2>1. \A i \in 1 .. Len(W) : i = 1
    BY <1>7
  <2>2. Len(AllBytes(W)) = 4 * Len(W)
    BY <1>3, <1>7, <1>10
  <2>3. QED
    BY <1>1, <1>3, <1>4, <1>7, <2>1, <2>2 DEF Leads
<1>13. Leads(D, a)
  <2>1. \A i \in 1 .. Len(D) : i = 1 \/ i = 2
    BY <1>8
  <2>2. Len(AllBytes(D)) = 4 * Len(D)
    BY <1>8, <1>11
  <2>3. \A i \in 1 .. Len(D) :
          /\ Clear(D[i]) /\ D[i].tag \in {BeginString, BodyLength}
          /\ D[i].tag = BodyLength <=> i = Len(D)
    BY <1>3, <1>4, <1>8, <2>1, TagsDiffer
  <2>4. QED
    BY <1>1, <1>3, <1>8, <2>2, <2>3 DEF Leads
<1>14. Headers(a) = D \o aa
  BY <1>1, <1>2, <1>3, <1>8 DEF Headers
<1>15. PICK wa \in Seq(Fields) : wa = W \o aa
  <2>1. W \o aa \in Seq(Fields)
    OBVIOUS
  <2>2. QED
    BY <2>1
<1>16. Headers(a) = P \o wa
  <2>1. (P \o W) \o aa = P \o (W \o aa)
    OBVIOUS
  <2>2. QED
    BY <1>8, <1>14, <1>15, <2>1
<1>17. AllBytes(Headers(a)) = Bytes(p) \o AllBytes(wa)
  BY <1>10, <1>16, AllBytesConcat
<1>18. Tail(Headers(a)) = wa
  <2>1. PICK c \in Seq(Fields), n \in Nat :
          /\ c = P \o wa /\ n = Len(wa) /\ Len(c) = 1 + n
          /\ \A i \in 1 .. n : c[1 + i] = wa[i]
    <3>1. Joined(Fields, P, wa, P \o wa)
      BY ConcatIs
    <3>2. PICK c : c = P \o wa
      OBVIOUS
    <3>3. /\ c \in Seq(Fields) /\ Len(c) = 1 + Len(wa)
          /\ \A i \in 1 .. Len(wa) : c[1 + i] = wa[i]
      BY <1>6, <3>1, <3>2 DEF Joined
    <3>4. PICK n \in Nat : n = Len(wa)
      OBVIOUS
    <3>5. QED
      BY <3>2, <3>3, <3>4
  <2>2. PICK t \in Seq(Fields) : t = Tail(c) /\ Len(t) = n /\ \A i \in 1 .. n : t[i] = c[i + 1]
    <3>1. c # <<>>
      BY <2>1
    <3>2. /\ Tail(c) \in Seq(Fields) /\ Len(Tail(c)) = Len(c) - 1
          /\ \A i \in 1 .. Len(Tail(c)) : Tail(c)[i] = c[i + 1]
      BY <3>1, HeadTailProperties
    <3>3. PICK t : t = Tail(c)
      OBVIOUS
    <3>4. Len(t) = n
      BY <2>1, <3>2, <3>3
    <3>5. QED
      BY <3>2, <3>3, <3>4
  <2>3. \A i \in 1 .. n : i + 1 = 1 + i
    OBVIOUS
  <2>4. \A i \in 1 .. n : t[i] = wa[i]
    BY <2>1, <2>2, <2>3
  <2>5. t = wa
    BY <2>1, <2>2, <2>4, SeqEqual
  <2>6. QED
    BY <1>16, <2>1, <2>2, <2>5
<1>19. QED
  BY <1>1, <1>2, <1>3, <1>7, <1>8, <1>12, <1>13, <1>14, <1>15, <1>17, <1>18

-----------------------------------------------------------------------------
(* The line: message k stands where the one before it ended, and all of it *)
(* has been sent.  A proper one is a header, what the client added and a   *)
(* checksum that is not ended.                                             *)
From(k) == IF k = 1 THEN 0 ELSE sent[k - 1].end

Sent(k, a) == /\ Sendable(a) /\ sent[k].fields = Headers(a)
              /\ sent[k].end = From(k) + Len(AllBytes(Headers(a))) + 4
              /\ Shows(From(k), AllBytes(Headers(a)) \o CheckSumBytes)

OnLine(k) == /\ From(k) \in 0 .. Len(stream) /\ sent[k].end \in From(k) .. Len(stream)
             /\ sent[k].proper => \E a : Sent(k, a)

Line == /\ \E S : sent \in Seq(S)
        /\ \A k \in 1 .. Len(sent) : OnLine(k)
        /\ Len(stream) = From(Len(sent) + 1)

(* Bytes one after the other are on the stream when both parts are.        *)
LEMMA ShowsJoin ==
  ASSUME NEW p \in Nat, NEW q \in Seq(Byte), NEW r \in Seq(Byte),
         Shows(p, q), Shows(p + Len(q), r), Len(stream) \in Nat
  PROVE  Shows(p, q \o r)
<1>1. PICK m \in Nat, l \in Nat : m = Len(q) /\ l = Len(r)
  OBVIOUS
<1>2. PICK x : x = q \o r
  OBVIOUS
<1>3. /\ Len(x) = m + l
      /\ \A i \in 1 .. m : x[i] = q[i]
      /\ \A i \in 1 .. l : x[m + i] = r[i]
  <2>1. Joined(Byte, q, r, x)
    BY <1>2, ConcatIs
  <2>2. QED
    BY <1>1, <2>1 DEF Joined
<1>4. ASSUME NEW i \in 1 .. m + l, p + i <= Len(stream) PROVE stream[p + i] = x[i]
  <2>1. CASE i \in 1 .. m
    BY <1>1, <1>3, <1>4, <2>1 DEF Shows
  <2>2. CASE ~(i \in 1 .. m)
    <3>1. PICK k \in 1 .. l : i = m + k
      <4>1. i - m \in 1 .. l /\ i = m + (i - m)
        BY <2>2
      <4>2. QED
        BY <4>1
    <3>2. p + i = (p + m) + k
      BY <3>1
    <3>3. stream[(p + m) + k] = r[k]
      BY <1>1, <1>4, <3>2 DEF Shows
    <3>4. QED
      BY <1>3, <3>1, <3>2, <3>3
  <2>3. QED
    BY <2>1, <2>2
<1>5. QED
  BY <1>2, <1>3, <1>4 DEF Shows

(* A proper message can be sent.                                           *)
LEMMA ProperIs ==
  ASSUME NEW s, Good(s), Given(s), s.clean, s.headed, NoTagTwice(s.added), FitsParser(s)
  PROVE  Sendable(s.added)
<1>1. PICK a : a = s.added /\ a \in Seq(NewFields) /\ a \in Seq(Fields)
  BY BuiltIs
<1>2. PICK l \in Nat : l = Len(AllBytes(a)) /\ s.body_length = l
  BY <1>1, BuiltIs
<1>3. PICK e \in Seq(Byte), c \in Seq(Byte) :
        /\ e = AllBytes(Headers(a)) /\ c = CheckSumBytes /\ Len(e) = l + 8 /\ Len(c) = 4
  <2>1. AllBytes(Headers(a)) \in Seq(Byte)
    BY <1>1, BuiltIs, AllBytesConcat
  <2>2. QED
    BY <1>1, <1>2, <2>1, BuiltIs, CheckSumType DEF CHECKSUM_WIDTH
<1>4. Len(Built(s)) = l + 12
  <2>1. Built(s) = e \o c
    BY <1>1, <1>3, BuiltIs
  <2>2. PICK x : x = e \o c
    OBVIOUS
  <2>3. Joined(Byte, e, c, x)
    BY <2>2, ConcatIs
  <2>4. QED
    BY <1>3, <2>1, <2>2, <2>3 DEF Joined
<1>5. l + 16 <= MaxMessage
  <2>1. Len(Bytes(BEGIN_STRING)) = 4
    BY HeaderFields
  <2>2. QED
    BY <1>4, <2>1 DEF FitsParser
<1>6. QED
  BY <1>1, <1>2, <1>5 DEF FitsParser, Sendable

(* A message that is sent comes after all the others.                      *)
LEMMA LineGrows ==
  ASSUME StreamInv, Line, BuilderInv, GivenInv, NEW b \in Builders, Send(b)
  PROVE  /\ Line' /\ Len(sent) \in Nat /\ Len(sent') = Len(sent) + 1
         /\ Len(stream') \in Nat /\ Len(stream) <= Len(stream')
         /\ \A k \in 1 .. Len(sent) : sent'[k] = sent[k]
         /\ \A k \in 1 .. Len(sent) + 1 : From(k)' = From(k)
         /\ ~closed /\ closed' = closed /\ UNCHANGED parserVars
<1>1. PICK n \in Nat, s \in Seq(Byte) : s = stream /\ n = Len(s)
  BY DEF StreamInv
<1>2. PICK w : w = builders[b] /\ Good(w) /\ Given(w)
  BY DEF BuilderInv, GivenInv
<1>3. PICK q \in Seq(Byte), l \in Nat : q = Built(w) /\ l = Len(q)
  <2>1. Built(w) \in Seq(Byte)
    BY <1>2, BuiltType DEF Good
  <2>2. QED
    BY <2>1
<1>4. PICK t : t = stream' /\ t \in Seq(Byte) /\ Len(t) = n + l
               /\ (\A i \in 1 .. n : t[i] = s[i])
               /\ (\A i \in 1 .. l : t[n + i] = q[i])
  <2>1. PICK t : t = s \o q
    OBVIOUS
  <2>2. Joined(Byte, s, q, t)
    BY <2>1, ConcatIs
  <2>3. stream' = t
    BY <1>1, <1>2, <1>3, <2>1 DEF Send
  <2>4. QED
    BY <1>1, <1>3, <2>2, <2>3 DEF Joined
<1>5. PICK r : /\ sent' = Append(sent, r) /\ r.end = n + l
               /\ r.fields = Headers(w.added)
               /\ r.proper = (w.clean /\ w.headed /\ NoTagTwice(w.added) /\ FitsParser(w))
  <2>1. PICK r : r = [fields |-> Headers(w.added),
                      proper |-> /\ w.clean /\ w.headed
                                 /\ NoTagTwice(w.added) /\ FitsParser(w),
                      framed |-> w.clean /\ w.headed, end |-> Len(stream) + Len(Built(w))]
    OBVIOUS
  <2>2. sent' = Append(sent, r)
    BY <1>2, <2>1 DEF Send, Headers
  <2>3. /\ r.end = Len(stream) + Len(Built(w)) /\ r.fields = Headers(w.added)
        /\ r.proper = (w.clean /\ w.headed /\ NoTagTwice(w.added) /\ FitsParser(w))
    BY <2>1
  <2>4. QED
    BY <1>1, <1>3, <2>2, <2>3
<1>6. PICK m \in Nat : m = Len(sent)
  BY DEF Line
<1>7. /\ Len(sent') = m + 1 /\ sent'[m + 1] = r
      /\ \A k \in 1 .. m : sent'[k] = sent[k]
      /\ \E S : sent' \in Seq(S)
  <2>1. PICK S : sent \in Seq(S)
    BY DEF Line
  <2>2. PICK T : T = S \cup {r}
    OBVIOUS
  <2>3. sent \in Seq(T) /\ r \in T
    <3>1. S \subseteq T /\ r \in T
      BY <2>2
    <3>2. QED
      BY <2>1, <3>1, SeqMonotonic
  <2>4. Append(sent, r) \in Seq(T) /\ Len(Append(sent, r)) = m + 1
    BY <1>6, <2>3
  <2>5. Append(sent, r)[m + 1] = r /\ \A k \in 1 .. m : Append(sent, r)[k] = sent[k]
    BY <1>6, <2>3
  <2>6. QED
    BY <1>5, <2>4, <2>5
<1>8. \A k \in 1 .. m + 1 : From(k)' = From(k)
  <2> TAKE k \in 1 .. m + 1
  <2>1. CASE k = 1
    BY <2>1 DEF From
  <2>2. CASE k # 1
    <3>1. k - 1 \in 1 .. m
      BY <2>2
    <3>2. QED
      BY <1>7, <2>2, <3>1 DEF From
  <2>3. QED
    BY <2>1, <2>2
<1>9. n = From(m + 1)
  BY <1>1, <1>6 DEF Line
<1>10. ASSUME NEW k \in 1 .. m PROVE OnLine(k)'
  <2>0. k \in 1 .. m + 1
    OBVIOUS
  <2>1. OnLine(k) /\ sent'[k] = sent[k] /\ From(k)' = From(k)
    <3>1. OnLine(k)
      BY <1>6 DEF Line
    <3>2. From(k)' = From(k)
      BY <1>8, <2>0
    <3>3. QED
      BY <1>7, <3>1, <3>2
  <2>2. PICK p \in Nat, e \in Nat : p = From(k) /\ e = sent[k].end /\ p <= e /\ e <= n
    <3>1. From(k) \in 0 .. n /\ sent[k].end \in From(k) .. n
      BY <1>1, <2>1 DEF OnLine
    <3>2. PICK p, e : p = From(k) /\ e = sent[k].end
      OBVIOUS
    <3>3. p \in Nat /\ e \in Nat /\ p <= e /\ e <= n
      BY <3>1, <3>2
    <3>4. QED
      BY <3>2, <3>3
  <2>3. p \in 0 .. Len(t) /\ e \in p .. Len(t)
    BY <1>4, <2>2
  <2>4. ASSUME NEW a, Sent(k, a) PROVE Sent(k, a)'
    <3>1. PICK y \in Seq(Byte), c \in Seq(Byte), x \in Seq(Byte) :
            /\ y = AllBytes(Headers(a)) /\ c = CheckSumBytes /\ x = y \o c
            /\ Len(x) = Len(y) + 4
      <4>1. a \in Seq(Fields) /\ Headers(a) = <<BEGIN_STRING, LengthField(Len(AllBytes(a)))>> \o a
        BY <2>4, HeaderLeads DEF Sent
      <4>2. Leads(<<BEGIN_STRING, LengthField(Len(AllBytes(a)))>>, a)
        BY <2>4, HeaderLeads DEF Sent
      <4>3. Headers(a) \in Seq(Fields)
        BY <4>1, <4>2 DEF Leads
      <4>4. PICK y \in Seq(Byte), c \in Seq(Byte) :
              y = AllBytes(Headers(a)) /\ c = CheckSumBytes /\ Len(c) = 4
        BY <4>3, AllBytesConcat, CheckSumType DEF CHECKSUM_WIDTH
      <4>5. PICK x : x = y \o c
        OBVIOUS
      <4>6. Joined(Byte, y, c, x)
        BY <4>5, ConcatIs
      <4>7. x \in Seq(Byte) /\ Len(x) = Len(y) + 4
        BY <4>4, <4>6 DEF Joined
      <4>8. QED
        BY <4>4, <4>5, <4>7
    <3>2. PICK h \in Nat : h = Len(x) /\ p + h <= n
      <4>1. PICK h \in Nat, g \in Nat : h = Len(x) /\ g = Len(y) /\ h = g + 4
        BY <3>1
      <4>2. e = p + g + 4
        BY <2>2, <2>4, <3>1, <4>1 DEF Sent
      <4>3. QED
        BY <2>2, <4>1, <4>2
    <3>3. \A i \in 1 .. h : p + i \in 1 .. n
      BY <3>2
    <3>4. \A i \in 1 .. h : s[p + i] = x[i]
      <4>1. Shows(p, x)
        BY <2>2, <2>4, <3>1 DEF Sent
      <4>2. \A i \in 1 .. h : p + i <= Len(stream) => stream[p + i] = x[i]
        BY <3>2, <4>1 DEF Shows
      <4>3. QED
        BY <1>1, <3>3, <4>2
    <3>5. \A i \in 1 .. h : t[p + i] = x[i]
      BY <1>4, <3>3, <3>4
    <3>6. Shows(p, x)'
      BY <1>4, <3>2, <3>5 DEF Shows
    <3>7. QED
      BY <2>1, <2>2, <2>4, <3>1, <3>6 DEF Sent, Shows
  <2>5. QED
    BY <1>4, <2>1, <2>2, <2>3, <2>4 DEF OnLine
<1>11. OnLine(m + 1)'
  <2>1. From(m + 1)' = n /\ sent'[m + 1].end = n + l
    BY <1>5, <1>7, <1>8, <1>9
  <2>2. n \in 0 .. Len(t) /\ n + l \in n .. Len(t)
    BY <1>4
  <2>3. ASSUME r.proper PROVE Sent(m + 1, w.added)'
    <3>1. Sendable(w.added)
      BY <1>2, <1>5, <2>3, ProperIs
    <3>2. w.clean /\ w.headed
      BY <1>5, <2>3
    <3>3. PICK a : a = w.added
      OBVIOUS
    <3>4. q = AllBytes(Headers(a)) \o CheckSumBytes /\ Headers(a) \in Seq(Fields)
      BY <1>2, <1>3, <3>2, <3>3, BuiltIs
    <3>5. l = Len(AllBytes(Headers(a))) + 4
      <4>1. PICK y \in Seq(Byte), c \in Seq(Byte) :
              y = AllBytes(Headers(a)) /\ c = CheckSumBytes /\ Len(c) = 4
        BY <3>4, AllBytesConcat, CheckSumType DEF CHECKSUM_WIDTH
      <4>2. Joined(Byte, y, c, q)
        BY <3>4, <4>1, ConcatIs
      <4>3. QED
        BY <1>3, <4>1, <4>2 DEF Joined
    <3>6. Shows(n, q)'
      BY <1>3, <1>4 DEF Shows
    <3>7. sent'[m + 1].fields = Headers(a)
      BY <1>5, <1>7, <3>3
    <3>8. sent'[m + 1].end = n + Len(AllBytes(Headers(a))) + 4
      <4>1. PICK g \in Nat : g = Len(AllBytes(Headers(a)))
        BY <3>4, AllBytesConcat
      <4>2. QED
        BY <2>1, <3>5, <4>1
    <3>9. QED
      BY <2>1, <3>1, <3>3, <3>4, <3>6, <3>7, <3>8 DEF Sent, Shows
  <2>4. QED
    BY <1>4, <1>7, <2>1, <2>2, <2>3 DEF OnLine
<1>12. From(Len(sent) + 1)' = n + l
  <2>1. Len(sent') + 1 # 1 /\ (Len(sent') + 1) - 1 = m + 1
    BY <1>6, <1>7
  <2>2. QED
    BY <1>5, <1>7, <2>1 DEF From
<1>13. Line'
  <2>1. \A k \in 1 .. m + 1 : OnLine(k)'
    BY <1>10, <1>11
  <2>2. QED
    BY <1>4, <1>7, <1>12, <2>1 DEF Line
<1>14. QED
  BY <1>1, <1>4, <1>6, <1>7, <1>8, <1>13 DEF Send

(* The line does not change when nothing is sent.                          *)
LEMMA LineStays ==
  ASSUME Line, UNCHANGED <<stream, sent>>
  PROVE  Line'
<1>1. stream' = stream /\ sent' = sent
  OBVIOUS
<1>2. \A k : From(k)' = From(k)
  BY <1>1 DEF From
<1>3. \A p, q : Shows(p, q) => Shows(p, q)'
  BY <1>1 DEF Shows
<1>4. \A k, a : Sent(k, a) => Sent(k, a)'
  BY <1>1, <1>2, <1>3 DEF Sent, Shows
<1>5. \A k : OnLine(k) => OnLine(k)'
  BY <1>1, <1>2, <1>4 DEF OnLine
<1>6. QED
  BY <1>1, <1>2, <1>5 DEF Line

(* What the parser reads of message k: the version of all but the first    *)
(* was read before, and that of the next comes with it.                    *)
Read(k) == IF k = 1 THEN sent[k].fields ELSE Tail(sent[k].fields)
Text(k) == Append(Read(k), LEFTOVER)
Origin(k) == IF k = 1 THEN 0 ELSE From(k) + 4

(* The text of message k, which is rs and the rest of a checksum, can be   *)
(* read, and ends with the version of the next message.                    *)
TextOK(k, rs, fs, l) ==
  /\ rs = Read(k) /\ fs = Text(k) /\ l = Len(AllBytes(rs))
  /\ Storable(rs) /\ Readable(fs, l + 4) /\ Len(fs) = Len(rs) + 1
  /\ \A i \in 1 .. Len(rs) : fs[i] = rs[i]
  /\ l \in Nat /\ Len(AllBytes(fs)) = l + 8 /\ l + 8 <= MaxMessage
  /\ Origin(k) \in Nat /\ sent[k].end = Origin(k) + l + 4
  /\ Shows(Origin(k), AllBytes(fs))

LEMMA TextIs ==
  ASSUME Line, Len(stream) \in Nat, NEW k \in 1 .. Len(sent), sent[k].proper,
         k + 1 \in 1 .. Len(sent) => sent[k + 1].proper
  PROVE  \E rs, fs, l : TextOK(k, rs, fs, l)
<1>1. PICK m \in Nat : m = Len(sent)
  BY DEF Line
<1>2. PICK a : Sent(k, a)
  BY DEF Line, OnLine
<1>3. PICK p \in Nat, e \in Nat : p = From(k) /\ e = sent[k].end
  <2>1. From(k) \in 0 .. Len(stream) /\ sent[k].end \in From(k) .. Len(stream)
    BY DEF Line, OnLine
  <2>2. PICK p, e : p = From(k) /\ e = sent[k].end
    OBVIOUS
  <2>3. p \in Nat /\ e \in Nat
    BY <2>1, <2>2
  <2>4. QED
    BY <2>2, <2>3
<1>4. PICK w : w = LengthField(Len(AllBytes(a)))
  OBVIOUS
<1>5. /\ a \in Seq(Fields) /\ <<w>> \o a \in Seq(Fields)
      /\ Leads(<<BEGIN_STRING, w>>, a) /\ Leads(<<w>>, a)
      /\ Headers(a) = <<BEGIN_STRING, w>> \o a
      /\ Tail(Headers(a)) = <<w>> \o a
      /\ AllBytes(Headers(a)) = Bytes(BEGIN_STRING) \o AllBytes(<<w>> \o a)
  BY <1>2, <1>4, HeaderLeads DEF Sent
<1>6. PICK x \in Seq(Byte), c \in Seq(Byte) :
        x = Bytes(BEGIN_STRING) /\ Len(x) = 4 /\ c = CheckSumBytes /\ Len(c) = 4
  <2>1. BEGIN_STRING \in Fields /\ Len(Bytes(BEGIN_STRING)) = 4
    BY HeaderFields
  <2>2. QED
    BY <2>1, BytesType, CheckSumType DEF CHECKSUM_WIDTH
<1>7. PICK hs : hs = Headers(a) /\ hs \in Seq(Fields)
  <2>1. <<BEGIN_STRING, w>> \in Seq(Fields)
    BY <1>5 DEF Leads
  <2>2. PICK q \in Seq(Fields) : q = <<BEGIN_STRING, w>>
    BY <2>1
  <2>3. q \o a \in Seq(Fields)
    BY <1>5
  <2>4. QED
    BY <1>5, <2>2, <2>3
<1>8. PICK y \in Seq(Byte), z \in Seq(Byte) :
        y = AllBytes(hs) /\ z = AllBytes(<<w>> \o a) /\ y = x \o z /\ Len(y) = 4 + Len(z)
  <2>1. PICK y \in Seq(Byte), z \in Seq(Byte) : y = AllBytes(hs) /\ z = AllBytes(<<w>> \o a)
    BY <1>5, <1>7, AllBytesConcat
  <2>2. y = x \o z
    BY <1>5, <1>6, <1>7, <2>1
  <2>3. Joined(Byte, x, z, y)
    BY <2>2, ConcatIs
  <2>4. Len(y) = Len(x) + Len(z)
    BY <2>3 DEF Joined
  <2>5. Len(y) = 4 + Len(z)
    BY <1>6, <2>4
  <2>6. QED
    BY <2>1, <2>2, <2>5
<1>9. /\ Shows(p, y) /\ Shows(p + Len(y), c) /\ e = p + Len(y) + 4
      /\ Shows(p, x) /\ Shows(p + 4, z)
  <2>1. Shows(p, y \o c) /\ e = p + Len(y) + 4
    BY <1>2, <1>3, <1>6, <1>7, <1>8 DEF Sent
  <2>2. Shows(p, y) /\ Shows(p + Len(y), c)
    BY <2>1, ShowsParts
  <2>3. Shows(p, x \o z)
    BY <1>8, <2>2
  <2>5. Shows(p, x) /\ Shows(p + Len(x), z)
    BY <2>3, ShowsParts
  <2>6. Shows(p + 4, z)
    BY <1>6, <2>5
  <2>7. QED
    BY <2>1, <2>2, <2>5, <2>6
<1>10. Shows(e, x)
  <2>0. k + 1 # 1 /\ (k + 1) - 1 = k
    OBVIOUS
  <2>1. From(k + 1) = e
    BY <1>3, <2>0 DEF From
  <2>2. CASE k = m
    <3>1. Len(stream) = e
      BY <1>1, <2>1, <2>2 DEF Line
    <3>2. \A i \in 1 .. Len(x) : ~(e + i <= Len(stream))
      BY <1>3, <3>1
    <3>3. QED
      BY <3>2 DEF Shows
  <2>3. CASE k # m
    <3>1. k + 1 \in 1 .. m
      BY <1>1, <2>3
    <3>2. PICK d : Sent(k + 1, d)
      BY <1>1, <3>1 DEF Line, OnLine
    <3>3. PICK v : v = LengthField(Len(AllBytes(d)))
      OBVIOUS
    <3>4. /\ <<v>> \o d \in Seq(Fields) /\ d \in Seq(Fields) /\ Leads(<<BEGIN_STRING, v>>, d)
          /\ AllBytes(Headers(d)) = Bytes(BEGIN_STRING) \o AllBytes(<<v>> \o d)
      BY <3>2, <3>3, HeaderLeads DEF Sent
    <3>5. PICK r \in Seq(Byte) : r = AllBytes(<<v>> \o d)
      BY <3>4, AllBytesConcat
    <3>6. PICK g \in Seq(Byte) : g = x \o r
      <4>1. x \o r \in Seq(Byte)
        OBVIOUS
      <4>2. QED
        BY <4>1
    <3>7. Shows(e, g \o c)
      BY <1>6, <2>1, <3>2, <3>4, <3>5, <3>6 DEF Sent
    <3>8. Shows(e, g)
      BY <3>7, ShowsParts
    <3>9. QED
      BY <3>6, <3>8, ShowsParts
  <2>4. QED
    BY <2>2, <2>3
<1>11. PICK L \in Seq(Byte) : L = Bytes(LEFTOVER) /\ L = c \o x /\ Len(L) = 8
  <2>1. Bytes(LEFTOVER) \in Seq(Byte)
    BY LeftoverIs, BytesType
  <2>2. QED
    BY <1>6, <2>1, LeftoverIs
<1>12. Shows(p + Len(y), L)
  <2>1. PICK n \in Nat : n = p + Len(y)
    OBVIOUS
  <2>2. Shows(n, c) /\ Shows(n + Len(c), x)
    BY <1>6, <1>9, <1>10, <2>1
  <2>3. QED
    BY <1>11, <2>1, <2>2, ShowsJoin
<1>13. ASSUME NEW H, Leads(H, a), Read(k) = H \o a, NEW q \in Seq(Byte),
              q = AllBytes(H \o a), NEW o \in Nat, o = Origin(k),
              Shows(o, q), o + Len(q) = p + Len(y)
       PROVE  \E rs, fs, l : TextOK(k, rs, fs, l)
  <2>1. PICK rs, fs, l : rs = H \o a /\ fs = Append(rs, LEFTOVER) /\ l = Len(q)
    OBVIOUS
  <2>2. /\ Storable(rs) /\ Readable(fs, l + 4) /\ Len(fs) = Len(rs) + 1
        /\ \A i \in 1 .. Len(rs) : fs[i] = rs[i]
        /\ AllBytes(fs) = q \o L
        /\ Len(AllBytes(fs)) = (l + 4) + 4 /\ (l + 4) + 4 <= MaxMessage
    <3>1. Sendable(a)
      BY <1>2 DEF Sent
    <3>2. PICK u : u = Len(AllBytes(H \o a)) + 4
      OBVIOUS
    <3>3. /\ Storable(rs) /\ Readable(fs, u) /\ Len(fs) = Len(rs) + 1
          /\ \A i \in 1 .. Len(rs) : fs[i] = rs[i]
          /\ AllBytes(fs) = AllBytes(rs) \o Bytes(LEFTOVER)
          /\ Len(AllBytes(fs)) = u + 4 /\ u + 4 <= MaxMessage
      BY <1>13, <2>1, <3>1, <3>2, TextOf
    <3>4. u = l + 4 /\ AllBytes(rs) = q
      BY <1>13, <2>1, <3>2
    <3>5. QED
      BY <1>11, <3>3, <3>4
  <2>3. l \in Nat /\ (l + 4) + 4 = l + 8
    BY <2>1
  <2>4. Shows(o, q \o L)
    BY <1>12, <1>13, ShowsJoin
  <2>5. e = o + l + 4
    BY <1>9, <1>13, <2>1
  <2>6. rs = Read(k) /\ fs = Text(k)
    BY <1>13, <2>1 DEF Text
  <2>7. QED
    BY <1>3, <1>13, <2>1, <2>2, <2>3, <2>4, <2>5, <2>6 DEF TextOK
<1>14. sent[k].fields = hs
  BY <1>2, <1>7 DEF Sent
<1>15. CASE k = 1
  <2>1. p = 0 /\ Origin(k) = 0
    BY <1>3, <1>15 DEF From, Origin
  <2>2. Read(k) = <<BEGIN_STRING, w>> \o a
    BY <1>5, <1>7, <1>14, <1>15 DEF Read
  <2>3. y = AllBytes(<<BEGIN_STRING, w>> \o a)
    BY <1>5, <1>7, <1>8
  <2>4. QED
    BY <1>5, <1>9, <1>13, <2>1, <2>2, <2>3
<1>16. CASE k # 1
  <2>1. PICK o \in Nat : o = Origin(k) /\ o = p + 4
    BY <1>3, <1>16 DEF Origin
  <2>2. Read(k) = <<w>> \o a
    BY <1>5, <1>7, <1>14, <1>16 DEF Read
  <2>3. o + Len(z) = p + Len(y)
    <3>1. PICK g \in Nat : g = Len(z)
      OBVIOUS
    <3>2. Len(y) = 4 + g
      BY <1>8, <3>1
    <3>3. QED
      BY <2>1, <3>1, <3>2
  <2>4. QED
    BY <1>5, <1>8, <1>9, <1>13, <2>1, <2>2, <2>3
<1>17. QED
  BY <1>15, <1>16

-----------------------------------------------------------------------------
(* What the parser has of a message without groups.                        *)

(* Entry e refers to field i of fs.                                        *)
Refers(e, fs, i) == /\ e.tag = fs[i].tag /\ e.groups = 0
                    /\ e.offset = End(fs, i - 1) + 2 /\ e.length = Len(fs[i].value)

(* The one map of ms holds the first j of them.                            *)
Holding(ms, fs, j) == /\ Len(ms) = 1 /\ ms[1].next = 0 /\ Len(ms[1].fields) = j
                      /\ \A i \in 1 .. j : Refers(ms[1].fields[i], fs, i)

Kept(fs, j) == Holding(maps, fs, j) /\ map = 1 /\ stack = <<>>

(* No field that is sent opens a group of gs, or of any message type.      *)
Groupless(gs) == /\ \E S : gs \in Seq(S)
                 /\ \A i \in 1 .. Len(gs) : gs[i].count \notin SentTags
NoGroups == \A t \in DOMAIN Defs : Groupless(Defs[t])

(* A field that is sent starts none.                                       *)
LEMMA StartsNone ==
  ASSUME NoGroups, Groupless(msg_groups), NEW f, f.tag \in SentTags
  PROVE  Groupless(GroupsNow(f)) /\ ~Starts(f)
<1>1. Groupless(<<>>)
  <2>1. <<>> \in Seq({}) /\ Len(<<>>) = 0
    OBVIOUS
  <2>2. QED
    BY <2>1 DEF Groupless
<1>2. PICK gs : gs = GroupsNow(f) /\ Groupless(gs)
  BY <1>1 DEF GroupsNow, NoGroups
<1>3. PICK n \in Nat : n = Len(gs)
  BY <1>2 DEF Groupless
<1>4. ASSUME Starts(f) PROVE FALSE
  <2>1. PICK I \in SUBSET Nat : I = {i \in 1 .. n : f.tag \in {gs[i].count, gs[i].end}}
    <3>1. {i \in 1 .. n : f.tag \in {gs[i].count, gs[i].end}} \in SUBSET Nat
      OBVIOUS
    <3>2. QED
      BY <3>1
  <2>2. Mention(f) = IF I # {} THEN Min(I) ELSE 0
    BY <1>2, <1>3, <2>1 DEF Mention, SelectInSeq
  <2>3. PICK i : i = Mention(f)
    OBVIOUS
  <2>4. i # 0 /\ gs[i].count = f.tag
    BY <1>2, <1>4, <2>3 DEF Starts, CountTag
  <2>5. i \in I
    BY <2>2, <2>3, <2>4, MinIs
  <2>6. i \in 1 .. Len(gs)
    BY <1>3, <2>1, <2>5
  <2>7. gs[i].count \notin SentTags
    BY <1>2, <2>6 DEF Groupless
  <2>8. QED
    BY <2>4, <2>7
<1>5. QED
  BY <1>2, <1>4

(* A field with a tag of its own is stored after the ones there are.       *)
LEMMA StoresNext ==
  ASSUME StreamInv, NEW fs, NEW j \in Nat, Kept(fs, j), NEW f, Whole(f), Refers(Entry(f), fs, j + 1),
         \A i \in 1 .. j : fs[i].tag # f.tag
  PROVE  /\ Holding(Stored(f), fs, j + 1) /\ find(maps[1], f.tag) = 0
         /\ Full(maps[map], f.tag) <=> j = MaxFields
<1>1. PICK ms \in MapSeqs : ms = maps /\ Len(ms) = 1 /\ DOMAIN ms = 1 .. 1
  BY MapSeqIs DEF StreamInv, ParserInv, MapsOK, Kept, Holding
<1>2. PICK m \in MapType : m = ms[1] /\ m.next = 0 /\ Len(m.fields) = j
                            /\ \A i \in 1 .. j : Refers(m.fields[i], fs, i)
  <2>1. 1 \in DOMAIN ms
    BY <1>1
  <2>2. ms[1] \in MapType
    BY <2>1, MapSeqIs
  <2>3. QED
    BY <1>1, <2>2 DEF Kept, Holding
<1>3. PICK q \in Seq(EntryType) : q = m.fields /\ Len(q) = j /\ DOMAIN q = 1 .. j
  <2>1. m.fields \in Seq(EntryType)
    BY DEF MapType, EntrySeqs
  <2>2. PICK q \in Seq(EntryType) : q = m.fields
    BY <2>1
  <2>3. QED
    BY <1>2, <2>2
<1>4. PICK e \in EntryType : e = Entry(f) /\ e.tag = f.tag
  BY EntryIs
<1>5. find(m, f.tag) = 0
  <2>1. PICK i : i = find(m, f.tag)
    OBVIOUS
  <2>2. i \in 0 .. j /\ (i # 0 => q[i].tag = f.tag)
    BY <1>2, <1>3, <2>1, FindIs
  <2>3. i \in 1 .. j => q[i].tag = fs[i].tag
    BY <1>2, <1>3 DEF Refers
  <2>4. QED
    BY <2>1, <2>2, <2>3
<1>6. PICK r \in Seq(EntryType) :
        /\ r = Append(q, e) /\ Len(r) = j + 1 /\ r[j + 1] = e
        /\ \A i \in 1 .. j : r[i] = q[i]
  <2>1. PICK r : r = Append(q, e)
    OBVIOUS
  <2>2. /\ r \in Seq(EntryType) /\ Len(r) = Len(q) + 1 /\ r[Len(q) + 1] = e
        /\ \A i \in 1 .. Len(q) : r[i] = q[i]
    BY <2>1, AppendProperties
  <2>3. QED
    BY <1>3, <2>1, <2>2
<1>7. PICK p : p = put(m, f) /\ p.fields = r /\ p.next = 0 /\ p \in MapType
  <2>1. put(m, f) = [m EXCEPT !.fields = r]
    BY <1>3, <1>4, <1>5, <1>6 DEF put, MapType
  <2>2. r \in EntrySeqs
    BY <1>6 DEF EntrySeqs
  <2>3. PICK p : p = [m EXCEPT !.fields = r]
    OBVIOUS
  <2>4. p.fields = r /\ p.next = m.next /\ p \in MapType
    BY <2>2, <2>3 DEF MapType
  <2>5. QED
    BY <1>2, <2>1, <2>3, <2>4
<1>8. PICK rs : rs = Stored(f) /\ Len(rs) = 1 /\ rs[1] = p
  <2>1. PICK rs : rs = [ms EXCEPT ![1] = p]
    OBVIOUS
  <2>2. Stored(f) = rs
    BY <1>1, <1>2, <1>7, <2>1 DEF Stored, Kept
  <2>3. ms \in Seq(MapType) /\ 1 \in DOMAIN ms
    BY <1>1 DEF MapSeqs
  <2>4. /\ Len(rs) = Len(ms)
        /\ \A i \in DOMAIN ms : rs[i] = IF i = 1 THEN p ELSE ms[i]
    BY <1>7, <2>1, <2>3, UpdateSeq
  <2>5. QED
    BY <1>1, <2>2, <2>3, <2>4
<1>9. \A i \in 1 .. j + 1 : Refers(r[i], fs, i)
  <2> TAKE i \in 1 .. j + 1
  <2>1. CASE i = j + 1
    BY <1>4, <1>6, <2>1
  <2>2. CASE i \in 1 .. j
    BY <1>2, <1>3, <1>6, <2>2
  <2>3. QED
    BY <2>1, <2>2
<1>10. Holding(Stored(f), fs, j + 1)
  BY <1>6, <1>7, <1>8, <1>9 DEF Holding
<1>11. map = 1 /\ maps[1] = m
  BY <1>1, <1>2 DEF Kept
<1>12. QED
  BY <1>2, <1>5, <1>10, <1>11 DEF Full

(* All fields but the last end before the checksum does.                   *)
LEMMA EndsWithin ==
  ASSUME Len(stream) \in Nat, NEW k, NEW rs, NEW fs, NEW l, TextOK(k, rs, fs, l)
  PROVE  \A i \in 0 .. Len(rs) : End(fs, i) \in Nat /\ End(fs, i) <= l
<1>1. PICK m \in Nat : /\ m = Len(rs) /\ rs \in Seq(Fields) /\ fs \in Seq(Fields)
                        /\ Len(fs) = m + 1 /\ \A i \in 1 .. m : fs[i] = rs[i]
  <2>1. rs \in Seq(Fields) /\ fs \in Seq(Fields)
    BY DEF TextOK, Storable, Readable
  <2>2. QED
    BY <2>1 DEF TextOK
<1>2. PICK o \in Nat : o = Origin(k) /\ Shows(o, AllBytes(fs))
  BY DEF TextOK
<1>3. Shows(o, AllBytes(rs))
  <2>1. PICK q \in Seq(Byte), r \in Seq(Byte) : q = AllBytes(rs) /\ r = Bytes(LEFTOVER)
    BY <1>1, AllBytesConcat, BytesType, LeftoverIs
  <2>2. fs = Append(rs, LEFTOVER)
    BY DEF TextOK, Text
  <2>3. AllBytes(fs) = q \o r
    BY <1>1, <2>1, <2>2, AllBytesAppend, LeftoverIs
  <2>4. Shows(o, q \o r)
    BY <1>2, <2>3
  <2>5. QED
    BY <2>1, <2>4, ShowsParts
<1>4. l = Len(AllBytes(rs)) /\ l \in Nat
  BY DEF TextOK
<1>5. ASSUME NEW i \in 0 .. m PROVE End(fs, i) = End(rs, i)
  <2>1. i \in 0 .. Len(fs) /\ i \in 0 .. Len(rs)
    BY <1>1
  <2>2. PICK a \in Seq(Fields), b \in Seq(Fields) :
          /\ a = First(fs, i) /\ b = First(rs, i) /\ Len(a) = i /\ Len(b) = i
          /\ \A n \in 1 .. i : a[n] = fs[n] /\ b[n] = rs[n]
    <3>1. PICK a \in Seq(Fields) :
            a = First(fs, i) /\ Len(a) = i /\ \A n \in 1 .. i : a[n] = fs[n]
      BY <1>1, <2>1, FirstIs
    <3>2. PICK b \in Seq(Fields) :
            b = First(rs, i) /\ Len(b) = i /\ \A n \in 1 .. i : b[n] = rs[n]
      BY <1>1, <2>1, FirstIs
    <3>3. QED
      BY <3>1, <3>2
  <2>3. \A n \in 1 .. Len(a) : a[n] = b[n]
    BY <1>1, <2>2
  <2>4. a = b
    BY <2>2, <2>3, SeqEqual
  <2>5. QED
    BY <2>2, <2>4 DEF End
<1>6. ASSUME NEW i \in 0 .. m PROVE End(fs, i) \in Nat /\ End(fs, i) <= l
  <2>1. CASE i = 0
    <3>1. PICK g \in Seq(Fields) : g = First(rs, i) /\ Len(g) = i
      <4>1. i \in 0 .. Len(rs)
        BY <1>1
      <4>2. QED
        BY <1>1, <4>1, FirstIs
    <3>2. g = <<>>
      BY <2>1, <3>1
    <3>3. End(rs, i) = 0
      BY <3>1, <3>2, AllBytesEmpty DEF End
    <3>4. QED
      BY <1>4, <1>5, <3>3
  <2>2. CASE i # 0
    <3>1. PICK j \in 0 .. Len(rs) - 1 : i = j + 1
      <4>1. i - 1 \in 0 .. Len(rs) - 1 /\ i = (i - 1) + 1
        BY <1>1, <2>2
      <4>2. QED
        BY <4>1
    <3>2. End(rs, j + 1) <= Len(AllBytes(rs))
      BY <1>1, <1>2, <1>3, <3>1, FieldInMessage
    <3>3. End(rs, i) \in Nat
      <4>1. First(rs, i) \in Seq(Fields)
        <5>1. i \in 0 .. Len(rs)
          BY <1>1
        <5>2. QED
          BY <1>1, <5>1, FirstIs
      <4>2. AllBytes(First(rs, i)) \in Seq(Byte)
        BY <4>1, AllBytesConcat
      <4>3. QED
        BY <4>2 DEF End
    <3>4. QED
      BY <1>4, <1>5, <3>1, <3>2, <3>3
  <2>3. QED
    BY <2>1, <2>2
<1>7. QED
  BY <1>1, <1>6

(* The parser of message k, whose text is fs, before field j + 1 of it.    *)
At(k, fs, j) == /\ begin = Origin(k) /\ j \in 0 .. Len(fs) - 1
                /\ cp = begin + End(fs, j) /\ Kept(fs, j)
                /\ sent[k].end <= Len(stream)

(* The field it meets there.                                               *)
MetAt(rs, fs, l, j) ==
  /\ NextField = IF begin + End(fs, j + 1) <= Len(stream) THEN {Seen(fs[j + 1], cp)} ELSE {}
  /\ Seen(fs[j + 1], cp).soh = begin + End(fs, j + 1)
  /\ End(fs, j + 1) \in Nat /\ End(fs, j + 1) <= l + 8
  /\ j < Len(rs) => End(fs, j + 1) <= l
  /\ j = Len(rs) => End(fs, j + 1) = l + 8 /\ Seen(fs[j + 1], cp).tag = CheckSum

(* When it is not the checksum, it goes next to the ones before it.        *)
GoesNext(rs, fs, j) ==
  LET f == Seen(fs[j + 1], cp) IN
  j < Len(rs) /\ Whole(f) =>
    /\ f.tag \in SentTags /\ ~Full(maps[map], f.tag) /\ Holding(Stored(f), fs, j + 1)

LEMMA MetIs ==
  ASSUME StreamInv, NEW k, NEW rs, NEW fs, NEW l, TextOK(k, rs, fs, l), NEW j, At(k, fs, j)
  PROVE  MetAt(rs, fs, l, j) /\ GoesNext(rs, fs, j)
<1>1. PICK n \in Nat, b \in Nat : n = Len(stream) /\ b = begin
  BY DEF StreamInv, ParserInv, Positions
<1>2. PICK m \in Nat : /\ m = Len(rs) /\ Len(fs) = m + 1 /\ rs \in Seq(Fields) /\ fs \in Seq(Fields)
                        /\ \A i \in 1 .. m : fs[i] = rs[i]
  <2>1. rs \in Seq(Fields) /\ fs \in Seq(Fields)
    BY DEF TextOK, Storable, Readable
  <2>2. QED
    BY <2>1 DEF TextOK
<1>3. j \in 0 .. m /\ j + 1 \in 1 .. m + 1
  BY <1>2 DEF At
<1>4. PICK g, x, y : g = fs[j + 1] /\ x = End(fs, j) /\ y = End(fs, j + 1)
  OBVIOUS
<1>5. l \in Nat /\ Len(AllBytes(fs)) = l + 8 /\ Shows(b, AllBytes(fs))
  BY <1>1 DEF TextOK, At
<1>6. /\ g \in Fields /\ x \in Nat /\ Shows(b + x, Bytes(g))
      /\ y = x + Len(Bytes(g)) /\ y <= l + 8 /\ (j = m => y = l + 8)
  <2>1. j \in 0 .. Len(fs) - 1
    BY DEF At
  <2>2. j = m => j + 1 = Len(fs)
    BY <1>2
  <2>3. QED
    BY <1>1, <1>2, <1>4, <1>5, <2>1, <2>2, FieldInMessage
<1>7. /\ Clear(g) /\ (g.tag = CheckSum <=> j = m)
  <2>1. Readable(fs, l + 4)
    BY DEF TextOK
  <2>2. Clear(g) /\ (g.tag = CheckSum <=> j + 1 = m + 1)
    BY <1>2, <1>3, <1>4, <2>1 DEF Readable
  <2>3. QED
    BY <1>2, <1>3, <2>2
<1>8. cp = b + x /\ Shows(cp, Bytes(g)) /\ cp + Len(Bytes(g)) = b + y /\ y \in Nat
  <2>1. cp = b + x
    BY <1>1, <1>4 DEF At
  <2>2. Len(Bytes(g)) \in Nat
    BY <1>6, BytesType
  <2>3. QED
    BY <1>6, <2>1, <2>2
<1>9. PICK f : f = Seen(g, cp) /\ f.soh = b + y /\ f.tag = stoft(<<g.tag>>)
               /\ f.offset = cp + 2 - begin /\ f.length = Len(g.value)
  <2>1. PICK f : f = Seen(g, cp)
    OBVIOUS
  <2>2. /\ f.soh = cp + Len(Bytes(g)) /\ f.tag = stoft(<<g.tag>>)
        /\ f.offset = cp + 2 - begin /\ f.length = Len(g.value)
    BY <2>1 DEF Seen
  <2>3. QED
    BY <1>8, <2>1, <2>2
<1>10. NextField = IF b + y <= n THEN {f} ELSE {}
  BY <1>1, <1>7, <1>8, <1>9, NextIs
<1>11. j < m => y <= l
  <2>1. j < m => j + 1 \in 0 .. Len(rs)
    BY <1>2, <1>3
  <2>2. QED
    BY <1>1, <1>4, <2>1, EndsWithin
<1>12. j = m => f.tag = CheckSum
  BY <1>7, <1>9, StoftIs
<1>13. MetAt(rs, fs, l, j)
  BY <1>1, <1>2, <1>4, <1>6, <1>8, <1>9, <1>10, <1>11, <1>12 DEF MetAt
<1>14. ASSUME j < m, Whole(f)
       PROVE  f.tag \in SentTags /\ ~Full(maps[map], f.tag) /\ Holding(Stored(f), fs, j + 1)
  <2>1. j + 1 \in 1 .. m /\ g = rs[j + 1]
    BY <1>2, <1>3, <1>4, <1>14
  <2>2. /\ g.tag \in KnownTags \cap SentTags
        /\ \A i \in 1 .. m : rs[j + 1].tag = rs[i].tag => j + 1 = i
        /\ m <= MaxFields
    BY <1>2, <2>1 DEF TextOK, Storable
  <2>3. f.tag = g.tag
    BY <1>9, <2>2, StoftIs
  <2>4. \A i \in 1 .. j : fs[i].tag # f.tag
    <3> TAKE i \in 1 .. j
    <3>1. i \in 1 .. m /\ j + 1 # i
      BY <1>3, <2>1
    <3>2. QED
      BY <1>2, <2>1, <2>2, <2>3, <3>1
  <2>5. Refers(Entry(f), fs, j + 1)
    <3>1. cp + 2 - begin = x + 2 /\ (j + 1) - 1 = j
      BY <1>1, <1>3, <1>6, <1>8
    <3>2. /\ Entry(f).tag = f.tag /\ Entry(f).offset = f.offset
          /\ Entry(f).length = f.length /\ Entry(f).groups = 0
      BY <1>14, EntryIs
    <3>3. QED
      BY <1>4, <1>9, <2>3, <3>1, <3>2 DEF Refers
  <2>6. j \in Nat /\ Kept(fs, j)
    BY <1>3 DEF At
  <2>7. /\ Holding(Stored(f), fs, j + 1) /\ (Full(maps[map], f.tag) <=> j = MaxFields)
    BY <1>14, <2>4, <2>5, <2>6, StoresNext
  <2>8. j # MaxFields
    BY <1>14, <1>3, <2>2, RoomAssumption
  <2>9. QED
    BY <2>2, <2>3, <2>7, <2>8
<1>15. GoesNext(rs, fs, j)
  BY <1>2, <1>4, <1>9, <1>14 DEF GoesNext
<1>16. QED
  BY <1>13, <1>15

(* It does not go past its buffers there,                                  *)
LEMMA TurnDefined ==
  ASSUME StreamInv, NEW k, NEW rs, NEW fs, NEW l, TextOK(k, rs, fs, l), NEW j, At(k, fs, j)
  PROVE  Defined /\ (NextField = {} => j = Len(rs) /\ begin + l + 8 > Len(stream))
<1>1. PICK n \in Nat, b \in Nat : n = Len(stream) /\ b = begin
  BY DEF StreamInv, ParserInv, Positions
<1>2. PICK m \in Nat : m = Len(rs) /\ Len(fs) = m + 1 /\ j \in 0 .. m /\ fs \in Seq(Fields)
  <2>1. rs \in Seq(Fields) /\ fs \in Seq(Fields)
    BY DEF TextOK, Storable, Readable
  <2>2. QED
    BY <2>1 DEF TextOK, At
<1>3. MetAt(rs, fs, l, j) /\ GoesNext(rs, fs, j)
  BY MetIs
<1>4. PICK g, f : g = fs[j + 1] /\ f = Seen(g, cp)
  OBVIOUS
<1>5. PICK y \in Nat :
        /\ y = End(fs, j + 1) /\ y <= l + 8 /\ f.soh = b + y
        /\ NextField = (IF b + y <= n THEN {f} ELSE {})
        /\ (j < m => y <= l) /\ (j = m => y = l + 8 /\ f.tag = CheckSum)
  BY <1>1, <1>2, <1>3, <1>4 DEF MetAt
<1>6. l \in Nat /\ l + 8 <= MaxMessage /\ MaxMessage \in Nat /\ b + l + 4 <= n
  <2>1. sent[k].end = b + l + 4 /\ sent[k].end <= n
    BY <1>1 DEF TextOK, At
  <2>2. QED
    BY <2>1, RoomAssumption DEF TextOK
<1>7. CASE b + y <= n
  <2>1. NextField = {f} /\ f \in NextField
    BY <1>5, <1>7
  <2>2. Whole(f)
    <3>1. f.soh \in Int /\ f.soh >= f.soh /\ Fits(f.soh)
      BY <1>1, <1>5, <1>6 DEF Fits
    <3>2. QED
      BY <2>1, <3>1, FieldIs DEF StreamInv, ParserInv
  <2>3. ReadTo(f) \in Nat /\ ReadTo(f) <= b + l + 8
    <3>1. f \in RawFields
      BY <2>2 DEF Whole
    <3>2. ReadTo(f) \in Int /\ ReadTo(f) >= f.soh
      BY <3>1, ReadToIs
    <3>3. Readable(fs, l + 4) /\ j + 1 \in 1 .. Len(fs)
      BY <1>2 DEF TextOK
    <3>4. /\ Clear(g)
          /\ g.tag = BodyLength => y - 1 + parseInt(g.value) + CHECKSUM_WIDTH <= l + 4
      BY <1>4, <1>5, <3>3 DEF Readable
    <3>5. Shows(cp, Bytes(g)) /\ b + y = cp + Len(Bytes(g))
      <4>1. cp = b + End(fs, j) /\ j \in 0 .. Len(fs) - 1 /\ Shows(b, AllBytes(fs))
        BY <1>1 DEF At, TextOK
      <4>2. /\ End(fs, j) \in Nat /\ g \in Fields /\ Shows(b + End(fs, j), Bytes(g))
            /\ y = End(fs, j) + Len(Bytes(g))
        BY <1>1, <1>2, <1>4, <1>5, <4>1, FieldInMessage
      <4>3. Len(Bytes(g)) \in Nat
        BY <4>2, BytesType
      <4>4. QED
        BY <4>1, <4>2, <4>3
    <3>6. PICK z \in Nat : z = b + y
      OBVIOUS
    <3>7. ReadTo(f) = IF g.tag = BodyLength
                      THEN Max({z, z - 1 + parseInt(g.value) + CHECKSUM_WIDTH})
                      ELSE z
      BY <1>1, <1>4, <1>7, <2>2, <3>4, <3>5, <3>6, ReadToSeen
    <3>8. PICK a \in Int : a = parseInt(g.value)
      BY NumberIs
    <3>9. CASE g.tag = BodyLength
      <4>1. ReadTo(f) = Max({z, z - 1 + a + 4}) /\ y - 1 + a + 4 <= l + 4
        BY <3>4, <3>7, <3>8, <3>9 DEF CHECKSUM_WIDTH
      <4>2. ReadTo(f) \in {z, z - 1 + a + 4}
        <5>1. PICK s \in Int, e \in Int : s = z /\ e = z - 1 + a + 4
          BY <3>6, <3>8
        <5>2. Max({s, e}) \in {s, e}
          BY MaxOfInts
        <5>3. QED
          BY <4>1, <5>1, <5>2
      <4>3. QED
        BY <1>5, <1>6, <3>2, <3>6, <3>8, <4>1, <4>2
    <3>10. CASE g.tag # BodyLength
      BY <1>5, <1>6, <3>6, <3>7, <3>10
    <3>11. QED
      BY <3>9, <3>10
  <2>4. Fits(Min({ReadTo(f), Len(stream)}))
    <3>1. PICK r \in Nat : r = ReadTo(f) /\ r <= b + l + 8
      BY <2>3
    <3>2. Min({r, n}) \in Nat /\ Min({r, n}) <= r
      BY MinOfTwo
    <3>3. Min({r, n}) - b <= MaxMessage
      BY <1>6, <3>1, <3>2
    <3>4. QED
      BY <1>1, <3>1, <3>3 DEF Fits
  <2>5. f.tag = CheckSum \/ CanStore(f)
    <3>1. CASE j = m
      BY <1>5, <3>1
    <3>2. CASE j # m
      <4>1. j < Len(rs)
        BY <1>2, <3>2
      <4>2. ~Full(maps[map], f.tag)
        BY <1>3, <1>4, <2>2, <4>1 DEF GoesNext
      <4>3. map # 0
        BY DEF At, Kept
      <4>4. QED
        BY <4>2, <4>3 DEF CanStore
    <3>3. QED
      BY <3>1, <3>2
  <2>6. QED
    BY <2>1, <2>4, <2>5 DEF Defined
<1>8. CASE ~(b + y <= n)
  <2>1. NextField = {}
    BY <1>5, <1>8
  <2>2. j = m
    BY <1>2, <1>5, <1>6, <1>8
  <2>3. y = l + 8
    BY <1>5, <2>2
  <2>4. Fits(Len(stream))
    BY <1>1, <1>6, <1>8, <2>3 DEF Fits
  <2>5. begin + l + 8 > Len(stream)
    BY <1>1, <1>6, <1>8, <2>3
  <2>6. QED
    BY <1>2, <2>1, <2>2, <2>4, <2>5 DEF Defined
<1>9. QED
  BY <1>7, <1>8

(* and stores a field, or ends with the message or with the stream.        *)
ReadsOn(rs, fs, l, j) ==
  /\ j < Len(rs) /\ Holding(maps', fs, j + 1) /\ map' = 1 /\ stack' = <<>>
  /\ Groupless(msg_groups') /\ cp' = begin + End(fs, j + 1)
  /\ taken' <= begin + l + 8 /\ UNCHANGED <<begin, parses, status>>

EndsHere(rs, fs, l, j) ==
  /\ j = Len(rs) /\ status' = "idle" /\ UNCHANGED <<begin, parses, groupVars>>
  /\ \/ outcome' = "complete" /\ taken' = begin + l + 8 /\ begin + l + 8 <= Len(stream)
     \/ closed /\ begin + l + 8 > Len(stream)

LEMMA TurnKeeps ==
  ASSUME StreamInv, NoGroups, NEW k, NEW rs, NEW fs, NEW l, TextOK(k, rs, fs, l),
         NEW j, At(k, fs, j), Groupless(msg_groups), taken <= begin + l + 8, ParserStep
  PROVE  ReadsOn(rs, fs, l, j) \/ EndsHere(rs, fs, l, j)
<1>1. PICK n \in Nat, b \in Nat, t \in Nat : n = Len(stream) /\ b = begin /\ t = taken
  BY DEF StreamInv, ParserInv, Positions
<1>2. PICK m \in Nat : m = Len(rs) /\ Len(fs) = m + 1 /\ j \in 0 .. m
  <2>1. rs \in Seq(Fields) /\ fs \in Seq(Fields)
    BY DEF TextOK, Storable, Readable
  <2>2. QED
    BY <2>1 DEF TextOK, At
<1>3. MetAt(rs, fs, l, j) /\ GoesNext(rs, fs, j)
  BY MetIs
<1>4. Defined /\ (NextField = {} => j = Len(rs) /\ begin + l + 8 > Len(stream))
  BY TurnDefined
<1>5. l \in Nat /\ Len(AllBytes(fs)) = l + 8 /\ b + l + 4 <= n
  <2>1. sent[k].end = b + l + 4 /\ sent[k].end <= n
    BY <1>1 DEF TextOK, At
  <2>2. QED
    BY <2>1 DEF TextOK
<1>6. TurnOf(fs, l + 4, j)
  <2>1. Readable(fs, l + 4)
    BY DEF TextOK
  <2>2. Reading(fs, j)
    BY DEF Reading, At, TextOK
  <2>3. QED
    BY <2>1, <2>2, TurnIs
<1>7. ~Undefined
  BY <1>4 DEF Undefined
<1>8. CASE EndOfInput
  <2>1. /\ NextField = {} /\ closed /\ status' = "idle" /\ maps' = maps
        /\ UNCHANGED <<begin, map, stack, msg_groups, parses>>
    BY <1>8 DEF EndOfInput, ParserReturn
  <2>2. QED
    BY <1>4, <2>1 DEF EndsHere, groupVars
<1>9. ASSUME NEW f \in {Seen(fs[j + 1], cp)}, f \in NextField,
             f.soh = begin + End(fs, j + 1), f.soh <= Len(stream),
             \/ j + 1 = Len(fs) /\ CheckSumField(f)
             \/ j + 1 < Len(fs) /\ CutShort(f) /\ begin + (l + 4) > Len(stream)
             \/ /\ j + 1 < Len(fs) /\ Stores(f)
                /\ ReadTo(f) <= begin + Len(AllBytes(fs))
      PROVE  ReadsOn(rs, fs, l, j) \/ EndsHere(rs, fs, l, j)
  <2>1. ~(begin + (l + 4) > Len(stream))
    BY <1>1, <1>5
  <2>2. CASE j + 1 = Len(fs) /\ CheckSumField(f)
    <3>1. j = m
      BY <1>2, <2>2
    <3>2. PICK h \in Nat : h = f.soh /\ h = b + l + 8 /\ h <= n
      <4>1. End(fs, j + 1) = l + 8
        BY <1>2, <1>3, <3>1 DEF MetAt
      <4>2. QED
        BY <1>1, <1>5, <1>9, <4>1
    <3>3. /\ taken' = Max({t, h}) /\ status' = "idle" /\ outcome' = "complete" /\ maps' = maps
          /\ UNCHANGED <<begin, map, stack, msg_groups, parses>>
      BY <1>1, <2>2, <3>2 DEF CheckSumField, ParserReturn
    <3>4. Max({t, h}) = h
      <4>1. t <= h
        BY <1>1, <3>2
      <4>2. Max({t, h}) \in {t, h} /\ h <= Max({t, h})
        BY MaxOfTwo
      <4>3. QED
        BY <4>1, <4>2
    <3>5. QED
      BY <1>1, <1>2, <3>1, <3>2, <3>3, <3>4 DEF EndsHere, groupVars
  <2>3. CASE j + 1 < Len(fs) /\ Stores(f) /\ ReadTo(f) <= begin + Len(AllBytes(fs))
    <3>1. j < m /\ Store(f)
      BY <1>2, <2>3 DEF Stores, PlainField, OpenGroup, NextGroup, CloseGroup
    <3>2. Whole(f)
      <4>1. stream' = stream /\ closed' = closed
        BY DEF ParserStep
      <4>2. QED
        BY <1>9, <3>1, <4>1, StoreInv DEF StreamInv
    <3>3. f.tag \in SentTags /\ Holding(Stored(f), fs, j + 1)
      BY <1>2, <1>3, <3>1, <3>2 DEF GoesNext
    <3>4. Groupless(GroupsNow(f)) /\ ~Starts(f)
      BY <3>3, StartsNone
    <3>5. stack = <<>> /\ map = 1
      BY DEF At, Kept
    <3>6. PlainField(f)
      BY <2>3, <3>4, <3>5 DEF Stores, OpenGroup, NextGroup, CloseGroup, Ends
    <3>7. /\ maps' = Stored(f) /\ map' = 1 /\ stack' = <<>> /\ msg_groups' = GroupsNow(f)
          /\ taken' = Max({taken, ReadTo(f)}) /\ cp' = f.soh
          /\ UNCHANGED <<begin, parses, status>>
      BY <3>1, <3>5, <3>6 DEF PlainField, Store
    <3>8. taken' <= begin + l + 8
      <4>1. PICK r \in Nat : r = ReadTo(f)
        <5>1. ReadTo(f) \in Int /\ ReadTo(f) >= f.soh /\ f.soh \in Nat
          BY <3>2, ReadToIs DEF Whole, RawFields
        <5>2. QED
          BY <5>1
      <4>2. taken' \in {t, r}
        BY <1>1, <3>7, <4>1, MaxOfTwo
      <4>3. t <= b + l + 8 /\ r <= b + l + 8
        BY <1>1, <1>5, <2>3, <4>1
      <4>4. QED
        BY <1>1, <4>2, <4>3
    <3>9. QED
      BY <1>2, <1>9, <3>1, <3>3, <3>4, <3>7, <3>8 DEF ReadsOn
  <2>4. QED
    BY <1>9, <2>1, <2>2, <2>3
<1>10. QED
  BY <1>6, <1>7, <1>8, <1>9 DEF TurnOf

-----------------------------------------------------------------------------
(* What a reader makes of it.                                              *)

(* Parts of one element put together are the sequence of the elements.     *)
LEMMA FlatSingles ==
  ASSUME NEW S, NEW q \in Seq(S), NEW ss, ss = [i \in DOMAIN q |-> <<q[i]>>]
  PROVE  FlattenSeq(ss) = q
<1>1. PICK m \in Nat : m = Len(q) /\ DOMAIN q = 1 .. m
  OBVIOUS
<1>2. PICK T : T = Seq(S)
  OBVIOUS
<1>3. \A i \in 1 .. m : <<q[i]>> \in T
  BY <1>1, <1>2
<1>4. [i \in 1 .. m |-> <<q[i]>>] \in Seq(T)
  BY <1>1, <1>3, IsASeq
<1>5. ss \in Seq(Seq(S)) /\ Len(ss) = m /\ \A i \in 1 .. m : ss[i] = <<q[i]>>
  BY <1>1, <1>2, <1>4
<1>6. PICK it : Unrolls(it, ss) /\ (Len(ss) # 0 => FlattenSeq(ss) = it[Len(ss)])
  BY <1>5, FlatIs
<1>7. \A i \in 1 .. m : it[i] \in Seq(S)
  BY <1>5, <1>6, FlatHolds
<1> DEFINE P == {i \in 1 .. m : Len(it[i]) = i /\ \A n \in 1 .. i : it[i][n] = q[n]}
<1>8. m # 0 => 1 \in P
  <2> SUFFICES ASSUME m # 0 PROVE 1 \in P
    OBVIOUS
  <2>1. it[1] = <<q[1]>>
    BY <1>5, <1>6 DEF Unrolls
  <2>2. PICK r : r = it[1] /\ Len(r) = 1 /\ r[1] = q[1]
    <3>1. PICK x : x = q[1]
      OBVIOUS
    <3>2. Len(<<x>>) = 1 /\ <<x>>[1] = x
      OBVIOUS
    <3>3. PICK r : r = <<x>>
      OBVIOUS
    <3>4. QED
      BY <2>1, <3>1, <3>2, <3>3
  <2>3. 1 \in 1 .. m /\ \A n \in 1 .. 1 : n = 1
    OBVIOUS
  <2>4. QED
    BY <2>1, <2>2, <2>3
<1>9. ASSUME NEW i \in 2 .. m, i - 1 \in P PROVE i \in P
  <2>1. i - 1 \in 1 .. m /\ i \in 1 .. m
    OBVIOUS
  <2>2. PICK r \in Seq(S) : /\ r = it[i - 1] /\ Len(r) = i - 1
                            /\ \A n \in 1 .. i - 1 : r[n] = q[n]
    BY <1>7, <1>9, <2>1
  <2>3. PICK x \in Seq(S) : x = <<q[i]>> /\ Len(x) = 1 /\ x[1] = q[i]
    <3>1. <<q[i]>> \in Seq(S)
      BY <1>1, <2>1
    <3>2. QED
      BY <3>1
  <2>4. PICK c : c = r \o x
    OBVIOUS
  <2>5. it[i] = c
    BY <1>5, <1>6, <2>1, <2>2, <2>3, <2>4 DEF Unrolls
  <2>6. Joined(S, r, x, c)
    BY <2>4, ConcatIs
  <2>7. Len(c) = i
    BY <2>2, <2>3, <2>6 DEF Joined
  <2>8. \A n \in 1 .. i - 1 : c[n] = q[n]
    BY <2>2, <2>6 DEF Joined
  <2>9. c[i] = q[i]
    <3>1. 1 \in 1 .. Len(x) /\ Len(r) + 1 = i
      BY <2>2, <2>3
    <3>2. QED
      BY <2>3, <2>6, <3>1 DEF Joined
  <2>10. \A n \in 1 .. i : n \in 1 .. i - 1 \/ n = i
    OBVIOUS
  <2>11. QED
    BY <2>1, <2>5, <2>7, <2>8, <2>9, <2>10
<1>10. 1 .. m \subseteq P
  <2> HIDE DEF P
  <2>1. QED
    BY <1>8, <1>9, IntervalInduct
<1>11. CASE m = 0
  <2>1. q = <<>> /\ ss = <<>>
    BY <1>1, <1>5, <1>11, EmptySeq
  <2>2. QED
    BY <2>1, FlatEmpty
<1>12. CASE m # 0
  <2>1. m \in P
    BY <1>10, <1>12
  <2>2. PICK c \in Seq(S) : c = it[m] /\ Len(c) = m /\ \A n \in 1 .. m : c[n] = q[n]
    BY <1>7, <2>1
  <2>3. c = q
    BY <1>1, <2>2, SeqEqual
  <2>4. QED
    BY <1>5, <1>6, <1>12, <2>2, <2>3
<1>13. QED
  BY <1>11, <1>12

(* In one map without groups no group is found,                            *)
LEMMA NoneFound ==
  ASSUME NEW ms \in MapSeqs, maps = ms, NEW fs, NEW j \in Nat, Holding(ms, fs, j), NEW t
  PROVE  GroupsIn(1, t) = <<>>
<1>1. Len(ms) = 1 /\ DOMAIN ms = 1 .. 1 /\ ms[1] \in MapType /\ ms[1].next = 0
  <2>1. Len(ms) = 1 /\ ms[1].next = 0
    BY DEF Holding
  <2>2. DOMAIN ms = 1 .. 1 /\ 1 \in DOMAIN ms
    BY <2>1, MapSeqIs
  <2>3. QED
    BY <2>1, <2>2, MapSeqIs
<1>2. Forward(Nx(ms), Len(ms)) /\ Nx(ms)[0] = 0
  BY <1>1 DEF Forward, Nx
<1>3. ASSUME NEW n \in 0 .. 1 PROVE getGroup(ms, 1, t, n) = 0
  <2>1. CASE find(ms[1], t) = 0
    BY <2>1 DEF getGroup, get
  <2>2. CASE find(ms[1], t) # 0
    <3>1. PICK i : i = find(ms[1], t)
      OBVIOUS
    <3>2. i \in 1 .. j
      <4>1. i \in 0 .. Len(ms[1].fields) /\ i # 0
        BY <1>1, <2>2, <3>1, FindIs
      <4>2. Len(ms[1].fields) = j
        BY DEF Holding
      <4>3. QED
        BY <4>1, <4>2
    <3>3. PICK e : e = ms[1].fields[i] /\ e.groups = 0
      BY <3>2 DEF Holding, Refers
    <3>4. getGroup(ms, 1, t, n) = group(ms, e, n)
      BY <2>2, <3>1, <3>3 DEF getGroup, get
    <3>5. e.groups \in 0 .. Len(ms)
      BY <1>1, <3>3
    <3>6. group(ms, e, 0) = 0 /\ group(ms, e, 0 + 1) = Nx(ms)[group(ms, e, 0)]
      BY <1>2, <3>3, <3>5, GroupSteps
    <3>7. group(ms, e, 1) = 0
      BY <1>2, <3>6
    <3>8. QED
      BY <3>4, <3>6, <3>7
  <2>3. QED
    BY <2>1, <2>2
<1>4. {m \in Maps : getGroup(maps, 1, t, m) # 0} = {}
  BY <1>1, <1>3 DEF Maps
<1>5. Cardinality({m \in Maps : getGroup(maps, 1, t, m) # 0}) = 0
  BY <1>4, FS_EmptySet
<1>6. GroupsIn(1, t) = [n \in 1 .. 0 |-> getGroup(maps, 1, t, n - 1)]
  BY <1>5 DEF GroupsIn
<1>7. QED
  BY <1>6

(* and every field with the value it was sent with.                        *)
LEMMA ValueFound ==
  ASSUME StreamInv, NEW k, NEW rs, NEW fs, NEW l, TextOK(k, rs, fs, l), begin = Origin(k),
         Holding(maps, fs, Len(rs)), sent[k].end <= Len(stream), NEW i \in 1 .. Len(rs)
  PROVE  FieldIn(1, maps[1].fields[i].tag) = rs[i]
<1>1. PICK n \in Nat, b \in Nat : n = Len(stream) /\ b = begin /\ stream \in Seq(Byte)
  BY DEF StreamInv, ParserInv, Positions
<1>2. PICK m \in Nat : /\ m = Len(rs) /\ Len(fs) = m + 1 /\ rs \in Seq(Fields) /\ fs \in Seq(Fields)
                        /\ fs[i] = rs[i]
  <2>1. rs \in Seq(Fields) /\ fs \in Seq(Fields)
    BY DEF TextOK, Storable, Readable
  <2>2. QED
    BY <2>1 DEF TextOK
<1>3. PICK ms \in MapSeqs : ms = maps
  BY DEF StreamInv, ParserInv, MapsOK
<1>4. PICK q : q = ms[1] /\ q \in MapType /\ Len(q.fields) = m
               /\ \A h \in 1 .. m : Refers(q.fields[h], fs, h)
  <2>1. Len(ms) = 1 /\ Len(ms[1].fields) = m /\ \A h \in 1 .. m : Refers(ms[1].fields[h], fs, h)
    BY <1>2, <1>3 DEF Holding
  <2>2. 1 \in DOMAIN ms
    BY <2>1, MapSeqIs
  <2>3. QED
    BY <2>1, <2>2, MapSeqIs
<1>5. PICK t : t = q.fields[i].tag /\ t = rs[i].tag
  BY <1>2, <1>4 DEF Refers
<1>6. find(q, t) = i
  <2>1. PICK h : h = find(q, t)
    OBVIOUS
  <2>2. /\ h \in 0 .. m /\ (h # 0 => q.fields[h].tag = t)
        /\ h = 0 => \A g \in DOMAIN q.fields : q.fields[g].tag # t
    BY <1>4, <2>1, FindIs
  <2>3. i \in DOMAIN q.fields
    <3>1. q.fields \in Seq(EntryType)
      BY <1>4 DEF MapType, EntrySeqs
    <3>2. QED
      BY <1>2, <1>4, <3>1
  <2>4. h \in 1 .. m
    <3>1. h # 0
      BY <1>5, <2>2, <2>3
    <3>2. QED
      BY <2>2, <3>1
  <2>5. rs[h].tag = t
    <3>1. q.fields[h].tag = fs[h].tag
      BY <1>4, <2>4 DEF Refers
    <3>2. fs[h] = rs[h]
      BY <1>2, <2>4 DEF TextOK
    <3>3. QED
      BY <2>2, <2>4, <3>1, <3>2
  <2>6. i = h
    <3>1. \A g \in 1 .. Len(rs) : rs[i].tag = rs[g].tag => i = g
      BY DEF TextOK, Storable
    <3>2. QED
      BY <1>2, <1>5, <2>4, <2>5, <3>1
  <2>7. QED
    BY <2>1, <2>6
<1>7. PICK e : e = q.fields[i] /\ e.offset = End(fs, i - 1) + 2 /\ e.length = Len(rs[i].value)
  BY <1>2, <1>4 DEF Refers
<1>8. getString(maps[1], t) = {ValueOf(e)}
  <2>1. i # 0
    BY <1>2
  <2>2. get(q, t) = {e}
    BY <1>6, <1>7, <2>1 DEF get
  <2>3. QED
    BY <1>3, <1>4, <2>2 DEF getString
<1>9. ValueOf(e) = rs[i].value
  <2>1. PICK j \in 0 .. Len(fs) - 1 : i = j + 1 /\ i - 1 = j
    <3>1. i - 1 \in 0 .. Len(fs) - 1 /\ i = (i - 1) + 1
      BY <1>2
    <3>2. QED
      BY <3>1
  <2>2. Shows(b, AllBytes(fs))
    BY <1>1 DEF TextOK
  <2>3. PICK x : x = End(fs, j)
    OBVIOUS
  <2>4. /\ fs[j + 1] \in Fields /\ x \in Nat /\ Shows(b + x, Bytes(fs[j + 1]))
        /\ End(fs, j + 1) = x + Len(Bytes(fs[j + 1]))
    BY <1>1, <1>2, <2>2, <2>3, FieldInMessage
  <2>5. End(fs, i) <= l /\ l \in Nat
    <3>1. i \in 0 .. Len(rs)
      BY <1>2
    <3>2. QED
      BY <1>1, <3>1, EndsWithin DEF TextOK
  <2>6. b + l + 4 <= n
    BY <1>1 DEF TextOK
  <2>7. PICK g : g = rs[i] /\ g = fs[j + 1] /\ g \in Fields
    BY <1>2, <2>1, <2>4
  <2>8. Len(Bytes(g)) \in Nat
    BY <2>7, BytesType
  <2>9. PICK p \in Nat : /\ p = b + x /\ p >= begin /\ Shows(p, Bytes(g))
                         /\ p + Len(Bytes(g)) <= Len(stream)
    <3>1. PICK p \in Nat : p = b + x /\ p >= b
      BY <2>4
    <3>2. x + Len(Bytes(g)) <= l
      BY <2>1, <2>4, <2>5, <2>7
    <3>3. p + Len(Bytes(g)) <= n
      BY <2>4, <2>5, <2>6, <2>8, <3>1, <3>2
    <3>4. QED
      BY <1>1, <2>4, <2>7, <3>1, <3>3
  <2>10. p + 2 - begin = x + 2
    BY <1>1, <2>4, <2>9
  <2>11. e.offset = p + 2 - begin /\ e.length = Len(g.value)
    <3>1. End(fs, i - 1) = x
      BY <2>1, <2>3
    <3>2. QED
      BY <1>7, <2>7, <2>10, <3>1
  <2>12. ValueOf(e) = g.value
    <3>1. stream \in Seq(Byte) /\ begin \in Nat
      BY <1>1
    <3>2. p + Len(Bytes(g)) <= Len(stream) /\ p >= begin /\ Shows(p, Bytes(g)) /\ g \in Fields
      BY <2>7, <2>9
    <3> HIDE <1>1, <1>2, <1>7, <2>9
    <3>3. QED
      BY <2>11, <3>1, <3>2, ValueIs
  <2>13. QED
    BY <2>7, <2>12
<1>10. FieldIn(1, t) = Field(t, rs[i].value)
  BY <1>8, <1>9 DEF FieldIn
<1>11. rs[i] = Field(t, rs[i].value)
  <2>1. rs[i] \in Fields
    BY <1>2
  <2>2. QED
    BY <1>5, <2>1 DEF Fields, Field
<1>12. QED
  BY <1>3, <1>4, <1>5, <1>10, <1>11

(* So a reader finds what was sent, and in that order.                     *)
LEMMA WrittenIs ==
  ASSUME StreamInv, NEW k, NEW rs, NEW fs, NEW l, TextOK(k, rs, fs, l), begin = Origin(k),
         Holding(maps, fs, Len(rs)), sent[k].end <= Len(stream)
  PROVE  Written = rs
<1> DEFINE Part(d, i) ==
             FlattenSeq([h \in DOMAIN tags(i) |->
               <<FieldIn(i, tags(i)[h])>>
                 \o FlattenSeq([n \in DOMAIN GroupsIn(i, tags(i)[h]) |->
                                  d[GroupsIn(i, tags(i)[h])[n]]])])
           IsWritten(d) == d = [i \in 1 .. Len(maps) |-> Part(d, i)]
           ch == CHOOSE d : IsWritten(d)
<1>1. PICK ms \in MapSeqs : ms = maps
  BY DEF StreamInv, ParserInv, MapsOK
<1>2. PICK m \in Nat : m = Len(rs) /\ DOMAIN rs = 1 .. m /\ rs \in Seq(Fields)
  <2>1. rs \in Seq(Fields)
    BY DEF TextOK, Storable
  <2>2. QED
    BY <2>1
<1>3. /\ Len(maps) = 1 /\ DOMAIN tags(1) = 1 .. m
      /\ \A h \in 1 .. m : tags(1)[h] = maps[1].fields[h].tag
  <2>1. Len(ms) = 1 /\ Len(ms[1].fields) = m
    BY <1>1, <1>2 DEF Holding
  <2>2. 1 \in DOMAIN ms
    BY <2>1, MapSeqIs
  <2>3. DOMAIN ms[1].fields = 1 .. m
    BY <2>1, <2>2, MapSeqIs
  <2>4. QED
    BY <1>1, <2>1, <2>3 DEF tags
<1>4. ASSUME NEW d PROVE Part(d, 1) = rs
  <2>1. ASSUME NEW h \in 1 .. m
        PROVE  /\ FieldIn(1, tags(1)[h]) = rs[h]
               /\ FlattenSeq([n \in DOMAIN GroupsIn(1, tags(1)[h]) |->
                                d[GroupsIn(1, tags(1)[h])[n]]]) = <<>>
    <3>1. FieldIn(1, tags(1)[h]) = rs[h]
      BY <1>2, <1>3, ValueFound
    <3>2. PICK gs : gs = GroupsIn(1, tags(1)[h]) /\ gs = <<>>
      BY <1>1, <1>2, NoneFound
    <3>3. FlattenSeq([n \in DOMAIN gs |-> d[gs[n]]]) = <<>>
      <4>1. Image(d, <<>>) = <<>>
        BY ImageEmpty
      <4>2. QED
        BY <3>2, <4>1 DEF Image
    <3>4. QED
      BY <3>1, <3>2, <3>3
  <2>2. ASSUME NEW h \in 1 .. m
        PROVE  <<FieldIn(1, tags(1)[h])>>
                 \o FlattenSeq([n \in DOMAIN GroupsIn(1, tags(1)[h]) |->
                                  d[GroupsIn(1, tags(1)[h])[n]]]) = <<rs[h]>>
    <3>1. PICK x : x = rs[h]
      OBVIOUS
    <3>2. <<x>> \o <<>> = <<x>>
      <4>1. <<x>> \in Seq({x})
        OBVIOUS
      <4>2. PICK y \in Seq({x}) : y = <<x>>
        BY <4>1
      <4>3. y \o <<>> = y
        OBVIOUS
      <4>4. QED
        BY <4>2, <4>3
    <3>3. QED
      BY <2>1, <3>1, <3>2
  <2>3. [h \in DOMAIN tags(1) |->
           <<FieldIn(1, tags(1)[h])>>
             \o FlattenSeq([n \in DOMAIN GroupsIn(1, tags(1)[h]) |->
                              d[GroupsIn(1, tags(1)[h])[n]]])]
        = [h \in DOMAIN rs |-> <<rs[h]>>]
    BY <1>2, <1>3, <2>2, Zenon
  <2>4. FlattenSeq([h \in DOMAIN rs |-> <<rs[h]>>]) = rs
    BY <1>2, FlatSingles
  <2>5. QED
    BY <2>3, <2>4, Zenon
<1>5. PICK c : c = [i \in 1 .. 1 |-> rs]
  OBVIOUS
<1>6. IsWritten(c)
  <2>1. \A i \in 1 .. 1 : i = 1
    OBVIOUS
  <2>2. Part(c, 1) = rs
    BY <1>4
  <2> HIDE DEF Part
  <2>3. [i \in 1 .. 1 |-> Part(c, i)] = [i \in 1 .. 1 |-> rs]
    BY <2>1, <2>2
  <2>4. QED
    BY <1>3, <1>5, <2>3
<1>7. IsWritten(ch)
  <2> HIDE DEF IsWritten
  <2>1. QED
    BY <1>6
<1>8. ch[1] = rs
  <2>1. PICK d : d = ch
    OBVIOUS
  <2> HIDE DEF ch, Part, IsWritten
  <2>2. IsWritten(d)
    BY <1>7, <2>1
  <2>3. Part(d, 1) = rs
    BY <1>4
  <2>4. d[1] = Part(d, 1)
    <3>1. 1 \in 1 .. Len(maps)
      BY <1>3
    <3>2. QED
      BY <2>2, <3>1 DEF IsWritten
  <2>5. QED
    BY <2>1, <2>3, <2>4
<1>9. Written = ch[1]
  BY DEF Written
<1>10. QED
  <2> HIDE DEF ch
  <2>1. QED
    BY <1>8, <1>9

-----------------------------------------------------------------------------
(* BodiesArrive.  Either there is a message that was not built as the      *)
(* comments ask or none, or the parser is within a message, at one of its  *)
(* fields, or it has the whole of one and is where the next begins.        *)
Improper == \E k \in 1 .. Len(sent) : k <= parses + 1 /\ ~sent[k].proper
Missing == closed /\ parses > Len(sent)
Waiting == parses = 0 /\ status = "idle" /\ taken = 0

Begun == /\ cp = begin /\ taken = begin /\ Kept(<<>>, 0)
         /\ parses \in 1 .. Len(sent) \/ (parses = 1 /\ Len(sent) = 0)

Reached(j) == /\ j \in 0 .. Len(Text(parses)) - 1
              /\ cp = begin + End(Text(parses), j) /\ Kept(Text(parses), j)
              /\ taken <= begin + Len(AllBytes(Read(parses))) + 8

Within == /\ status = "parsing" /\ begin = Origin(parses) /\ Groupless(msg_groups)
          /\ Begun \/ (parses \in 1 .. Len(sent) /\ \E j : Reached(j))

Done == /\ status = "idle" /\ parses \in 1 .. Len(sent) /\ begin = Origin(parses)
        /\ Holding(maps, Text(parses), Len(Read(parses)))
        /\ \/ parses + 1 \in 1 .. Len(sent) /\ taken = Origin(parses + 1)
           \/ closed /\ parses = Len(sent)

BodiesInv == Improper \/ Missing \/ Waiting \/ Within \/ Done

(* More messages on the line do not disturb it.                            *)
LEMMA BodiesStay ==
  ASSUME BodiesInv, NEW n \in Nat, n = Len(sent), NEW m \in Nat, m = Len(sent'), n <= m,
         \A k \in 1 .. n : sent'[k] = sent[k], \A k \in 1 .. n + 1 : From(k)' = From(k),
         closed => closed' /\ m = n, UNCHANGED parserVars, parses \in Nat
  PROVE  BodiesInv'
<1>1. /\ begin' = begin /\ taken' = taken /\ cp' = cp /\ maps' = maps /\ map' = map
      /\ stack' = stack /\ msg_groups' = msg_groups /\ status' = status /\ parses' = parses
  BY DEF parserVars, groupVars
<1>2. PICK p \in Nat : p = parses
  OBVIOUS
<1>3. \A k \in 1 .. n : /\ k \in 1 .. m /\ k \in 1 .. n + 1
                        /\ Read(k)' = Read(k) /\ Text(k)' = Text(k)
  BY DEF Read, Text
<1>4. \A k \in 1 .. n + 1 : Origin(k)' = Origin(k)
  BY DEF Origin
<1>5. CASE Improper
  <2>1. PICK k \in 1 .. n : k <= p + 1 /\ ~sent[k].proper
    BY <1>2, <1>5 DEF Improper
  <2>2. k \in 1 .. m /\ ~sent'[k].proper
    BY <1>3, <2>1
  <2>3. QED
    BY <1>1, <1>2, <2>1, <2>2 DEF Improper, BodiesInv
<1>6. CASE Missing
  BY <1>1, <1>6 DEF Missing, BodiesInv
<1>7. CASE Waiting
  BY <1>1, <1>7 DEF Waiting, BodiesInv
<1>8. CASE Within
  <2>1. p \in 1 .. n + 1
    BY <1>2, <1>8 DEF Within, Begun
  <2>2. begin' = Origin(parses)'
    BY <1>1, <1>2, <1>4, <1>8, <2>1 DEF Within, Origin, From
  <2>3. status' = "parsing" /\ Groupless(msg_groups)'
    BY <1>1, <1>8 DEF Within, Groupless
  <2>4. CASE Begun
    <3>1. p \in 1 .. m \/ (p = 1 /\ m = 0)
      BY <1>2, <1>3, <2>4 DEF Begun
    <3>2. Kept(<<>>, 0)'
      BY <1>1, <2>4 DEF Begun, Kept, Holding, Refers
    <3>3. Begun'
      BY <1>1, <1>2, <2>4, <3>1, <3>2 DEF Begun
    <3>4. QED
      BY <2>2, <2>3, <3>3 DEF Within, BodiesInv
  <2>5. CASE p \in 1 .. n /\ \E j : Reached(j)
    <3>1. PICK j : Reached(j)
      BY <2>5
    <3>2. Text(p)' = Text(p) /\ Read(p)' = Read(p) /\ p \in 1 .. m
      BY <1>3, <2>5
    <3>3. Text(parses)' = Text(parses) /\ Read(parses)' = Read(parses)
      BY <1>1, <1>2, <3>2 DEF Text, Read
    <3>4. Reached(j)'
      BY <1>1, <3>1, <3>3 DEF Reached, Kept, Holding, Refers
    <3>5. QED
      BY <1>1, <1>2, <2>2, <2>3, <3>2, <3>4 DEF Within, BodiesInv
  <2>6. QED
    BY <1>2, <1>8, <2>4, <2>5 DEF Within
<1>9. CASE Done
  <2>1. p \in 1 .. n
    BY <1>2, <1>9 DEF Done
  <2>2. Text(p)' = Text(p) /\ Read(p)' = Read(p) /\ Origin(p)' = Origin(p) /\ p \in 1 .. m
    BY <1>3, <1>4, <2>1
  <2>3. /\ Text(parses)' = Text(parses) /\ Read(parses)' = Read(parses)
        /\ Origin(parses)' = Origin(parses)
    BY <1>1, <1>2, <2>2 DEF Text, Read, Origin, From
  <2>4. Holding(maps, Text(parses), Len(Read(parses)))'
    BY <1>1, <1>9, <2>3 DEF Done, Holding, Refers
  <2>5. \/ parses' + 1 \in 1 .. m /\ taken' = Origin(parses + 1)'
        \/ closed' /\ parses' = m
    <3>1. CASE p + 1 \in 1 .. n /\ taken = Origin(p + 1)
      <4>1. p + 1 \in 1 .. m /\ p + 1 \in 1 .. n + 1
        BY <1>3, <3>1
      <4>2. Origin(p + 1)' = Origin(p + 1)
        BY <1>4, <4>1
      <4>3. taken' = Origin(parses + 1)'
        BY <1>1, <1>2, <3>1, <4>2 DEF Origin, From
      <4>4. QED
        BY <1>1, <1>2, <4>1, <4>3
    <3>2. CASE closed /\ p = n
      BY <1>1, <1>2, <3>2
    <3>3. QED
      BY <1>2, <1>9, <3>1, <3>2 DEF Done
  <2>6. QED
    BY <1>1, <1>2, <1>9, <2>2, <2>3, <2>4, <2>5 DEF Done, BodiesInv
<1>10. QED
  BY <1>5, <1>6, <1>7, <1>8, <1>9 DEF BodiesInv

(* A parse begins where the message does.                                  *)
LEMMA BodiesBegin ==
  ASSUME StreamInv, Line, BodiesInv, ParserCall
  PROVE  BodiesInv'
<1>1. /\ status = "idle" /\ parses' = parses + 1 /\ maps' = <<NewMap>> /\ map' = 1
      /\ stack' = <<>> /\ msg_groups' = <<>> /\ begin' = taken /\ cp' = taken
      /\ status' = "parsing" /\ taken' = taken
      /\ stream' = stream /\ closed' = closed /\ sent' = sent
  BY DEF ParserCall, Parse
<1>2. PICK n \in Nat, p \in Nat : n = Len(sent) /\ p = parses /\ n = Len(sent')
  BY <1>1 DEF StreamInv, ParserInv, Control, Line
<1>3. \A k : Origin(k)' = Origin(k) /\ Text(k)' = Text(k) /\ Read(k)' = Read(k)
  BY <1>1 DEF Origin, From, Text, Read
<1>4. ~Within
  BY <1>1 DEF Within
<1>5. CASE Improper
  <2>1. PICK k \in 1 .. n : k <= p + 1 /\ ~sent[k].proper
    BY <1>2, <1>5 DEF Improper
  <2>2. k <= (p + 1) + 1
    BY <2>1
  <2>3. QED
    BY <1>1, <1>2, <2>1, <2>2 DEF Improper, BodiesInv
<1>6. CASE Missing
  BY <1>1, <1>2, <1>6 DEF Missing, BodiesInv
<1>7. ASSUME taken = Origin(p + 1), p + 1 \in 1 .. n \/ (p + 1 = 1 /\ n = 0)
      PROVE  BodiesInv'
  <2>1. begin' = Origin(parses)'
    BY <1>1, <1>2, <1>7 DEF Origin, From
  <2>2. Groupless(msg_groups)'
    <3>1. <<>> \in Seq({}) /\ Len(<<>>) = 0
      OBVIOUS
    <3>2. QED
      BY <1>1, <3>1 DEF Groupless
  <2>3. Kept(<<>>, 0)'
    <3>1. PICK m : m = NewMap /\ Len(m.fields) = 0 /\ m.next = 0
      <4>1. NewMap.fields = <<>> /\ NewMap.next = 0
        BY NewMapType
      <4>2. QED
        BY <4>1
    <3>2. Len(<<m>>) = 1 /\ <<m>>[1] = m
      OBVIOUS
    <3>3. PICK ms : ms = <<m>> /\ Len(ms) = 1 /\ ms[1] = m
      BY <3>2
    <3>4. maps' = ms
      BY <1>1, <3>1, <3>3
    <3>5. QED
      BY <1>1, <3>1, <3>3, <3>4 DEF Kept, Holding
  <2>4. Begun'
    BY <1>1, <1>2, <1>7, <2>3 DEF Begun
  <2>5. QED
    BY <1>1, <2>1, <2>2, <2>4 DEF Within, BodiesInv
<1>8. CASE Waiting
  <2>1. p = 0 /\ taken = 0
    BY <1>2, <1>8 DEF Waiting
  <2>2. Origin(p + 1) = 0
    BY <2>1 DEF Origin
  <2>3. p + 1 \in 1 .. n \/ (p + 1 = 1 /\ n = 0)
    BY <2>1
  <2>4. QED
    BY <1>7, <2>1, <2>2, <2>3
<1>9. CASE Done
  <2>1. CASE p + 1 \in 1 .. n /\ taken = Origin(p + 1)
    BY <1>7, <2>1
  <2>2. CASE closed /\ p = n
    BY <1>1, <1>2, <2>2 DEF Missing, BodiesInv
  <2>3. QED
    BY <1>2, <1>9, <2>1, <2>2 DEF Done
<1>10. QED
  BY <1>4, <1>5, <1>6, <1>8, <1>9 DEF BodiesInv

(* What comes after message k.                                             *)
LEMMA Following ==
  ASSUME Line, Len(stream) \in Nat, NEW k \in 1 .. Len(sent), sent[k].end \in Nat
  PROVE  /\ From(k + 1) = sent[k].end /\ Origin(k + 1) = sent[k].end + 4
         /\ sent[k].end <= Len(stream)
         /\ k = Len(sent) => sent[k].end = Len(stream)
         /\ k # Len(sent) /\ sent[k + 1].proper => sent[k].end + 4 <= Len(stream)
<1>1. PICK n \in Nat, e \in Nat, s \in Nat : n = Len(sent) /\ e = sent[k].end /\ s = Len(stream)
  BY DEF Line
<1>2. k \in 1 .. n /\ k + 1 # 1 /\ (k + 1) - 1 = k
  BY <1>1
<1>3. From(k + 1) = e /\ Origin(k + 1) = e + 4
  BY <1>1, <1>2 DEF From, Origin
<1>4. e <= s
  <2>1. From(k) \in 0 .. s /\ e \in From(k) .. s
    BY <1>1 DEF Line, OnLine
  <2>2. PICK f \in Nat : f = From(k)
    BY <2>1
  <2>3. QED
    BY <2>1, <2>2
<1>5. k = n => e = s
  BY <1>1, <1>3 DEF Line
<1>6. ASSUME k # n, sent[k + 1].proper PROVE e + 4 <= s
  <2>1. k + 1 \in 1 .. n
    BY <1>2, <1>6
  <2>2. PICK a : Sent(k + 1, a) /\ sent[k + 1].end \in From(k + 1) .. s
    BY <1>1, <1>6, <2>1 DEF Line, OnLine
  <2>3. PICK l \in Nat : l = Len(AllBytes(Headers(a)))
    <3>1. a \in Seq(Fields) /\ Headers(a) = <<BEGIN_STRING, LengthField(Len(AllBytes(a)))>> \o a
      BY <2>2, HeaderLeads DEF Sent
    <3>2. Leads(<<BEGIN_STRING, LengthField(Len(AllBytes(a)))>>, a)
      BY <2>2, HeaderLeads DEF Sent
    <3>3. PICK q \in Seq(Fields) : q = <<BEGIN_STRING, LengthField(Len(AllBytes(a)))>>
      BY <3>2 DEF Leads
    <3>4. q \o a \in Seq(Fields)
      BY <3>1
    <3>5. Headers(a) \in Seq(Fields)
      BY <3>1, <3>3, <3>4
    <3>6. QED
      BY <3>5, AllBytesConcat
  <2>4. sent[k + 1].end = e + l + 4
    BY <1>3, <2>2, <2>3 DEF Sent
  <2>5. QED
    BY <1>3, <2>2, <2>4
<1>7. QED
  BY <1>1, <1>3, <1>4, <1>5, <1>6

(* A turn of the loop reads one field more, or ends with the message.      *)
LEMMA BodiesTurn ==
  ASSUME StreamInv, NoGroups, Line, BodiesInv, ParserStep
  PROVE  BodiesInv'
<1>1. stream' = stream /\ closed' = closed /\ sent' = sent
  BY DEF ParserStep
<1>2. status = "parsing" /\ parses' = parses /\ begin' = begin
  <2>1. CASE EndOfInput
    BY <2>1 DEF EndOfInput, ParserReturn
  <2>2. CASE Undefined
    BY <2>2 DEF Undefined
  <2>3. ASSUME status = "parsing", NEW f \in NextField, ReadField(f)
        PROVE  status = "parsing" /\ parses' = parses /\ begin' = begin
    BY <2>3 DEF ReadField, CheckSumField, CutShort, PlainField, OpenGroup, NextGroup,
                CloseGroup, Store, ParserReturn
  <2>4. QED
    BY <2>1, <2>2, <2>3 DEF ParserStep
<1>3. PICK n \in Nat, p \in Nat, s \in Nat, b \in Nat :
        n = Len(sent) /\ p = parses /\ s = Len(stream) /\ b = begin
  <2>1. Len(sent) \in Nat
    BY DEF Line
  <2>2. Len(stream) \in Nat /\ begin \in Nat
    BY DEF StreamInv, ParserInv, Positions
  <2>3. parses \in Nat
    BY DEF StreamInv, ParserInv, Control
  <2>4. QED
    BY <2>1, <2>2, <2>3
<1>4. \A k : Origin(k)' = Origin(k) /\ Text(k)' = Text(k) /\ Read(k)' = Read(k)
  BY <1>1 DEF Origin, From, Text, Read
<1>5. CASE Improper
  BY <1>1, <1>2, <1>5 DEF Improper, BodiesInv
<1>6. CASE Missing
  BY <1>1, <1>2, <1>6 DEF Missing, BodiesInv
<1>7. ~Waiting /\ ~Done
  BY <1>2 DEF Waiting, Done
<1>8. ASSUME Within, Begun, p = 1, n = 0 PROVE BodiesInv'
  <2>1. s = 0
    <3>1. n + 1 = 1
      BY <1>8
    <3>2. s = From(1)
      BY <1>3, <3>1 DEF Line
    <3>3. QED
      BY <3>2 DEF From
  <2>2. cp \in Nat /\ cp = b
    BY <1>3, <1>8 DEF Begun
  <2>3. NextField = {}
    <3>1. \A q : ~(q \in cp + 1 .. Len(stream))
      BY <1>3, <2>1, <2>2
    <3>2. ~Holds(cp, EQ)
      BY <3>1 DEF Holds
    <3>3. QED
      BY <3>2 DEF NextField
  <2>4. ~Undefined
    <3>1. s - b <= MaxMessage
      BY <1>3, <2>1, RoomAssumption
    <3>2. Defined
      BY <1>3, <2>3, <3>1 DEF Defined, Fits
    <3>3. QED
      BY <3>2 DEF Undefined
  <2>5. EndOfInput
    BY <2>3, <2>4 DEF ParserStep
  <2>6. closed /\ p > n
    BY <1>8, <2>5 DEF EndOfInput
  <2>7. QED
    BY <1>1, <1>2, <1>3, <2>6 DEF Missing, BodiesInv
<1>9. ASSUME Within, ~Improper, p \in 1 .. n PROVE BodiesInv'
  <2>1. sent[p].proper /\ (p + 1 \in 1 .. n => sent[p + 1].proper)
    <3>1. p <= p + 1 /\ p + 1 <= p + 1
      OBVIOUS
    <3>2. \A k \in 1 .. n : k <= p + 1 => sent[k].proper
      BY <1>3, <1>9 DEF Improper
    <3>3. QED
      BY <1>9, <3>1, <3>2
  <2>2. PICK rs, fs, l : TextOK(p, rs, fs, l)
    BY <1>3, <1>9, <2>1, TextIs
  <2>3. PICK m \in Nat : /\ m = Len(rs) /\ Len(fs) = m + 1
                         /\ rs = Read(p) /\ fs = Text(p) /\ fs \in Seq(Fields)
                         /\ l \in Nat /\ l = Len(AllBytes(rs))
    <3>1. rs \in Seq(Fields) /\ fs \in Seq(Fields)
      BY <2>2 DEF TextOK, Storable, Readable
    <3>2. QED
      BY <2>2, <3>1 DEF TextOK
  <2>4. b = Origin(p) /\ sent[p].end = b + l + 4
    BY <1>3, <1>9, <2>2 DEF Within, TextOK
  <2>5. sent[p].end <= Len(stream)
    BY <1>3, <1>9, <2>3, <2>4, Following
  <2>6. \E j : At(p, fs, j) /\ taken <= begin + l + 8
    <3>1. CASE Begun
      <4>1. 0 \in 0 .. Len(fs) - 1 /\ 0 \in 0 .. Len(fs)
        BY <2>3
      <4>2. End(fs, 0) = 0
        <5>1. PICK q \in Seq(Fields) : q = First(fs, 0) /\ Len(q) = 0
          BY <2>3, <4>1, FirstIs
        <5>2. q = <<>>
          BY <5>1
        <5>3. QED
          BY <5>1, <5>2, AllBytesEmpty DEF End
      <4>3. Kept(fs, 0)
        BY <3>1 DEF Begun, Kept, Holding
      <4>4. cp = begin + End(fs, 0) /\ taken <= begin + l + 8
        BY <1>3, <2>3, <3>1, <4>2 DEF Begun
      <4>5. At(p, fs, 0)
        BY <1>3, <2>4, <2>5, <4>1, <4>3, <4>4 DEF At
      <4>6. QED
        BY <4>4, <4>5
    <3>2. ASSUME NEW j, Reached(j) PROVE At(p, fs, j) /\ taken <= begin + l + 8
      BY <1>3, <2>3, <2>4, <2>5, <3>2 DEF Reached, At
    <3>3. QED
      BY <1>9, <3>1, <3>2 DEF Within
  <2>7. PICK j : At(p, fs, j) /\ taken <= begin + l + 8
    BY <2>6
  <2>8. Groupless(msg_groups)
    BY <1>9 DEF Within
  <2>9. j \in 0 .. m
    BY <2>3, <2>7 DEF At
  <2>10. CASE ReadsOn(rs, fs, l, j)
    <3>1. /\ j < m /\ Kept(fs, j + 1)' /\ Groupless(msg_groups)' /\ status' = "parsing"
          /\ cp' = begin + End(fs, j + 1) /\ taken' <= begin + l + 8
      BY <1>2, <2>3, <2>10 DEF ReadsOn, Kept, Holding, Refers, Groupless
    <3>2. Text(parses)' = fs /\ Read(parses)' = rs /\ Origin(parses)' = begin'
      BY <1>1, <1>2, <1>3, <2>3, <2>4 DEF Origin, From, Text, Read
    <3>3. j + 1 \in 0 .. Len(fs) - 1
      BY <2>3, <2>9, <3>1
    <3>4. Reached(j + 1)'
      BY <1>2, <2>3, <3>1, <3>2, <3>3 DEF Reached
    <3>5. parses' \in 1 .. Len(sent')
      BY <1>1, <1>2, <1>3, <1>9
    <3>6. QED
      BY <3>1, <3>2, <3>4, <3>5 DEF Within, BodiesInv
  <2>11. CASE EndsHere(rs, fs, l, j)
    <3>1. Text(parses)' = fs /\ Read(parses)' = rs /\ Origin(parses)' = begin'
      BY <1>1, <1>2, <1>3, <2>3, <2>4 DEF Origin, From, Text, Read
    <3>2. Holding(maps, fs, Len(rs))' /\ status' = "idle"
      BY <2>7, <2>11 DEF EndsHere, At, Kept, Holding, Refers, groupVars
    <3>3. \/ taken' = b + l + 8 /\ b + l + 8 <= s
          \/ closed /\ b + l + 8 > s
      BY <1>3, <2>11 DEF EndsHere
    <3>4. /\ Origin(p + 1) = b + l + 8
          /\ p = n => b + l + 4 = s
          /\ p # n => b + l + 8 <= s
      <4>1. PICK e \in Nat : e = sent[p].end /\ e = b + l + 4
        BY <2>3, <2>4
      <4>2. /\ Origin(p + 1) = e + 4 /\ (p = n => e = s)
            /\ p # n /\ sent[p + 1].proper => e + 4 <= s
        BY <1>3, <1>9, <4>1, Following
      <4>3. p # n => p + 1 \in 1 .. n
        BY <1>9
      <4>4. QED
        BY <2>1, <2>3, <4>1, <4>2, <4>3
    <3>5. CASE p = n
      <4>1. closed
        BY <2>3, <3>3, <3>4, <3>5
      <4>2. closed' /\ parses' = Len(sent') /\ parses' \in 1 .. Len(sent')
        BY <1>1, <1>2, <1>3, <1>9, <3>5, <4>1
      <4>3. QED
        BY <3>1, <3>2, <4>2 DEF Done, BodiesInv
    <3>6. CASE p # n
      <4>1. taken' = b + l + 8
        BY <2>3, <3>3, <3>4, <3>6
      <4>2. p + 1 \in 1 .. n
        BY <1>9, <3>6
      <4>3. Origin(parses + 1)' = b + l + 8
        BY <1>1, <1>2, <1>3, <3>4 DEF Origin, From
      <4>4. parses' + 1 \in 1 .. Len(sent') /\ parses' \in 1 .. Len(sent')
        BY <1>1, <1>2, <1>3, <1>9, <4>2
      <4>5. QED
        BY <3>1, <3>2, <4>1, <4>3, <4>4 DEF Done, BodiesInv
    <3>7. QED
      BY <3>5, <3>6
  <2>12. QED
    BY <2>2, <2>7, <2>8, <2>10, <2>11, TurnKeeps
<1>10. CASE Within
  <2>1. p \in 1 .. n \/ (Begun /\ p = 1 /\ n = 0)
    BY <1>3, <1>10 DEF Within, Begun
  <2>2. QED
    BY <1>5, <1>8, <1>9, <1>10, <2>1
<1>11. QED
  BY <1>5, <1>6, <1>7, <1>10 DEF BodiesInv

(* That is what a reader is to find.                                       *)
LEMMA InvArrives ==
  ASSUME StreamInv, Line, BodiesInv
  PROVE  BodiesArrive
<1> SUFFICES ASSUME parses > 0, AllProper
             PROVE  /\ status # "undefined"
                    /\ status = "idle" =>
                         LET fields == sent[parses].fields IN Written \in {fields, Tail(fields)}
  BY DEF BodiesArrive
<1>1. PICK n \in Nat, p \in Nat, s \in Nat :
        n = Len(sent) /\ DOMAIN sent = 1 .. n /\ p = parses /\ s = Len(stream)
  <2>1. Len(sent) \in Nat /\ DOMAIN sent = 1 .. Len(sent)
    BY DEF Line
  <2>2. Len(stream) \in Nat
    BY DEF StreamInv, ParserInv, Positions
  <2>3. parses \in Nat
    BY DEF StreamInv, ParserInv, Control
  <2>4. QED
    BY <2>1, <2>2, <2>3
<1>2. p \in 1 .. n /\ \A k \in 1 .. n : k <= p + 1 => sent[k].proper
  BY <1>1 DEF AllProper
<1>3. ~Improper /\ ~Missing /\ ~Waiting
  BY <1>1, <1>2 DEF Improper, Missing, Waiting
<1>4. CASE Within
  BY <1>4 DEF Within
<1>5. CASE Done
  <2>1. sent[p].proper /\ (p + 1 \in 1 .. n => sent[p + 1].proper)
    <3>1. p <= p + 1 /\ p + 1 <= p + 1
      OBVIOUS
    <3>2. QED
      BY <1>2, <3>1
  <2>2. PICK rs, fs, l : TextOK(p, rs, fs, l)
    BY <1>1, <1>2, <2>1, TextIs
  <2>3. rs = Read(p) /\ fs = Text(p) /\ l \in Nat
    BY <2>2 DEF TextOK
  <2>4. begin = Origin(p) /\ Holding(maps, fs, Len(rs))
    BY <1>1, <1>5, <2>3 DEF Done
  <2>5. sent[p].end <= Len(stream)
    <3>1. sent[p].end \in Nat
      BY <2>2 DEF TextOK
    <3>2. QED
      BY <1>1, <1>2, <3>1, Following
  <2>6. Written = Read(p)
    BY <2>2, <2>3, <2>4, <2>5, WrittenIs
  <2>7. QED
    BY <1>1, <1>5, <2>6 DEF Done, Read
<1>6. QED
  BY <1>3, <1>4, <1>5 DEF BodiesInv

(* The parser that reads what builders have built, message after message,  *)
(* although none of their checksums is ended, gives every message that was *)
(* built as the comments ask back to the reader, field by field: only the  *)
(* version of all but the first is missing, which was taken for the end of *)
(* the checksum before.  This holds while none of the fields that are sent *)
(* counts the groups of a message type.                                    *)
THEOREM BodiesAlwaysArrive == NoGroups => (Spec => []BodiesArrive)
<1> SUFFICES ASSUME NoGroups PROVE Spec => []BodiesArrive
  OBVIOUS
<1> DEFINE Inv == GivenInv /\ Line /\ BodiesInv
<1>1. Init => Inv
  <2> SUFFICES ASSUME Init PROVE Inv
    OBVIOUS
  <2>1. Len(sent) = 0 /\ sent \in Seq({}) /\ Len(stream) = 0
    BY DEF Init, ParserInit
  <2>2. From(Len(sent) + 1) = 0
    BY <2>1 DEF From
  <2>3. Line
    BY <2>1, <2>2 DEF Line
  <2>4. Waiting
    BY DEF Init, ParserInit, Waiting
  <2>5. QED
    BY <2>3, <2>4, GivenInit DEF BodiesInv
<1>2. ASSUME BuilderInv, StreamInv, Inv, [Next]_vars PROVE Inv'
  <2>1. GivenInv'
    BY <1>2, GivenKept
  <2>2. parses \in Nat
    BY <1>2 DEF StreamInv, ParserInv, Control
  <2>3. PICK n \in Nat : n = Len(sent)
    BY <1>2 DEF Line
  <2>4. ASSUME NEW b \in Builders, Send(b) PROVE Line' /\ BodiesInv'
    <3>1. /\ Line' /\ Len(sent') = n + 1 /\ UNCHANGED parserVars /\ ~closed
          /\ \A k \in 1 .. n : sent'[k] = sent[k]
          /\ \A k \in 1 .. n + 1 : From(k)' = From(k)
      BY <1>2, <2>3, <2>4, LineGrows
    <3>2. PICK m \in Nat : m = Len(sent') /\ n <= m
      BY <3>1
    <3>3. QED
      BY <1>2, <2>2, <2>3, <3>1, <3>2, BodiesStay
  <2>5. ASSUME UNCHANGED <<stream, sent, parserVars>>, closed => closed'
        PROVE  Line' /\ BodiesInv'
    <3>1. Line'
      BY <1>2, <2>5, LineStays
    <3>2. sent' = sent /\ \A k : From(k)' = From(k)
      BY <2>5 DEF From
    <3>3. n = Len(sent') /\ n <= n
      BY <2>3, <3>2
    <3>4. QED
      BY <1>2, <2>2, <2>3, <2>5, <3>1, <3>2, <3>3, BodiesStay
  <2>6. ASSUME ParserCall PROVE Line' /\ BodiesInv'
    BY <1>2, <2>6, LineStays, BodiesBegin DEF ParserCall
  <2>7. ASSUME ParserStep PROVE Line' /\ BodiesInv'
    BY <1>2, <2>7, LineStays, BodiesTurn DEF ParserStep
  <2>8. QED
    BY <1>2, <2>1, <2>4, <2>5, <2>6, <2>7 DEF Next, Close, vars
<1>3. StreamInv /\ Inv => BodiesArrive
  BY InvArrives
<1>4. QED
  BY <1>1, <1>2, <1>3, BuilderInvariance, ReceiverInvariance, PTL DEF Spec
=============================================================================
