---------------------------- MODULE FixBuilder -----------------------------
(***************************************************************************)
(* fix::Builder (core/Builder.hpp): builders whose methods are called in   *)
(* any order.  A method that throws leaves what it had written.  Each      *)
(* builder owns its buffer; append is the one method that touches two.     *)
(***************************************************************************)
EXTENDS FixWire, FiniteSets

CONSTANTS
  Builders,         \* the builders there are
  NewFields,        \* the fields that get added
  max_message_size  \* bytes a builder has room for

(* A field has a tag and a value; their bytes are strings here.            *)
ASSUME FieldAssumption == NewFields \subseteq [tag : STRING, value : Seq(STRING)]

(* What reset writes, and where in it the body length goes.                *)
HEADER == Bytes(BEGIN_STRING) \o Bytes(LengthField(0))
LengthAt == Len(HEADER) - 1

(* reset is noexcept, and writes this much.                                *)
ASSUME SizeAssumption ==
  max_message_size \in Nat /\ max_message_size >= Len(HEADER) + CHECKSUM_WIDTH

VARIABLE builders   \* builder -> its state

(* message is what lies between message_ and cp_; headed says that reset   *)
(* has set body_start_ and body_len_dst_.  The rest is history: the fields *)
(* the message was given, whether it is intact (nothing thrown and not     *)
(* built since reset), and whether it is clean, too (made as the comments  *)
(* ask for, with no header appended).                                      *)
Constructed == [message |-> <<>>, headed |-> FALSE, body_length |-> 0,
                added |-> <<>>, intact |-> TRUE, clean |-> TRUE]
WasReset == [Constructed EXCEPT !.message = HEADER, !.headed = TRUE]

BuilderInit == builders = [b \in Builders |-> Constructed]

(* checkCapacity: n more bytes and a checksum after them.                  *)
HasRoom(m, n) == Len(m) + n + CHECKSUM_WIDTH <= max_message_size

(* Mutant of Body: the last delimiter is not counted.                      *)
BodyWithoutSOH(s, m) == IF s.headed THEN Len(m) - Len(HEADER) - 1 ELSE s.body_length

(* accountBody of builder s, when its message is m.                        *)
Body(s, m) == IF s.headed THEN Len(m) - Len(HEADER) ELSE s.body_length

(* Builder s with a field.  When there is no room, what fits of the field  *)
(* is written before the throw, and is not accounted for.                  *)
WithField(s, f) ==
  LET m == s.message \o Bytes(f)
      cut == SubSeq(m, 1, max_message_size - CHECKSUM_WIDTH)
  IN  IF HasRoom(s.message, Len(Bytes(f)))
      THEN [s EXCEPT !.message = m, !.body_length = Body(s, m),
                     !.added = Append(@, f)]
      ELSE [s EXCEPT !.message = IF Len(s.message) < Len(cut) THEN cut ELSE @,
                     !.intact = FALSE, !.clean = FALSE]

addField(b, f) == builders' = [builders EXCEPT ![b] = WithField(@, f)]

(* Mutant of WithMessage: the bytes appended are not counted.              *)
AppendUncounted(s, src) ==
  [s EXCEPT !.message = @ \o src.message, !.added = @ \o src.added,
            !.clean = @ /\ src.clean /\ ~src.headed]

(* Builder s with the fields of another one.                               *)
WithMessage(s, src) ==
  [s EXCEPT !.message = @ \o src.message,
            !.body_length = IF s.headed THEN @ + Len(src.message) ELSE @,
            !.added = @ \o src.added,
            !.clean = @ /\ src.clean /\ ~src.headed]

(* append throws before it has changed anything.  b may be src, and is then*)
(* reset in the end.                                                       *)
append(b, src) ==
  /\ HasRoom(builders[b].message, Len(builders[src].message))
  /\ builders' = [builders EXCEPT ![b] = WithMessage(@, builders[src]),
                                  ![src] = WasReset]

Backfilled(s) == IF s.headed
                 THEN [s.message EXCEPT ![LengthAt] = Digits(s.body_length)]
                 ELSE s.message

(* The digits go one place too far to the right, onto the SOH.             *)
CheckSumBytes == [Bytes(Field(CheckSum, <<"0">>)) EXCEPT ![4] = "c"]

(* Mutant of CanBuild: the checksum is copied without a check.             *)
AlwaysBuild(s) == TRUE

(* checkCapacity asks for the checksum and for another one after it.       *)
CanBuild(s) == HasRoom(s.message, CHECKSUM_WIDTH)

Built(s) == Backfilled(s) \o CheckSumBytes

build(b) ==
  /\ CanBuild(builders[b])
  /\ builders' = [builders EXCEPT ![b].message = Built(builders[b]),
                                  ![b].intact = FALSE, ![b].clean = FALSE]

buildThrows(b) ==
  /\ ~CanBuild(builders[b])
  /\ builders' = [builders EXCEPT ![b].message = Backfilled(builders[b]),
                                  ![b].intact = FALSE, ![b].clean = FALSE]

reset(b) == builders' = [builders EXCEPT ![b] = WasReset]

BuilderNext ==
  \E b \in Builders : \/ \E f \in NewFields : addField(b, f)
                      \/ \E src \in Builders : append(b, src)
                      \/ buildThrows(b)
                      \/ reset(b)

-----------------------------------------------------------------------------
(* Properties                                                              *)

(* No call writes past the end of the buffer: not a field too many, not a  *)
(* checksum after a checksum, not a message appended to a long one.        *)
WithinBuffer ==
  \A b \in Builders : Len(builders[b].message) <= max_message_size

(* As long as nothing threw, body_length_ is the length of what follows    *)
(* the header, although addField computes it and append adds to it, and    *)
(* although append resets its source, so that what it appends the next     *)
(* time has a header of its own.  Without such a header the message is its *)
(* header and the fields it was given, its own and appended ones, in order.*)
LengthIsOfFields ==
  \A b \in Builders :
    LET s == builders[b] IN
    /\ s.intact /\ s.headed => s.body_length = Len(s.message) - Len(HEADER)
    /\ s.clean =>
         s.message = (IF s.headed THEN HEADER ELSE <<>>) \o AllBytes(s.added)
=============================================================================
