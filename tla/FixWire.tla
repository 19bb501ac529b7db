------------------------------ MODULE FixWire ------------------------------
(***************************************************************************)
(* The bytes of a FIX message, as far as Builder.hpp and Parser.cpp tell   *)
(* them apart: a tag, each of the two delimiters, a number, the version and*)
(* a value are one byte.  A message is 8=FIX| 9=n| body 10=c|, where n is  *)
(* the length of the body; the six digits of n and the three of the        *)
(* checksum are one byte, so that the checksum field has four bytes and    *)
(* not seven.                                                              *)
(***************************************************************************)
EXTENDS Integers, SequencesExt, TLC

CONSTANTS
  MaxNumber,    \* the largest number that six digits write
  OtherNumbers  \* what parseInt makes of texts that are no number

SOH == "|"
EQ == "="

(* The tags the code itself looks at, and the one for any tag not listed.  *)
BeginString == "8"
BodyLength == "9"
CheckSum == "10"
MsgType == "35"
INVALID == "?"

CHECKSUM_WIDTH == 4

(* What to_chars writes, and parseInt reads as it was written.             *)
Numbers == -MaxNumber .. MaxNumber
Digits(n) == ToString(n)
ASSUME NumberAssumption ==
  /\ MaxNumber \in Nat
  /\ \A n \in Numbers :
       /\ Digits(n) # SOH
       /\ \A m \in Numbers : Digits(m) = Digits(n) => m = n

(* Of other texts it makes some number too: it adds up how far the bytes   *)
(* are from '0', letters among them.                                       *)
ASSUME OtherAssumption ==
  /\ OtherNumbers \in [DOMAIN OtherNumbers -> Int]
  /\ \A n \in Numbers : Digits(n) \notin DOMAIN OtherNumbers

(* An empty value reads as 0, and so would a text that OtherNumbers leaves *)
(* out.                                                                    *)
parseInt(v) ==
  IF v = <<>> THEN 0
  ELSE IF v[1] \in DOMAIN OtherNumbers THEN OtherNumbers[v[1]]
  ELSE IF \E n \in Numbers : Digits(n) = v[1]
  THEN CHOOSE n \in Numbers : Digits(n) = v[1]
  ELSE 0

(* A field on the wire: its value is a sequence of at most one byte.       *)
Field(t, v) == [tag |-> t, value |-> v]
Bytes(f) == <<f.tag, EQ>> \o f.value \o <<SOH>>
AllBytes(fs) == FlattenSeq([i \in DOMAIN fs |-> Bytes(fs[i])])

BEGIN_STRING == Field(BeginString, <<"FIX">>)
LengthField(n) == Field(BodyLength, <<Digits(n)>>)
=============================================================================
