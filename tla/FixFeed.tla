------------------------------ MODULE FixFeed ------------------------------
(***************************************************************************)
(* The parser of FixParser at the end of a connection to a peer that frames*)
(* its messages as FIX does, with a BodyLength that may be wrong, and that *)
(* may hang up in the middle of one.                                       *)
(***************************************************************************)
EXTENDS FixParser

CONSTANTS
  Bodies,      \* what the peer may send: [fields, announced, proper]
  CutBodies,   \* those of which it may send the first bytes only
  MaxMessages  \* bound: messages sent

ASSUME BodyAssumption ==
  \A b \in Bodies \cup CutBodies :
    /\ b.announced \in STRING
    /\ b.fields \in Seq([tag : STRING, value : Seq(STRING)])

(* FIX framing: the value of a field holds no SOH and its tag no '=', and  *)
(* BodyLength and CheckSum stand around the body only.                     *)
ASSUME FramingAssumption ==
  \A b \in Bodies \cup CutBodies :
    /\ b.announced # SOH
    /\ \A f \in Range(b.fields) : /\ f.tag \notin {EQ, BodyLength, CheckSum}
                                  /\ SOH \notin Range(f.value)

vars == <<stream, closed, sent, parserVars>>

(* What BodyLength says: a number, or any other text.                      *)
Announced(b) == Field(BodyLength, <<b.announced>>)

Headed(b) == <<BEGIN_STRING, Announced(b)>> \o b.fields
Frame(b) == AllBytes(Append(Headed(b), Field(CheckSum, <<"c">>)))

(* The parser leaves the last SOH to the scan: one too many does no harm.  *)
InLength(b) == parseInt(<<b.announced>>) <= Len(AllBytes(b.fields)) + 1

Announce(b) ==
  sent' = Append(sent, [fields |-> Headed(b), proper |-> b.proper,
                        framed |-> InLength(b),
                        end |-> Len(stream) + Len(Frame(b))])

Send(b) ==
  /\ ~closed /\ Len(sent) < MaxMessages
  /\ stream' = stream \o Frame(b)
  /\ Announce(b)
  /\ UNCHANGED <<closed, parserVars>>

(* The peer hangs up after the first n bytes of a message.                 *)
HangUp(b, n) ==
  /\ ~closed /\ Len(sent) < MaxMessages
  /\ stream' = stream \o SubSeq(Frame(b), 1, n)
  /\ closed' = TRUE
  /\ Announce(b)
  /\ UNCHANGED parserVars

Init == ParserInit

Next == \/ \E b \in Bodies : Send(b)
        \/ \E b \in CutBodies : \E n \in 0 .. Len(Frame(b)) - 1 : HangUp(b, n)
        \/ ParserCall
        \/ ParserStep

Spec == Init /\ [][Next]_vars

(* The thread in parse runs on as long as the stream gives it something.   *)
FairSpec == Spec /\ WF_vars(ParserStep)

(* A call of parse returns when the stream has ended, at the latest,       *)
(* wherever in a field or in the announced length that was.                *)
EveryParseReturns == closed /\ status = "parsing" ~> status # "parsing"
=============================================================================
