----------------------------- MODULE FixStream -----------------------------
(***************************************************************************)
(* Builder and parser at the two ends of a connection: one side builds     *)
(* messages and sends what build returns, the other parses them.           *)
(***************************************************************************)
EXTENDS FixBuilder, FixParser

CONSTANTS
  MaxMessages,  \* bound: messages sent
  MaxCalls      \* bound: calls of the builders' methods

(* The builders are given fields that FieldTag names, but not those of the *)
(* header and the checksum, which they write themselves; no value holds a  *)
(* SOH, which neither side could tell from the end of the field.           *)
ASSUME ClientAssumption ==
  \A f \in NewFields :
    /\ f.tag \in KnownTags \ {BeginString, BodyLength, CheckSum}
    /\ SOH \notin Range(f.value)

VARIABLE calls  \* how many of them there were

vars == <<builders, calls, stream, closed, sent, parserVars>>

(* A tag that comes twice in one map is kept once by the parser.           *)
NoTagTwice(fs) == IsInjective([i \in DOMAIN fs |-> fs[i].tag])

(* The message of s, and the version field that is read with it, fit the   *)
(* parser, and so does the number of its fields; its length has no more    *)
(* digits than the header has room for.                                    *)
FitsParser(s) == /\ Len(Built(s)) + Len(Bytes(BEGIN_STRING)) <= MaxMessage
                 /\ Len(s.added) + 2 <= MaxFields
                 /\ s.body_length <= MaxNumber

(* build, and its view is written to the connection while it is valid.     *)
Send(b) ==
  LET s == builders[b] IN
  /\ ~closed /\ Len(sent) < MaxMessages
  /\ build(b)
  /\ stream' = stream \o Built(s)
  /\ sent' = Append(sent,
       [fields |-> <<BEGIN_STRING, LengthField(Len(AllBytes(s.added)))>> \o s.added,
        proper |-> /\ s.clean /\ s.headed
                   /\ NoTagTwice(s.added) /\ FitsParser(s),
        framed |-> s.clean /\ s.headed,
        end |-> Len(stream) + Len(Built(s))])
  /\ UNCHANGED <<closed, parserVars>>

Close == /\ ~closed /\ closed' = TRUE
         /\ UNCHANGED <<builders, calls, stream, sent, parserVars>>

Init == BuilderInit /\ ParserInit /\ calls = 0

Next ==
  \/ /\ calls < MaxCalls /\ calls' = calls + 1
     /\ \/ BuilderNext /\ UNCHANGED <<stream, closed, sent, parserVars>>
        \/ \E b \in Builders : Send(b)
  \/ Close
  \/ (ParserCall \/ ParserStep) /\ UNCHANGED <<builders, calls>>

Spec == Init /\ [][Next]_vars

(* Every message up to the one parsed last was built as the comments ask,  *)
(* and so was the one after it: the checksum field is read to its end.     *)
AllProper == /\ parses <= Len(sent)
             /\ \A k \in DOMAIN sent : k <= parses + 1 => sent[k].proper

(* The fields a client adds arrive, in order, one parse per message, with  *)
(* the length in front of them, although the checksum field is not ended   *)
(* and takes the version field of the next message with it: BodyLength     *)
(* carries the parser to the end of the body.                              *)
BodiesArrive ==
  parses > 0 /\ AllProper =>
    /\ status # "undefined"
    /\ status = "idle" =>
         LET fields == sent[parses].fields IN Written \in {fields, Tail(fields)}

(* Parser.cpp: CheckSum is the last field, and nothing remains buffered;   *)
(* Builder.hpp: it is 10=NNN and SOH.  So a message that build made is read*)
(* to its end and no further.                                              *)
ChecksumEndsMessage ==
  status = "idle" /\ outcome = "complete" /\ AllProper =>
    taken = sent[parses].end
=============================================================================
