----------------------------- MODULE FixParser -----------------------------
(***************************************************************************)
(* FixMessage::parse (core/Parser.cpp) reading one message after the other *)
(* from a stream, into the field maps and groups of FieldMap.cpp and       *)
(* FieldList.hpp, which live in the arena of the message (Alloc.hpp).      *)
(*                                                                         *)
(* One step is one turn of the parsing loop, that is one field: the parser *)
(* is sequential, and what it shares is the stream only, where bytes are   *)
(* still arriving or have ended.  Positions count bytes of the stream.     *)
(*                                                                         *)
(* A field map is the index of an allocation, 0 is nullptr.  Groups hang   *)
(* off the field that counts them: groups and tail are the first and last  *)
(* map of a list linked by next.                                           *)
(***************************************************************************)
EXTENDS FixWire, FiniteSets

CONSTANTS
  KnownTags,   \* FieldTag
  Defs,        \* GroupDefs: message type -> sequence of [count, end]
  Word16,      \* stands for 2^16: offset_ and length_ are 16-bit words
  MaxFields,   \* FIX_MSG_MAX_FIELD_COUNT
  MaxMessage,  \* max_message_size_: the bytes that msg_bytes_ has room for
  SizeOfFieldMap,
  MaxParses    \* bound: calls of parse

capacity_ == 4 * MaxMessage

(* reset does not throw, and no offset in a message is cut.                *)
ASSUME RoomAssumption == /\ MaxFields \in Nat \ {0} /\ SizeOfFieldMap \in Nat \ {0}
                         /\ MaxMessage \in Nat /\ Word16 \in Nat
                         /\ MaxMessage + SizeOfFieldMap <= capacity_
                         /\ MaxMessage <= Word16
(* What FieldTag names has a tag of its own, and no tag holds a delimiter. *)
ASSUME TagAssumption == /\ {BeginString, BodyLength, CheckSum} \subseteq KnownTags
                        /\ INVALID \notin KnownTags /\ EQ \notin KnownTags
ASSUME BoundAssumption == MaxParses \in Nat

VARIABLES
  stream,      \* the bytes sent so far
  closed,      \* no more bytes will come
  begin,       \* how many of them were read when the message began (msg_bytes)
  taken,       \* how many the parser has read (end)
  cp,          \* how many of them it has scanned (start = cp between fields)
  maps,        \* the FieldMaps of the message, in order of allocation
  map,         \* the one that fields go to
  stack,       \* its parents, the message's own map first
  msg_groups,  \* the group definitions of the message type
  status,      \* "idle", "parsing", or "undefined": past an assert or nullptr
  outcome,     \* history: how the last parse ended
  sent,        \* history: the messages on the stream, [fields, proper,
               \* framed, end]; framed: BodyLength is not too much
  parses       \* history: how many parses were begun

groupVars == <<maps, map, stack, msg_groups>>
parserVars == <<begin, taken, cp, groupVars, status, outcome, parses>>

-----------------------------------------------------------------------------
(* FieldList and FieldMap                                                  *)

(* A Field knows where in msg_bytes_ its value is.                         *)
Entry(f) == [tag |-> f.tag, offset |-> f.offset % Word16,
             length |-> f.length % Word16, groups |-> 0, tail |-> 0]
NewMap == [fields |-> <<>>, next |-> 0]

find(m, t) == SelectInSeq(m.fields, LAMBDA e : e.tag = t)

(* Mutant of put: a tag that comes again loses its groups.                 *)
putForgets(m, f) ==
  LET i == find(m, f.tag) IN
  IF i = 0 THEN [m EXCEPT !.fields = Append(@, Entry(f))]
  ELSE [m EXCEPT !.fields[i] = Entry(f)]

(* put: a tag that comes again keeps its groups.                           *)
put(m, f) ==
  LET i == find(m, f.tag) IN
  IF i = 0 THEN [m EXCEPT !.fields = Append(@, Entry(f))]
  ELSE [m EXCEPT !.fields[i] = [Entry(f) EXCEPT !.groups = m.fields[i].groups,
                                                !.tail = m.fields[i].tail]]

Full(m, t) == find(m, t) = 0 /\ Len(m.fields) = MaxFields

get(m, t) == IF find(m, t) = 0 THEN {} ELSE {m.fields[find(m, t)]}

(* The bytes from msg_bytes_ + offset_; the message begins at begin.       *)
ValueOf(e) == SubSeq(stream, begin + e.offset + 1, begin + e.offset + e.length)

getString(m, t) == {ValueOf(e) : e \in get(m, t)}
getInt(e) == parseInt(ValueOf(e))

(* The n-th of the maps that hang off field e, from 0; 0 when there is none*)
group(ms, e, n) ==
  LET next == [j \in 0 .. Len(ms) |-> IF j = 0 THEN 0 ELSE ms[j].next]
      ptr[k \in 0 .. n] == IF k = 0 THEN e.groups ELSE next[ptr[k - 1]]
  IN  ptr[n]

groupCount(ms, e) ==
  LET c[j \in 0 .. Len(ms)] == IF j = 0 THEN 0 ELSE 1 + c[ms[j].next]
  IN  c[e.groups]

getGroup(ms, i, t, n) ==
  IF get(ms[i], t) = {} THEN 0 ELSE group(ms, ms[i].fields[find(ms[i], t)], n)

(* Buffer: the bytes of the message and one FieldMap after the other.      *)
Allocated(ms) == MaxMessage + SizeOfFieldMap * Len(ms)
ArenaFull(ms) == Allocated(ms) + SizeOfFieldMap > capacity_

(* Mutant of addGroup: tail_ stays where it was.                           *)
addGroupKeepsTail(ms, i, t) ==
  LET k == find(ms[i], t)
      new == Len(ms) + 1
  IN  IF ArenaFull(ms) THEN ms
      ELSE IF ms[i].fields[k].groups = 0
      THEN Append([ms EXCEPT ![i].fields[k].groups = new,
                             ![i].fields[k].tail = new], NewMap)
      ELSE Append([ms EXCEPT ![ms[i].fields[k].tail].next = new], NewMap)

(* addGroup to the field t of map i, which is there: the parser calls it   *)
(* after it has stored or found the count.  The new map is the last one.   *)
addGroup(ms, i, t) ==
  LET k == find(ms[i], t)
      new == Len(ms) + 1
  IN  IF ArenaFull(ms) THEN ms
      ELSE IF ms[i].fields[k].groups = 0
      THEN Append([ms EXCEPT ![i].fields[k].groups = new,
                             ![i].fields[k].tail = new], NewMap)
      ELSE Append([ms EXCEPT ![ms[i].fields[k].tail].next = new,
                             ![i].fields[k].tail = new], NewMap)

(* Mutant of AddedMap: the end of the arena is not looked at.              *)
AddedAnyway(ms) == Len(ms) + 1

(* What addGroup returns.                                                  *)
AddedMap(ms) == IF ArenaFull(ms) THEN 0 ELSE Len(ms) + 1

-----------------------------------------------------------------------------
(* FixMessage::parse                                                       *)

(* The position of the first byte b after position p, when there is one.   *)
Holds(p, b) == \E q \in p + 1 .. Len(stream) : stream[q] = b
After(p, b) == CHOOSE q \in p + 1 .. Len(stream) :
                  stream[q] = b /\ \A r \in p + 1 .. q - 1 : stream[r] # b

(* stoft of the bytes before '='.                                          *)
stoft(token) == IF Len(token) = 1 /\ token[1] \in KnownTags THEN token[1] ELSE INVALID

(* The next field, when the stream has all of it, and where its SOH is.    *)
NextField ==
  IF Holds(cp, EQ) /\ Holds(After(cp, EQ), SOH)
  THEN LET eq == After(cp, EQ)
           soh == After(eq, SOH)
       IN  {[tag |-> stoft(SubSeq(stream, cp + 1, eq - 1)), soh |-> soh,
             offset |-> eq - begin, length |-> soh - 1 - eq]}
  ELSE {}

Stored(f) == [maps EXCEPT ![map] = put(@, f)]

(* How far the stream is read with this field: to its SOH or, when it says *)
(* where the message ends, to the last byte but one: the position counts   *)
(* from the SOH of BodyLength, so the SOH of the checksum is left.  A      *)
(* length that is negative reads no more than the SOH.                     *)
ReadTo(f) == IF f.tag = BodyLength
             THEN Max({f.soh, f.soh - 1 + getInt(Entry(f)) + CHECKSUM_WIDTH})
             ELSE f.soh

(* reset frees the arena, and the new message starts in an empty buffer    *)
(* with whatever the stream gives next.                                    *)
Parse ==
  /\ status = "idle" /\ parses < MaxParses
  /\ parses' = parses + 1
  /\ maps' = <<NewMap>> /\ map' = 1 /\ stack' = <<>> /\ msg_groups' = <<>>
  /\ begin' = taken /\ cp' = taken
  /\ status' = "parsing" /\ outcome' = "none"
  /\ UNCHANGED taken

ParserReturn(how) == /\ status' = "idle" /\ outcome' = how
                     /\ UNCHANGED <<begin, map, stack, msg_groups, parses>>

(* Mutant of EndOfInput: the result of in.get is not looked at.            *)
EndIgnored == FALSE /\ UNCHANGED parserVars

(* Reading up to position p writes no byte past the end of msg_bytes_.      *)
Fits(p) == p - begin <= MaxMessage

(* The stream ends in the middle of a field.                               *)
EndOfInput ==
  /\ status = "parsing" /\ NextField = {} /\ closed /\ Fits(Len(stream))
  /\ taken' = Len(stream)
  /\ ParserReturn("cut")
  /\ UNCHANGED <<cp, maps>>

(* Mutant of CheckSumField: returns without reading the value.             *)
CheckSumUnread(f) ==
  /\ f.tag = CheckSum /\ Fits(f.soh)
  /\ cp' = f.soh
  /\ ParserReturn("complete")
  /\ UNCHANGED <<taken, maps>>

CheckSumField(f) ==
  /\ f.tag = CheckSum /\ Fits(f.soh)
  /\ taken' = Max({taken, f.soh}) /\ cp' = f.soh
  /\ ParserReturn("complete")
  /\ UNCHANGED maps

(* map->set(field) is defined.                                             *)
CanStore(f) == map # 0 /\ ~Full(maps[map], f.tag)

(* Neither a field for the map that addGroup could not make, nor a field   *)
(* too many, nor more bytes than msg_bytes_ has room for.                  *)
Defined ==
  IF NextField = {} THEN Fits(Len(stream))
  ELSE \A f \in NextField : /\ Fits(Min({ReadTo(f), Len(stream)}))
                            /\ f.tag = CheckSum \/ CanStore(f)

Undefined ==
  /\ status = "parsing" /\ ~Defined
  /\ status' = "undefined"
  /\ UNCHANGED <<begin, taken, cp, groupVars, outcome, parses>>

(* The stream ends before the length that BodyLength announces.            *)
CutShort(f) ==
  /\ f.tag # CheckSum /\ CanStore(f)
  /\ closed /\ ReadTo(f) > Len(stream) /\ Fits(Len(stream))
  /\ maps' = Stored(f) /\ taken' = Len(stream) /\ cp' = f.soh
  /\ ParserReturn("cut")

(* The groups that may start or end with this field, MsgType included.     *)
GroupsNow(f) == IF f.tag # MsgType THEN msg_groups
                ELSE IF ValueOf(f) \in DOMAIN Defs THEN Defs[ValueOf(f)] ELSE <<>>

(* The first definition that mentions the tag.                             *)
Mention(f) == SelectInSeq(GroupsNow(f), LAMBDA d : f.tag \in {d.count, d.end})
CountTag(f) == GroupsNow(f)[Mention(f)].count

Starts(f) == Mention(f) # 0 /\ CountTag(f) = f.tag

(* The tag ends a group of the map the current one was opened from.        *)
Ends(f) == /\ Mention(f) # 0 /\ ~Starts(f) /\ stack # <<>>
           /\ get(Stored(f)[Last(stack)], CountTag(f)) # {}

(* Mutant of AllReceived: one more group is waited for.                    *)
OneMoreGroup(ms, i, t) ==
  \A e \in get(ms[i], t) : groupCount(ms, e) > getInt(e)

AllReceived(ms, i, t) ==
  \A e \in get(ms[i], t) : groupCount(ms, e) >= getInt(e)

Store(f) == /\ f.tag # CheckSum /\ CanStore(f)
            /\ ReadTo(f) <= Len(stream) /\ Fits(ReadTo(f))
            /\ taken' = Max({taken, ReadTo(f)}) /\ cp' = f.soh
            /\ msg_groups' = GroupsNow(f)
            /\ UNCHANGED <<begin, status, outcome, parses>>

PlainField(f) ==
  /\ Store(f) /\ ~Starts(f) /\ ~Ends(f)
  /\ maps' = Stored(f)
  /\ UNCHANGED <<map, stack>>

OpenGroup(f) ==
  /\ Store(f) /\ Starts(f)
  /\ maps' = addGroup(Stored(f), map, f.tag)
  /\ map' = AddedMap(maps) /\ stack' = Append(stack, map)

NextGroup(f) ==
  /\ Store(f) /\ Ends(f) /\ ~AllReceived(Stored(f), Last(stack), CountTag(f))
  /\ maps' = addGroup(Stored(f), Last(stack), CountTag(f))
  /\ map' = AddedMap(maps)
  /\ UNCHANGED stack

CloseGroup(f) ==
  /\ Store(f) /\ Ends(f) /\ AllReceived(Stored(f), Last(stack), CountTag(f))
  /\ maps' = Stored(f)
  /\ map' = Last(stack) /\ stack' = Front(stack)

ReadField(f) ==
  CheckSumField(f) \/ CutShort(f) \/ PlainField(f) \/ OpenGroup(f)
    \/ NextGroup(f) \/ CloseGroup(f)

ParserStep ==
  /\ \/ EndOfInput \/ Undefined
     \/ status = "parsing" /\ \E f \in NextField : ReadField(f)
  /\ UNCHANGED <<stream, closed, sent>>

ParserCall == Parse /\ UNCHANGED <<stream, closed, sent>>

ParserInit ==
  /\ stream = <<>> /\ closed = FALSE /\ sent = <<>>
  /\ begin = 0 /\ taken = 0 /\ cp = 0
  /\ maps = <<NewMap>> /\ map = 1 /\ stack = <<>> /\ msg_groups = <<>>
  /\ status = "idle" /\ outcome = "none" /\ parses = 0

-----------------------------------------------------------------------------
(* Properties                                                              *)

Maps == 0 .. Len(maps)

ParserTypeOK ==
  /\ closed \in BOOLEAN
  /\ begin \in 0 .. taken /\ taken \in 0 .. Len(stream)
  /\ cp \in 0 .. Len(stream)
  /\ Len(maps) >= 1 /\ Allocated(maps) <= capacity_
  /\ \A i \in DOMAIN maps :
       /\ maps[i].next \in Maps
       /\ Len(maps[i].fields) <= MaxFields
       /\ \A k \in DOMAIN maps[i].fields :
            LET e == maps[i].fields[k] IN
            /\ e.tag \in KnownTags \cup {INVALID}
            /\ e.offset + e.length \in 1 .. MaxMessage - 1
            /\ e.groups \in Maps /\ e.tail \in Maps
  /\ map \in Maps
  /\ \A k \in DOMAIN stack : stack[k] \in DOMAIN maps
  /\ status \in {"idle", "parsing", "undefined"}
  /\ outcome \in {"none", "complete", "cut"}
  /\ parses \in 0 .. MaxParses

ListOf(e) == [n \in 1 .. groupCount(maps, e) |-> group(maps, e, n - 1)]
Children(i) == UNION {Range(ListOf(e)) : e \in Range(maps[i].fields)}

(* The fields that map j hangs off.                                        *)
Owners(j) == {p \in (DOMAIN maps) \X (1 .. MaxFields) :
                /\ p[2] \in DOMAIN maps[p[1]].fields
                /\ j \in Range(ListOf(maps[p[1]].fields[p[2]]))}

(* The groups are a tree, whatever the message says: every map but the     *)
(* first hangs off one field of one map, every tail is the last of its     *)
(* list, and the maps on the stack and the current one are a path down     *)
(* from the first.  A count that comes twice, an end tag in the wrong place*)
(* and a group nobody closed leave it a tree.                              *)
GroupsAreATree ==
  /\ \A j \in DOMAIN maps : Cardinality(Owners(j)) = IF j = 1 THEN 0 ELSE 1
  /\ \A i \in DOMAIN maps : \A e \in Range(maps[i].fields) :
       e.groups # 0 => e.tail = Last(ListOf(e))
  /\ status # "undefined" =>
       LET path == Append(stack, map) IN
       /\ path[1] \in {0, 1}
       /\ \A k \in DOMAIN stack : path[k + 1] \in Children(path[k]) \cup {0}

(* What a reader is given of map i: tags, getString for each of them, and  *)
(* the groups with one tag, asked for by index until there is none.        *)
tags(i) == [k \in DOMAIN maps[i].fields |-> maps[i].fields[k].tag]

FieldIn(i, t) == CHOOSE f \in {Field(t, v) : v \in getString(maps[i], t)} : TRUE

GroupsIn(i, t) ==
  [n \in 1 .. Cardinality({m \in Maps : getGroup(maps, i, t, m) # 0}) |->
     getGroup(maps, i, t, n - 1)]

(* The fields a reader finds, in the order a writer would write them.      *)
Written ==
  LET w[i \in 1 .. Len(maps)] ==
        FlattenSeq([k \in DOMAIN tags(i) |->
          LET t == tags(i)[k]
              l == GroupsIn(i, t)
          IN  <<FieldIn(i, t)>> \o FlattenSeq([n \in DOMAIN l |-> w[l[n]]])])
  IN  w[1]

(* Field e has as many groups as it says, and each ends with its end tag.  *)
GroupsAsDefined(e) ==
  \A d \in Range(msg_groups) :
    e.tag = d.count =>
      LET l == ListOf(e) IN
      /\ Len(l) = getInt(e)
      /\ \A g \in Range(l) :
           \A k \in DOMAIN maps[g].fields :
              maps[g].fields[k].tag = d.end <=> k = Len(maps[g].fields)

(* The groups a reader finds, each with the path of tags and indices that  *)
(* leads to it.                                                            *)
Nodes ==
  LET w[i \in 1 .. Len(maps)] ==
        {<<<<>>, i>>} \cup UNION {UNION {
           {<<<<<<t, n>>>> \o q[1], q[2]>> : q \in w[getGroup(maps, i, t, n)]} :
             n \in {m \in 0 .. Len(maps) : getGroup(maps, i, t, m) # 0}} :
             t \in Range(tags(i))}
  IN  w[1]

(* What the fields of a map tell a reader.                                 *)
FieldsRead(i) == [k \in DOMAIN tags(i) |-> FieldIn(i, tags(i)[k])]

TreeRead == {[path |-> q[1], fields |-> FieldsRead(q[2])] : q \in Nodes}
PlaceRead == {q[1] : q \in {r \in Nodes : r[2] = map}}
FieldOffered == {Field(f.tag, ValueOf(f)) : f \in NextField}

(* Whatever comes in, what a reader can reach through the accessors is the *)
(* tree of GroupTree: the lists of groups are never cut, joined or closed  *)
(* to a ring, and a field read late changes no group but the one it is in. *)
GT == INSTANCE GroupTree WITH
        Number <- parseInt, tree <- TreeRead, at <- PlaceRead,
        offered <- FieldOffered
ImplementsGroupTree == GT!Spec

(* No message so far has announced more bytes than it had, so that none    *)
(* was begun in the middle.                                                *)
Framed == parses > 0 /\ \A k \in 1 .. parses : k \in DOMAIN sent /\ sent[k].framed

(* A proper message that fits its buffers is read as it was written: its   *)
(* fields, each in its group or subgroup, nothing of the message that was  *)
(* in the buffers before, and never past a nullptr.  The length it         *)
(* announces may be too small, then the rest is read byte by byte.         *)
ParsedIsSent ==
  Framed /\ sent[parses].proper =>
    /\ status # "undefined"
    /\ status = "idle" /\ outcome = "complete" =>
         /\ Written = sent[parses].fields
         /\ \A i \in DOMAIN maps : \A e \in Range(maps[i].fields) :
              GroupsAsDefined(e)

(* The parser stays in step with the stream: after a message that is whole *)
(* it has read all of it and nothing of the next one, whether what is in   *)
(* it made sense or not.  Only a length that is too large costs a message. *)
InStep ==
  status = "idle" /\ Framed =>
    IF sent[parses].end <= Len(stream)
    THEN outcome = "complete" /\ taken = sent[parses].end
    ELSE outcome = "cut"
=============================================================================
