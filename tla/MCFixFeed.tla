----------------------------- MODULE MCFixFeed -----------------------------
EXTENDS FixFeed

(* Two groups: A, which may hold B, and B, which may also stand alone.     *)
MCTags == {"8", "9", "10", "35", "A#", "A.", "B#", "B.", "x"}
MCDefs == (<<"s">> :> <<[count |-> "A#", end |-> "A."],
                        [count |-> "B#", end |-> "B."]>>)

(* A letter, and a dot, which comes before '0'.                            *)
MCOtherNumbers == ("v" :> 70) @@ ("." :> -2)

F(t) == Field(t, <<"v">>)
N(t, n) == Field(t, <<Digits(n)>>)

GroupsB == {<<N("B#", 1), F("B.")>>,
            <<N("B#", 2), F("B."), F("x"), F("B.")>>}
Nested == {g \o <<F("A.")>> : g \in GroupsB}
InA == {<<F("A.")>>, <<F("x"), F("A.")>>} \cup Nested
GroupsA == {<<N("A#", 1)>> \o a : a \in InA}
             \cup {<<N("A#", 2)>> \o p[1] \o p[2] : p \in {q \in Nested \X InA : q[1] # q[2]}}
             \cup {<<N("A#", 3), F("A."), F("x"), F("A."), F("A.")>>}

Typed(t, body) == <<Field(MsgType, <<t>>)>> \o body

(* Well formed, with the maps it needs.  An end tag outside of its group,  *)
(* and a counted field in a message type without groups, are plain fields. *)
Proper == {Typed("s", a) : a \in GroupsA}
            \cup {Typed("s", <<N("A#", 1)>> \o a \o b) : a \in InA, b \in GroupsB}
            \cup {Typed("s", <<F("A."), N("A#", 1), F("A."), F("x")>>),
                  Typed("0", <<N("A#", 2), F("x")>>)}

Groups(body) == Cardinality({i \in DOMAIN body : body[i].tag \in {"A.", "B."}})

(* Counts that are wrong, that come twice or that nobody closes, and more  *)
(* fields than a map has room for.                                         *)
Improper == {Typed("s", b) : b \in
   {<<N("A#", 0), F("x")>>,
    <<Field("A#", <<".">>), F("A.")>>,
    <<F("A#"), F("A."), F("x"), F("A.")>>,
    <<N("A#", 2), F("A."), F("x")>>,
    <<N("A#", 1), F("A."), N("A#", 1), F("x"), F("A."), N("A#", 3), F("A.")>>,
    <<N("A#", 1), F("B."), F("A."), F("A.")>>,
    <<N("B#", 1), F("B."), N("A#", 2), F("B."), F("A."), F("x"), F("A.")>>,
    <<N("A#", 1), N("A#", 1), F("A."), F("A."), F("x")>>,
    <<N("A#", 2), F("A."), N("B#", 2), F("B."), F("A."), F("B.")>>,
    <<Field("x", <<>>), F("unknown"), F("other"), Field("A#", <<>>)>>,
    <<F("x"), F("unknown"), F("A."), F("B.")>>}}

Fitting(b) == /\ MaxMessage + SizeOfFieldMap * (Groups(b.fields) + 1) <= capacity_
              /\ Len(Frame(b)) <= MaxMessage

Body(b, more) == [fields |-> b, announced |-> Digits(Len(AllBytes(b)) + more)]
OneGroup == Typed("s", <<N("A#", 1), F("A.")>>)

(* BodyLength is the length of the body, or too small, negative even, or   *)
(* too large, or no number.                                                *)
MCBodies ==
  {b @@ ("proper" :> Fitting(b)) :
     b \in {Body(p, 0) : p \in Proper}
            \cup {Body(OneGroup, more) : more \in {-20, -5, 1, 20}}
            \cup {[fields |-> OneGroup, announced |-> t] : t \in {"v", "."}}}
  \cup {Body(b, 0) @@ ("proper" :> FALSE) : b \in Improper}

MCCutBodies == {Body(OneGroup, more) @@ ("proper" :> TRUE) : more \in {0, 3}}
=============================================================================
