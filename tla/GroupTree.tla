----------------------------- MODULE GroupTree -----------------------------
(***************************************************************************)
(* What parsing makes of the fields of a message, whatever they say: a     *)
(* tree.  A node is named by the path to it, a sequence of <<tag, index>>, *)
(* and holds fields.  A field goes to the node where parsing stands, takes *)
(* the place of one with its tag, and may make parsing go down to a new    *)
(* group, across to the next one, or back up once all are there.  Nothing  *)
(* else in the tree ever changes.  FixParser implements this module.       *)
(***************************************************************************)
EXTENDS Integers, SequencesExt, FiniteSets

CONSTANT Number(_)   \* the number a value stands for

VARIABLES
  tree,    \* the nodes: [path, fields], a field is [tag, value]
  at,      \* the path to the node; none when there was no room for it
  offered  \* the next field, when there is one

vars == <<tree, at>>

Node(p, fields) == [path |-> p, fields |-> fields]
Root == {Node(<<>>, <<>>)}

Init == tree = Root /\ at = {<<>>}

Clear == tree' = Root /\ at' = {<<>>}

Put(fields, f) ==
  IF \E k \in DOMAIN fields : fields[k].tag = f.tag
  THEN [k \in DOMAIN fields |-> IF fields[k].tag = f.tag THEN f ELSE fields[k]]
  ELSE Append(fields, f)

(* The tree after node n was given field f.                                *)
Stored(n, f) == (tree \ {n}) \cup {Node(n.path, Put(n.fields, f))}

(* How many groups hang off field t of node p.                             *)
Groups(p, t) ==
  Cardinality({m \in tree : /\ m.path # <<>> /\ Front(m.path) = p.path
                            /\ Last(m.path)[1] = t})

(* One more of them, and parsing goes there.                               *)
Grow(n, f, p, t) ==
  LET path == Append(p.path, <<t, Groups(p, t)>>)
  IN  at' = {path} /\ tree' = Stored(n, f) \cup {Node(path, <<>>)}

Stay(n, f) == at' = at /\ tree' = Stored(n, f)

Down(n, f) == Grow(n, f, n, f.tag)

(* c counts groups of the parent p.                                        *)
Across(n, f, p, c) == Groups(p, c.tag) < Number(c.value) /\ Grow(n, f, p, c.tag)

Up(n, f, p, c) == /\ Groups(p, c.tag) >= Number(c.value)
                  /\ at' = {p.path} /\ tree' = Stored(n, f)

NoRoom(n, f) == at' = {} /\ tree' = Stored(n, f)

Read(n, f) ==
  \/ Stay(n, f) \/ Down(n, f) \/ NoRoom(n, f)
  \/ \E p \in tree : /\ n.path # <<>> /\ p.path = Front(n.path)
                     /\ \E c \in Range(p.fields) :
                          Across(n, f, p, c) \/ Up(n, f, p, c)

Next == Clear \/ \E n \in tree, f \in offered : n.path \in at /\ Read(n, f)

(* The first conjunct only spares TLC the search for a step where none is  *)
(* needed.                                                                 *)
Spec == Init /\ [][vars' # vars /\ Next]_vars
=============================================================================
