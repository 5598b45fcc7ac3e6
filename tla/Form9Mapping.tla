---------------------------- MODULE Form9Mapping ----------------------------
(***************************************************************************)
(* The lookup that turns the node of the taxonomy which the classifier     *)
(* picked, L1 > L2 > L3 with a blank for a level it leaves open, into the  *)
(* treatment the mapping prescribes, and the rails an answer may name.     *)
(* Cells and treatments are atoms; blank and spaces are one.               *)
(***************************************************************************)
EXTENDS Naturals, FiniteSetsExt

CONSTANTS
    Tables,     \* the mappings to consider: sequences of rows, each a
                \* record [node, treatment] whose node is a triple
    Names,      \* names of categories and leaves, the invented ones too
    Blank,      \* an empty cell, or one of spaces only
    Nothing     \* undefined

ASSUME MappingAssumption ==
    /\ Blank \notin Names
    /\ \A table \in Tables : \A i \in DOMAIN table :
         LET node == table[i].node
         IN  i \in Nat /\ table[i] # Nothing /\ node = <<node[1], node[2], node[3]>>

VARIABLES
    rows,       \* constant: the mapping that was parsed
    asked,      \* the node looked up last
    found       \* what came of it

mappingVars == <<rows, asked, found>>

-----------------------------------------------------------------------------
(* rows.find: the first row of the node.                                   *)
RowOf(node) ==
    LET hits == {i \in DOMAIN rows : rows[i].node = node}
    IN  IF hits = {} THEN Nothing ELSE rows[Min(hits)]

(* Variants, each named for the slip it makes, stand before what they      *)
(* replace: the runs show that the properties tell them apart.             *)
CandidatesDefaultFirst(l1, l2, l3) ==
    << <<l1, Blank, Blank>>, <<l1, l2, Blank>>, <<l1, l2, l3>> >>

Candidates(l1, l2, l3) ==
    << <<l1, l2, l3>>, <<l1, l2, Blank>>, <<l1, Blank, Blank>> >>

LookupForm9(l1, l2, l3) ==
    LET nodes == Candidates(l1, l2, l3)
        hits  == {k \in 1..3 : RowOf(nodes[k]) # Nothing}
    IN  IF hits = {} THEN Nothing ELSE RowOf(nodes[Min(hits)])

(* FORM9_L1_VALUES: the rails the schema of an answer accepts.             *)
Rails == {rows[i].node[1] : i \in DOMAIN rows}

-----------------------------------------------------------------------------
MappingInit == rows \in Tables /\ asked = <<Blank, Blank, Blank>> /\ found = Nothing

(* The classifier's rail is one of the enum, its other levels are free     *)
(* text: it may leave them blank, or invent them.                          *)
Lookup(l1, l2, l3) ==
    /\ l1 \in Rails
    /\ asked' = <<l1, l2, l3>>
    /\ found' = LookupForm9(l1, l2, l3)
    /\ UNCHANGED rows

MappingNext ==
    \E l1 \in Rails, l2, l3 \in Names \cup {Blank} : Lookup(l1, l2, l3)

-----------------------------------------------------------------------------
(* Whether a row applies to a node, and how specific it is.                *)
Applies(row, node) ==
    /\ row.node[1] = node[1]
    /\ \/ row.node = node
       \/ row.node[3] = Blank /\ row.node[2] \in {node[2], Blank}

Depth(node) == Cardinality({k \in 1..3 : node[k] # Blank})

(* What is found is the most specific row that applies, the first of them: *)
(* "most specific first: exact, then the L2 default, then the L1 default". *)
MostSpecificRow ==
    asked[1] # Blank =>
      LET applicable == {i \in DOMAIN rows : Applies(rows[i], asked)}
      IN  IF applicable = {} THEN found = Nothing
          ELSE \E i \in applicable :
                 /\ found = rows[i]
                 /\ \A j \in applicable :
                      \/ Depth(rows[j].node) < Depth(rows[i].node)
                      \/ Depth(rows[j].node) = Depth(rows[i].node) /\ i <= j
=============================================================================
