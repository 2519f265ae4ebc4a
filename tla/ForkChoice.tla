------------------------------ MODULE ForkChoice -----------------------------
(***************************************************************************)
(* What a block store promises, without how: a tree of chains that grows   *)
(* by one block at a time, and a head that moves only to a chain that has  *)
(* just arrived, and that extends it or claims a higher number.  Tear is   *)
(* the exception a crash makes: the new chain stays in the tree, and the   *)
(* head is not told of it.                                                 *)
(***************************************************************************)
EXTENDS Naturals, Sequences

VARIABLES tree,         \* set of stored chains
          head,         \* the chain the node works on
          lost          \* chains that grew without the head being told

abstract == <<tree, head, lost>>

Number(h) == IF h = << >> THEN 0 ELSE h[Len(h)].num

Init == /\ tree = {head}
        /\ lost = {}

Below(h) == SubSeq(h, 1, Len(h) - 1)

Arrives(h) == /\ h \notin tree
              /\ h # << >>
              /\ Below(h) \in tree
              /\ tree' = tree \cup {h}

Wins(h) == Below(h) = head \/ Number(h) > Number(head)

Grow(h) == /\ Arrives(h)
           /\ head' = IF Wins(h) THEN h ELSE head
           /\ lost' = lost

Tear(h) == /\ Arrives(h)
           /\ Wins(h)
           /\ head' = head
           /\ lost' = lost \cup {h}

Next == \E h \in tree' : Grow(h) \/ Tear(h)

Spec == Init /\ [][Next]_abstract
=============================================================================
