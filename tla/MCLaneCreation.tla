---------------------------- MODULE MCLaneCreation -----------------------------
(* Instances of LaneCreation for TLC. *)
EXTENDS LaneCreation, DefensePack, Reports, TLC

CONSTANTS c1, c2, c3, c4, dispute1, oldyear, newyear, mango, durian

\* A plain append is what a creation does after its commit.
MCKindOf == [r \in Requests |-> IF r = dispute1 THEN "dispute" ELSE "create"]

\* Creations around New Year's Eve, one of another product.
MCYearOf == [r \in Requests |-> IF r \in {c2, c3} THEN newyear ELSE oldyear]
MCPrefixOf == [r \in Requests |-> IF r = c4 THEN durian ELSE mango]

\* The next lane of the old year is the 1000th, and so is the second batch of mangoes: of
\* c1 and c4 one is refused for its lane, of c1, c2 and c3 one for its batch.
MCSeeded == [s \in Counters |->
    CASE s = oldyear -> 999 [] s = mango -> 998 [] OTHER -> 0]
===============================================================================
