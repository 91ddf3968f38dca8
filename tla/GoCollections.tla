---------------------------- MODULE GoCollections ----------------------------
(* How Go's loops go through maps and build slices.                           *)
EXTENDS Naturals, Sequences, FiniteSets, Functions

IsSequence(s) == s \in Seq(Range(s))

\* The orders in which a loop may go through a map with these keys
MapOrders(keys) == Injection(1..Cardinality(keys), keys)

\* What a loop has built whose iterations append these parts
AppendAll(parts) ==
    IF parts = <<>> THEN <<>>
    ELSE LET built[i \in 1..Len(parts)] ==
                 IF i = 1 THEN parts[i] ELSE built[i - 1] \o parts[i]
         IN  built[Len(parts)]
=============================================================================
