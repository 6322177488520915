------------------------------ MODULE MCLinks ------------------------------
(* Instances of Links for TLC.                                                *)
EXTENDS Links

Server(n, g) == [name |-> n, host |-> TRUE, port |-> TRUE, group |-> g, disabled |-> FALSE]

MCAlone == <<Server("A", 0)>>
MCPair == <<Server("A", 1), Server("B", 1)>>
MCFilesAlone == {MCAlone, <<>>}
MCFilesPair == {MCPair}
MCAdded == {Server("A", 0)}
=============================================================================
