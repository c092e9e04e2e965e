--------------------------- MODULE MCNodeFairness ---------------------------
(* Work nodes of one graph on small instances: an interactive node, two of *)
(* one class and a background one; and two rivals of different classes.    *)
EXTENDS NodeFairness

FourNodes == 1..4
Mixed == <<"NORMAL", "INTERACTIVE", "NORMAL", "BACKGROUND">>
TwoNodes == 1..2
Rivals == <<"EXPEDITE", "NORMAL">>
=============================================================================
