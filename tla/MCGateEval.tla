----------------------------- MODULE MCGateEval -----------------------------
(***************************************************************************)
(* GateEval for TLC: the bare query, and gates with two queries over every *)
(* op, thresholds on and off the samples, with and without credentials.    *)
(***************************************************************************)
EXTENDS GateEval

Query(op, t, ok) == [op |-> op, threshold |-> t, renders |-> ok]

Gate(auth, ca, bare, queries) ==
    [auth |-> auth, ca |-> ca, bare |-> bare, queries |-> queries]

MCGates ==
    {Gate("none", FALSE, TRUE, <<Query(Unset, Unset, TRUE)>>),
     Gate("basic", TRUE, FALSE, <<Query("gt", 0, TRUE), Query("le", 1, FALSE)>>)}
    \union {Gate("bearer", TRUE, FALSE, <<Query("ne", 0, TRUE), Query(op, Unset, TRUE)>>) :
              op \in {Unset, "ge", "lt", "le", "eq", "ne"}}
=============================================================================
