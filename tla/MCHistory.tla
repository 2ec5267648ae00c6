------------------------------ MODULE MCHistory ------------------------------
(* A small instance of History: an API key whose two scopes have different *)
(* limits and windows, so that one refuses while the other lets pass.      *)
EXTENDS History

MCScopes == <<"api_key", "history">>
MCLimit == [k \in {"api_key", "history"} |-> IF k = "api_key" THEN 2 ELSE 1]
MCLimits == {-3, 0, 5}
MCWindow == [k \in {"api_key", "history"} |-> IF k = "api_key" THEN 1 ELSE 2]
=============================================================================
