--------------------------- MODULE MCPolicyUpdate ---------------------------
(* One file of each sort: def.json, a policy file, a module whose name     *)
(* matches no pattern, and a path that only later def.json files list.     *)
EXTENDS PolicyUpdate

MCFiles == {"def.json", "promises.cf", "modules/mod", "extra"}
MCMatching == {"def.json", "promises.cf"}
ListedLater == [v \in Versions |-> IF v >= 2 THEN {"extra"} ELSE {}]
=============================================================================
