--------------------------- MODULE MCConnectorSync ---------------------------
(* Small instances of ConnectorSync: one or two sources of one tenant.      *)
EXTENDS ConnectorSync, TLC

Symmetry == Permutations(Workers) \cup Permutations(Configs)
=============================================================================
