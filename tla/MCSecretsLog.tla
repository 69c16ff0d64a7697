----------------------------- MODULE MCSecretsLog -----------------------------
(* The routes' and the adapter's service over one log; values and names    *)
(* are interchangeable.                                                    *)
EXTENDS SecretsLog, TLC

CONSTANTS routes, adapter, key, config, v1, v2

MCServices == {routes, adapter}
MCNames == {key, config}
MCValues == {v1, v2}

Symmetry == Permutations(MCServices) \union Permutations(MCNames) \union Permutations(MCValues)
=============================================================================
