---------------------------- MODULE MCAgentService ----------------------------
\* Keys and passphrases are interchangeable.
EXTENDS AgentService, TLC

Symmetry == Permutations(Keys) \union Permutations(Passphrases)
================================================================================
