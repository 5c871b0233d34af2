---- MODULE MC_VaultSync ----
EXTENDS VaultSync, TLC
MCParents == [i \in {"m", "n"} |-> Nil]
MCOne == [i \in {"m"} |-> Nil]
====
