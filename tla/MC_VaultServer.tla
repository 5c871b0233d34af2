---- MODULE MC_VaultServer ----
EXTENDS VaultServer, TLC
MCParents == ("f" :> Nil) @@ ("g" :> Nil) @@ ("n" :> "f")
MCChain == ("f" :> Nil) @@ ("g" :> "f") @@ ("h" :> "g")
MCNotes == "n" :> Nil
MCSymmetry == Permutations(Writers)
====
