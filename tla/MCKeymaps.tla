----------------------------- MODULE MCKeymaps ------------------------------
EXTENDS Keymaps
MCCommands == {-1, -2, -3, -4}
MCBindable == {-1, NULL, EscMap}
\* No local map; one whose third key converts it; one with a prefix.
MCFirst == {Sparse, Set(Set(Sparse, 2, -3), 0, -2)}
=============================================================================
