------------------------- MODULE MCMaterialIssuance -------------------------
(* Small instances of MaterialIssuance for TLC. *)
EXTENDS MaterialIssuance, TLC

CONSTANTS l1, l2, o1, b1, b2, m1

MCOrderOf == [l \in Lines |-> o1]
MCMaterialOf == [b \in Batches |-> m1]
\* A recipe may list a material it needs none of: its row can be supplemented only.
MCRecipes == {[m \in Materials |-> n] : n \in 0 .. 2}
MCOneRecipe == {[m \in Materials |-> 2]}
MCReserved == [category \in {"stock", "pending"} |-> [b \in Batches |-> 0]]
MCReceipts == {[qty |-> 2, value |-> 2], [qty |-> 1, value |-> 4]}

\* Bound of the warehouse run: clients lose every answer (replays are the subject
\* of the order run) and the order is only ever confirmed.
WarehouseFocus ==
    /\ \A c \in Commands : answer[c] = None
    /\ \A o \in Orders : order[o].status \in {"Draft", "Pending"}
    /\ \A l \in Lines : line[l].state = "attached"

Symmetry == Permutations(Docs) \union Permutations(Commands)

=============================================================================
