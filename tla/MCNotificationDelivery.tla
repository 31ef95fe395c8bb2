------------------------ MODULE MCNotificationDelivery ------------------------
(* Small instances of NotificationDelivery for TLC. *)
EXTENDS NotificationDelivery, TLC

CONSTANT u1

MCRecipientOf == [e \in Entries |-> u1]

\* Bound: one message, and one task retried by hand, among workers and crashes.
OneMessage ==
    /\ \A e \in Entries \ {1} : inbox[e].row = "none"
    /\ \A t, u \in Tasks : t # u => retries[t] = 0 \/ retries[u] = 0

\* Bound: several messages, with handlers alone, whose locks may cross.
LocksOnly ==
    /\ \A w \in Workers : tx[w] = Idle
    /\ crashes = 0
    /\ \A l \in Logs : log[l] = "none"
    /\ \A e \in Entries : inbox[e].row # "purged"
    /\ \A t \in Tasks : task[t].status # "purged"

OneMessageOrLocks == OneMessage \/ LocksOnly

Symmetry == Permutations(Workers) \union Permutations(Handlers)

=============================================================================
