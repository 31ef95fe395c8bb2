------------------------- MODULE MCAttendanceGateway -------------------------
(* Small instances of AttendanceGateway for TLC. *)
EXTENDS AttendanceGateway, TLC

CONSTANTS b1, b2, b3, e1, e2, e3

\* Three punches, of which the window confuses the second with each of the others;
\* the second reaches the gateway in two batches.
MCEventsOf == (b1 :> <<e1, e2>>) @@ (b2 :> <<e2, e3>>)
Same == {<<e1, e2>>, <<e2, e3>>}
MCNear == Same \union {<<p[2], p[1]>> : p \in Same} \union {<<e, e>> : e \in Events}

\* Batches of one punch, where the order of the files matters and their content does not.
MCOneEvent == [b \in Batches |-> <<e1>>]
MCNearItself == {<<e, e>> : e \in Events}

=============================================================================
