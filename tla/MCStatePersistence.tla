------------------------- MODULE MCStatePersistence -------------------------
(* Small instances of StatePersistence for TLC.                            *)
EXTENDS StatePersistence

CONSTANTS i1, i2, a1, a2, k1, v1

Plain(type) == [type |-> type, id |-> NoId, addr |-> NoAddr, on |-> FALSE,
                kind |-> k1, reading |-> NoReading, at |-> 0]

About(types, ids, addrs) ==
    {[Plain(t) EXCEPT !.id = i, !.addr = a] : t \in types, i \in ids, a \in addrs}

MCIds == {i1, i2}
MCOneId == {i1}
MCAddrs == {a1, a2}
MCKinds == {k1}
MCReadings == {v1}
MCTimes == {0, 1}

\* Devices come, go and change their address, some known by their identity
\* and some by their address only.
MCMembership ==
    About({"joined", "left"}, MCIds \cup {NoId}, MCAddrs \cup {NoAddr})

\* A device known by its identity moves between addresses; another lives at the
\* first of them, known by it only, "configured" standing for the events of its
\* set-up; the network comes and goes.
MCLives ==
    About({"joined", "left"}, MCOneId, MCAddrs)
      \cup About({"joined", "left", "configured", "stale"}, {NoId}, {a1})
      \cup {[Plain("telemetry") EXCEPT !.addr = a1, !.reading = v1, !.at = t] :
              t \in MCTimes}
      \cup {Plain(t) : t \in {"networkUp", "networkDown"}}

=============================================================================
