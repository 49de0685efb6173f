--------------------------- MODULE MCEventStream ---------------------------
(* Small instances of EventStream: two clients that share the hub, with    *)
(* cursors of their own making.                                            *)
EXTENDS EventStream

CONSTANTS c1, c2

MCOneClient == {c1}
MCTwoClients == {c1, c2}

\* Cursors a client may present without having received them.
MCCursors == {0}
MCNoCursors == {}

Budget(connections, stalls, expired, duplicates, drops) ==
    [connections |-> connections, stalls |-> stalls, expired |-> expired,
     duplicates |-> duplicates, drops |-> drops]

\* Two connections, of one client or of both, one of which stops reading, or
\* one connection with a fault of every other kind.
MCBudgets == {Budget(2, 1, 0, 0, 0), Budget(1, 0, 1, 1, 1)}
MCSlowClient == {Budget(1, 1, 0, 0, 0)}
MCLostSession == {Budget(1, 0, 0, 0, 1)}
=============================================================================
