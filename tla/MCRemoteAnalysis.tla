-------------------------- MODULE MCRemoteAnalysis --------------------------
(* Instances of RemoteAnalysis for TLC. *)
EXTENDS RemoteAnalysis

With(kinds, mishaps, victims) ==
    [kind : kinds, mishaps : {mishaps}, victims : {victims}]
C == {"c_analysis"}
Java == {"java_analysis"}

\* A first delivery that outlives its lease, is shut down or dies, together
\* with what the network, the service and the reaper do; a last delivery that
\* is shut down; and one that dies or loses its heartbeat after a failed disk.
EverySetting ==
         With(Java, {"pause"}, {1}) \cup With(C, {"pause", "disk"}, {2})
    \cup With(Java, {"crash", "network"}, {1}) \cup With(C, {"crash", "restart"}, {1})
    \cup With(C, {"shutdown", "restart"}, {1})
    \cup With(C \cup Java, {"shutdown", "restart"}, {2})
    \cup With(C \cup Java, {"database", "disk"}, {2})
    \cup With(C, {"cancel", "restart"}, {1}) \cup With(Java, {"cancel"}, {1})
    \cup With(C, {"delay", "disk"}, {1})
    \cup With(C \cup Java, {"crash", "disk"}, {2})

\* A worker that loses its lease while a C analysis is remote.
LostLease == With(C, {"pause"}, {1})
=============================================================================
