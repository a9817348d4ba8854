------------------------------ MODULE MCRemote ------------------------------
(* Two instances: `a1` and `a2` are containers of one pod with the same     *)
(* image, so they share an instance name; `b1` has one of its own.          *)
EXTENDS RemoteAlone, TLC

CONSTANTS a1, a2, b1, A, B

MCContainer == {a1, a2, b1}
MCInstance == {A, B}
MCInstOf == (a1 :> A) @@ (a2 :> A) @@ (b1 :> B)
MCCode == {0, 1}
MCFaults == {"door", "job"}

=============================================================================
