---------------------------- MODULE MCNtModules ----------------------------
(* Instances of NtModules for TLC.                                          *)
EXTENDS NtModules, TLC

CONSTANTS t1, t2, p1, p2, a, b

Apart    == t1 :> p1 @@ t2 :> p2
Together == t1 :> p1 @@ t2 :> p1

\* The threads that load modules belong to two processes, or to one.
ApartOrTogether == {Apart, Together}

\* Only one of them loads modules; both exit.
Modules == p1 :> {a, b} @@ p2 :> {}
=============================================================================
