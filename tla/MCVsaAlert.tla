---------------------------- MODULE MCVsaAlert ----------------------------
(***************************************************************************)
(* VsaAlert for TLC: what the driver is told, for a peer that may come too *)
(* close ahead; two such peers, and one that may come too close from ahead *)
(* and from behind, with atomic updates of alert_pend; the latter with     *)
(* updates that can be torn.                                               *)
(***************************************************************************)
EXTENDS VsaAlert

CONSTANTS P1, P2

MCPeers == {P1, P2}

Case(t, f, peers, kinds) ==
  [torn |-> t, followed |-> f, threats |-> [p \in peers |-> kinds]]

MCScenarios ==
  {Case(FALSE, TRUE, {P1}, {Crd}),
   Case(FALSE, FALSE, {P1, P2}, {Crd}),
   Case(FALSE, FALSE, {P1}, {Crd, Rear}),
   Case(TRUE, FALSE, {P1}, {Crd, Rear})}
=============================================================================
