------------------------ MODULE MCWorkspaceProjections ------------------------
(* A journal and two artifacts, read in this order, and who works at the same time. *)
EXTENDS WorkspaceProjections, TLC

CONSTANTS a1, a2, g1, c1, c2, v1, n1, m1, t1

InOrder == <<Journal, a1, a2>>
Together == {{g1, c1, c2}, {g1, c1, v1}, {g1, n1, m1}, {t1}}
=============================================================================
