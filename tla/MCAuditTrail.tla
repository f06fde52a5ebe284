---------------------------- MODULE MCAuditTrail ----------------------------
(* Two nodes and a lesson that anything may mention.                        *)
EXTENDS AuditTrail, TLC

CONSTANTS n1, n2, l1, e1, e2, t1, c1, s1, k1, x

MCMentioned == {{}, {n1, l1}}
MCSymmetry  == Permutations({e1, e2})
=============================================================================
