----------------------------- MODULE MCResolver -----------------------------
(***************************************************************************)
(* Resolver instantiated for TLC: two callers asking the same question in  *)
(* one bucket, so that they coalesce on one fctx, race its start and its   *)
(* shutdown; two NS names; the restart failsafe lowered so that a run can  *)
(* reach it.                                                               *)
(***************************************************************************)
EXTENDS Resolver, TLC

CONSTANTS c1, c2, c3, k1, u1

MCCallers  == {c1, c2}
MCCaller   == {c1}
MCCallers3 == {c1, c2, c3}
MCKeys     == {k1}
MCKeyOf    == [c \in MCCallers |-> k1]
MCKeyOf1   == [c \in MCCaller |-> k1]
MCKeyOf3   == [c \in MCCallers3 |-> k1]
MCBucketOf == [k \in MCKeys |-> 0]
MCUsers    == {u1}
MCNoUsers  == {}

\* The callers of MCCallers ask the same question and are interchangeable.
MCCallerSymmetry == Permutations(MCCallers)
=============================================================================
