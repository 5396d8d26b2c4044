---------------------------- MODULE MCLicensing -----------------------------
(* A small instance of Licensing for TLC.  The deployment starts with one      *)
(* issuer, trusts a second one beside it, then only the second under a new     *)
(* secret; or nothing is set.                                                  *)
EXTENDS Licensing, TLC

CONSTANTS l1, l2, s1, s2, k1, k2, i1, i2, h1, h2

Trusting(a, b) == [i \in KeyId |-> IF i = i1 THEN a ELSE b]

First    == [secret |-> s1, trusted |-> Trusting(k1, Nil), private |-> k1, key_id |-> i1]
Rotating == [secret |-> s1, trusted |-> Trusting(k1, k2), private |-> k2, key_id |-> i2]
Second   == [secret |-> s2, trusted |-> Trusting(Nil, k2), private |-> k2, key_id |-> i2]
Unset    == [secret |-> Nil, trusted |-> NoAnchor, private |-> Nil, key_id |-> i1]

SmallEnv    == {First, Rotating, Second, Unset}
SmallPreset == {Unset, [Unset EXCEPT !.secret = s1], [Second EXCEPT !.private = Nil]}
SmallMeta == {[expires |-> 0, binding |-> h1]}

Symmetry == Permutations(License)
=============================================================================
