--------------------------- MODULE MCGuardScopes ---------------------------
(* A small instance of GuardScopes for TLC: one thread calls while two scopes *)
(* come and go, or two threads call in one scope.                             *)
EXTENDS GuardScopes, TLC

CONSTANTS A, B, w1, w2

Program(scopes, refused, workers, kinds, n, budget) ==
  [scopes |-> scopes, refused |-> refused, workers |-> workers, kinds |-> kinds,
   calls |-> n, budget |-> budget]

SmallPrograms ==
  {Program({A, B}, {}, {w1}, {"rebound", "bypass"}, 2, 1),
   Program({A, B}, {}, {w1}, {"rebound", "bypass"}, 2, 0),
   Program({A, B}, {}, {w1}, {"tool", "bypass"}, 2, 1),
   Program({A, B}, {B}, {w1}, {"rebound", "tool"}, 2, 1),
   Program({A, B}, {}, {w1}, {"native"}, 2, 1),
   Program({A, B}, {}, {w1}, {"routed"}, 1, 1),
   Program({A, B}, {}, {w1}, {"uncounted"}, 1, 1),
   Program({A}, {}, {w1, w2}, {"rebound", "bypass"}, 3, 1),
   Program({A}, {}, {w1, w2}, {"native"}, 3, 3),
   Program({A}, {}, {w1, w2}, {"native", "routed"}, 2, 2),
   Program({A}, {}, {w1, w2}, {"native", "uncounted"}, 2, 1)}

\* Two scopes of two threads and no call at all.
TwoScopes == {Program({A, B}, {}, {}, {}, 0, 0)}

\* Nothing tells two scopes or two workers apart but the program that was chosen.
Interchangeable == Permutations(Scope) \cup Permutations(Worker)
=============================================================================
