-------------------------- MODULE MCResponseCache --------------------------
(* The cache for TLC: keys are interchangeable, clients are not.           *)
EXTENDS ResponseCache, TLC

CONSTANTS c1, c2

Symmetry == Permutations(Keys)

(* One client validates its copy by the date and one sends no validators   *)
(* and keeps nothing; ...                                                  *)
DateOrNone == (c1 :> {{}, {"ims"}}) @@ (c2 :> {{}})

(* ... or the first sends tag and date together, as browsers do.           *)
BothHeaders == (c1 :> {{}, {"inm", "ims"}}) @@ (c2 :> {{}})
=============================================================================
