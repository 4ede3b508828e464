------------------------- MODULE MCRotatingProvider -------------------------
(* Small instances of RotatingProvider: requests a and b ask for model m,  *)
(* request c for model n.                                                  *)
EXTENDS RotatingProvider
CONSTANTS a, b, c, m, n

MCModelOf == [r \in Requests |-> IF r = c THEN n ELSE m]
ShortRetryAfter == {None, 2}
OneLockoutTier == <<2>>
=============================================================================
