------------------------------ MODULE MCRings ------------------------------
(***************************************************************************)
(* Instances of the rings: cookies are interchangeable.                    *)
(***************************************************************************)
EXTENDS Rings, TLC

CookieSymmetry == Permutations(Cookies)

============================================================================
