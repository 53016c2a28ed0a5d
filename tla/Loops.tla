-------------------------------- MODULE Loops --------------------------------
(* Loops and tail calls inside one operation, and what they build.         *)
EXTENDS Integers

(* What n rounds make of x.  A round with nothing left to do changes       *)
(* nothing, so n need only be large enough.                                *)
Iterate(Round(_), x, n) ==
    LET after[k \in 0..n] == IF k = 0 THEN x ELSE Round(after[k - 1])
    IN  after[n]

(* f with v at x, which may be new.                                        *)
Put(f, x, v) == [y \in DOMAIN f \cup {x} |-> IF y = x THEN v ELSE f[y]]
=============================================================================
