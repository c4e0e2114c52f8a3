--------------------------- MODULE MCScreenshots ---------------------------
(* Two shots of one slot of one PC, the second of which may drift, or of two PCs of a person
   in one second. *)
EXTENDS Screenshots, TLC

CONSTANTS s1, s2, p1, p2

Both(a, b)   == (s1 :> a) @@ (s2 :> b)
OneSlot      == [slot |-> Both(s1, s1), paths |-> Both({p1}, {p1, p2})]
OneSecond    == [slot |-> Both(s1, s2), paths |-> Both({p1}, {p1})]
SomeFamilies == {OneSlot, OneSecond}
=============================================================================
