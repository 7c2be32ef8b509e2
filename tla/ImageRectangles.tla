--------------------------- MODULE ImageRectangles ---------------------------
(* Rectangles of pixels, as image.Rectangle of Go has them, and limits. *)
EXTENDS Integers

Rect(x, y, w, h) == [x |-> x, y |-> y, w |-> w, h |-> h]

Smaller(a, b) == IF a < b THEN a ELSE b
Larger(a, b)  == IF a > b THEN a ELSE b
=============================================================================
