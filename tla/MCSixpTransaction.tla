------------------------- MODULE MCSixpTransaction -------------------------
(* a and b ask each other.  b also asks c, which is out of reach, so that    *)
(* the only block of b is taken when a request of a arrives.                 *)
EXTENDS SixpTransaction

CONSTANTS a, b, c

MCReach == {<<a, b>>, <<b, a>>}
MCAsks == {<<a, b, "add3">>, <<b, a, "clear">>, <<b, c, "add">>}
MCAdds == {<<a, b, "add">>, <<b, a, "add">>}
=============================================================================
