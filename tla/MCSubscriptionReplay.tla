------------------------ MODULE MCSubscriptionReplay ------------------------
(* SubscriptionReplay on a small instance: one turn with all its events, and   *)
(* three turns that have only their terminal ones.                             *)
EXTENDS SubscriptionReplay

CONSTANTS m1, c1, c2, q1, x

ItemsDef ==
  {Message(m1, <<x>>, <<>>), Message(m1, <<x, x>>, <<>>), Message(m1, <<x>>, <<x>>),
   Call(c1, c2, <<x>>), Reasoning(q1, <<x>>, TRUE), Reasoning(q1, <<>>, FALSE)}
LettersDef == {x}
BoundsDef ==
  {[turns |-> 1, events |-> 4, edits |-> 0, items |-> 2],
   [turns |-> 3, events |-> 0, edits |-> 1, items |-> 1]}
=============================================================================
