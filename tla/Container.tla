------------------------------ MODULE Container ------------------------------
(***************************************************************************)
(* What stacks and queues promise: an item is added, and one is taken out, *)
(* each in a single step; of a stack the newest one, of a queue the oldest.*)
(***************************************************************************)
EXTENDS SequencesExt

CONSTANTS Items,
          Lifo    \* TRUE for a stack, FALSE for a queue

VARIABLE items    \* the newest comes last

Init == items = <<>>

Put ==
  /\ items' # <<>> /\ Last(items') \in Items
  /\ items' = Append(items, Last(items'))

Take ==
  /\ items # <<>>
  /\ items' = IF Lifo THEN Front(items) ELSE Tail(items)

Next == Put \/ Take

Spec == Init /\ [][Next]_items
=============================================================================
