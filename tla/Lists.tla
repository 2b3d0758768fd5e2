------------------------------- MODULE Lists --------------------------------
(***************************************************************************)
(* What a list promises to those who use it: a sequence of different       *)
(* items, and a walk that visits what is still to come of it, whatever     *)
(* becomes of the items it has visited.                                    *)
(***************************************************************************)
EXTENDS SequencesExt

CONSTANT Item

VARIABLES list,   \* the items in the list
          rest    \* what a walk through the list has still to visit

Init == list = <<>> /\ rest = <<>>

Holds(item) == \E i \in 1 .. Len(list) : list[i] = item

Change(to) == list' = to /\ rest = <<>> /\ UNCHANGED rest

Enqueue(item) == ~ Holds(item) /\ Change(Append(list, item))
Dequeue == list # <<>> /\ Change(Tail(list))
RemoveItem(item) == Change(RemoveFirst(list, item))
InsertFirst(item) == ~ Holds(item) /\ Change(<<item>> \o list)
InsertAfter(old, item) ==
  /\ ~ Holds(item)
  /\ \E i \in 1 .. Len(list) : list[i] = old /\ Change(InsertAt(list, i + 1, item))

Walk == rest = <<>> /\ rest' = list /\ UNCHANGED list
Visit == rest # <<>> /\ rest' = Tail(rest) /\ (UNCHANGED list \/ list' = RemoveFirst(list, Head(rest)))

Next ==
  \/ Dequeue \/ Walk \/ Visit
  \/ \E item \in Item : Enqueue(item) \/ RemoveItem(item) \/ InsertFirst(item)
  \/ \E old, item \in Item : InsertAfter(old, item)

Spec == Init /\ [][Next]_<<list, rest>>
=============================================================================
