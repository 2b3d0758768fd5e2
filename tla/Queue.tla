------------------------------- MODULE Queue --------------------------------
(***************************************************************************)
(* object/queue.h: the list in which the kernel keeps threads, bells, gates*)
(* and mutexes.  Each item has a link to the next one.  tail is not the    *)
(* last item but the address of the last link: that of an item, or the     *)
(* head of the list itself when it is empty.                               *)
(*                                                                         *)
(* A link is named after its item, and the head is the link of Nil.        *)
(* remove() leaves the link of the item it removes as it is, and a walk    *)
(* through the list reads it when the item under it has been removed.      *)
(***************************************************************************)
EXTENDS Naturals, Sequences, FiniteSets

CONSTANTS Item, Nil

QueueAssumption == IsFiniteSet(Item) /\ Nil \notin Item

VARIABLES link,  \* the links: head, and next of each item
          tail,  \* the last link
          walk   \* the item a walk is at, Nil when it is over

queue == <<link, tail, walk>>

\* The items from one on, along the links; a circle would not end.
ItemsFrom(first) ==
  LET Steps == 0 .. Cardinality(Item)
      chain[i \in Steps] == IF i = 0 THEN first
                            ELSE IF chain[i - 1] = Nil THEN Nil ELSE link[chain[i - 1]]
      end == CHOOSE n \in Steps : chain[n] = Nil /\ \A i \in Steps : i < n => chain[i] # Nil
  IN  [i \in 1 .. end |-> chain[i - 1]]

Elements == ItemsFrom(link[Nil])
Queued(item) == \E i \in DOMAIN Elements : Elements[i] = item

QueueInit == link = [i \in Item \cup {Nil} |-> Nil] /\ tail = Nil /\ walk = Nil

Enqueue(item) ==
  /\ walk = Nil /\ ~ Queued(item)
  /\ link' = [link EXCEPT ![item] = Nil, ![tail] = item]
  /\ tail' = item
  /\ UNCHANGED walk

Dequeue ==
  LET out == link[Nil] IN
  /\ walk = Nil /\ out # Nil
  /\ link' = [link EXCEPT ![Nil] = link[out], ![out] = Nil]
  /\ tail' = IF link[out] = Nil THEN Nil ELSE tail
  /\ UNCHANGED walk

\* The item before, or the head.
Previous(item) == CHOOSE p \in {Nil} \cup {i \in Item : Queued(i)} : link[p] = item

\* A faulty form of Unlink: tail stays at the link of the item.
UnlinkKeepsTail(item) ==
  /\ link' = [link EXCEPT ![Previous(item)] = link[item]]
  /\ UNCHANGED tail

\* remove(), of an item that is found
Unlink(item) ==
  /\ link' = [link EXCEPT ![Previous(item)] = link[item]]
  /\ tail' = IF tail = item THEN Previous(item) ELSE tail

\* remove() of an item that is not in the list, as kill() tries it, finds nothing.
RemoveItem(item) == walk = Nil /\ Queued(item) /\ Unlink(item) /\ UNCHANGED walk

InsertFirst(item) ==
  /\ walk = Nil /\ ~ Queued(item)
  /\ link' = [link EXCEPT ![item] = link[Nil], ![Nil] = item]
  /\ tail' = IF tail = Nil THEN item ELSE tail
  /\ UNCHANGED walk

\* The new item is the last one if the last link, now, points to it.
InsertAfter(old, item) ==
  /\ walk = Nil /\ Queued(old) /\ ~ Queued(item)
  /\ link' = [link EXCEPT ![item] = link[old], ![old] = item]
  /\ tail' = IF link'[tail] = item THEN item ELSE tail
  /\ UNCHANGED walk

\* for (x : list): Iterator, begin()
Begin == walk = Nil /\ link[Nil] # Nil /\ walk' = link[Nil] /\ UNCHANGED <<link, tail>>

\* The body of the loop may remove the item it is at, as mutex_release_all()
\* does; then operator++ follows the link of that item, and meets end() at Nil.
Visit ==
  /\ walk # Nil /\ walk' = link[walk]
  /\ Unlink(walk) \/ UNCHANGED <<link, tail>>

QueueNext ==
  \/ Dequeue \/ Begin \/ Visit
  \/ \E item \in Item : Enqueue(item) \/ RemoveItem(item) \/ InsertFirst(item)
  \/ \E old, item \in Item : InsertAfter(old, item)

QueueSpec == QueueInit /\ [][QueueNext]_queue
-----------------------------------------------------------------------------
AsList == INSTANCE Lists WITH list <- Elements, rest <- ItemsFrom(walk)

\* Whatever is inserted and removed anywhere, with tail and the links that
\* removed items keep, the queue is the sequence its users take it for, and a
\* walk that removes the item it is at visits each of the others once.
QueueIsList == AsList!Spec
=============================================================================
