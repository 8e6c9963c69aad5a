----------------------------- MODULE LinkedList -----------------------------
(***************************************************************************)
(* The doubly linked list of the Etherlink kernel, kept in the durable     *)
(* storage of the rollup (kernel/src/linked_list.rs).  Every element has a *)
(* cell "<id>/pointer" with the identifiers before and after it and a cell *)
(* "<id>/data"; "meta" holds a copy of the first and of the last pointer.  *)
(* The copies are what is read when an element is pushed or popped, so     *)
(* they must follow every change of the cells they were copied from.       *)
(*                                                                         *)
(* Encoding to RLP and the paths of the cells are left out: a cell is a    *)
(* value of the function `pointer' or `data', None when the path is empty. *)
(***************************************************************************)
EXTENDS Naturals, Sequences, FiniteSets

CONSTANTS
  Ids,     \* identifiers of elements: the hashes of the delayed transactions
  Elts,    \* elements
  None     \* an absent cell, an absent neighbour, Option::None

ASSUME IdsAssumption == IsFiniteSet(Ids) /\ None \notin Ids
ASSUME EltsAssumption == None \notin Elts

VARIABLES
  pointers,   \* the field `pointers': [front, back] in memory, None if empty
  meta,       \* the same in the durable storage, at <path>/meta
  pointer,    \* the cells <path>/<id>/pointer
  data,       \* the cells <path>/<id>/data
  result      \* what the last operation returned

vars == <<pointers, meta, pointer, data, result>>

Pointer == [id : Ids, previous : Ids \union {None}, next : Ids \union {None}]
LinkedListPointer == [front : Pointer, back : Pointer]

ASSUME NoneAssumption == None \notin Pointer /\ None \notin LinkedListPointer

TypeOK ==
  /\ pointers \in LinkedListPointer \union {None}
  /\ meta \in LinkedListPointer \union {None}
  /\ pointer \in [Ids -> Pointer \union {None}]
  /\ data \in [Ids -> Elts \union {None}]
  /\ result \in [id : Ids, elt : Elts] \union {None}

Init ==
  /\ pointers = None /\ meta = None
  /\ pointer = [id \in Ids |-> None]
  /\ data = [id \in Ids |-> None]
  /\ result = None

\* What an operation hands back for an identifier it found: its element.
Found(id) == [id |-> id, elt |-> data[id]]

\* The end of an operation: the new front and back, in memory and in meta.
save(front, back) ==
  /\ pointers' = [front |-> front, back |-> back]
  /\ meta' = pointers'

(***************************************************************************)
(* LinkedList::push                                                        *)
(***************************************************************************)

\* Mutant: the copy of the front keeps its old `next' when it was also the back.
PushBehindStaleFront(id) ==
  LET penultimate == [pointers.back EXCEPT !.next = id]
      back == [id |-> id, previous |-> penultimate.id, next |-> None]
  IN /\ pointer' = [pointer EXCEPT ![penultimate.id] = penultimate, ![id] = back]
     /\ save(pointers.front, back)

\* The pointers after an element is appended behind the cached back.
PushBehind(id) ==
  LET penultimate == [pointers.back EXCEPT !.next = id]
      back == [id |-> id, previous |-> penultimate.id, next |-> None]
  IN /\ pointer' = [pointer EXCEPT ![penultimate.id] = penultimate, ![id] = back]
     /\ save(IF penultimate.id = pointers.front.id
             THEN penultimate ELSE pointers.front, back)

PushFirst(id) ==
  LET back == [id |-> id, previous |-> None, next |-> None]
  IN /\ pointer' = [pointer EXCEPT ![id] = back]
     /\ save(back, back)

push(id, e) ==
  /\ result' = None
  /\ \/ /\ pointer[id] # None
        /\ UNCHANGED <<pointers, meta, pointer, data>>
     \/ /\ pointer[id] = None /\ pointers # None
        /\ PushBehind(id)
        /\ data' = [data EXCEPT ![id] = e]
     \/ /\ pointer[id] = None /\ pointers = None
        /\ PushFirst(id)
        /\ data' = [data EXCEPT ![id] = e]

\* Mutant: the data is read without a look at the pointer.
find_data(id) ==
  /\ result' = Found(id)
  /\ UNCHANGED <<pointers, meta, pointer, data>>

find(id) ==
  /\ result' = IF pointer[id] = None THEN None ELSE Found(id)
  /\ UNCHANGED <<pointers, meta, pointer, data>>

(***************************************************************************)
(* LinkedList::remove: the neighbours are read from their cells, not from  *)
(* the copies in memory; the copies are then compared by identifier.       *)
(***************************************************************************)
Neighbour(id) == IF id = None THEN None ELSE pointer[id]

\* The cell of the element is deleted, those of its neighbours are saved.
Relink(id, cells) ==
  pointer' = [i \in Ids |-> IF \E c \in cells : c.id = i
                            THEN CHOOSE c \in cells : c.id = i
                            ELSE IF i = id THEN None ELSE pointer[i]]

RemoveOnly(id) ==
  /\ Relink(id, {})
  /\ pointers' = None /\ meta' = None

RemoveHead(id, next) ==
  LET new_front == [next EXCEPT !.previous = None]
  IN /\ Relink(id, {new_front})
     /\ save(new_front, IF new_front.id = pointers.back.id
                        THEN new_front ELSE pointers.back)

RemoveEnd(id, previous) ==
  LET new_back == [previous EXCEPT !.next = None]
  IN /\ Relink(id, {new_back})
     /\ save(IF new_back.id = pointers.front.id
             THEN new_back ELSE pointers.front, new_back)

\* Mutant: the copies are refreshed only when an end of the list is removed.
RemoveBetweenStaleEnds(id, previous, next) ==
  LET new_previous == [previous EXCEPT !.next = next.id]
      new_next == [next EXCEPT !.previous = previous.id]
  IN /\ Relink(id, {new_previous, new_next})
     /\ save(pointers.front, pointers.back)

\* Mutant: the cell after the removed one is left as it was.
RemoveBetweenOneSide(id, previous, next) ==
  LET new_previous == [previous EXCEPT !.next = next.id]
  IN /\ Relink(id, {new_previous})
     /\ save(IF new_previous.id = pointers.front.id
             THEN new_previous ELSE pointers.front, pointers.back)

RemoveBetween(id, previous, next) ==
  LET new_previous == [previous EXCEPT !.next = next.id]
      new_next == [next EXCEPT !.previous = previous.id]
  IN /\ Relink(id, {new_previous, new_next})
     /\ save(IF new_previous.id = pointers.front.id
             THEN new_previous ELSE pointers.front,
             IF new_next.id = pointers.back.id
             THEN new_next ELSE pointers.back)

remove(id) ==
  \/ /\ pointers = None \/ pointer[id] = None
     /\ result' = None
     /\ UNCHANGED <<pointers, meta, pointer, data>>
  \/ /\ pointers # None /\ pointer[id] # None
     /\ result' = Found(id)
     /\ data' = [data EXCEPT ![id] = None]
     /\ LET previous == Neighbour(pointer[id].previous)
            next == Neighbour(pointer[id].next)
        IN \/ previous = None /\ next = None /\ RemoveOnly(id)
           \/ previous = None /\ next # None /\ RemoveHead(id, next)
           \/ previous # None /\ next = None /\ RemoveEnd(id, previous)
           \/ previous # None /\ next # None
              /\ RemoveBetween(id, previous, next)

\* first and first_with_id: the front comes from memory, its data from its cell.
first ==
  /\ result' = IF pointers = None THEN None ELSE Found(pointers.front.id)
  /\ UNCHANGED <<pointers, meta, pointer, data>>

pop_first ==
  \/ pointers = None /\ result' = None /\ UNCHANGED <<pointers, meta, pointer, data>>
  \/ pointers # None /\ remove(pointers.front.id)

delete ==
  /\ pointers' = None /\ meta' = None
  /\ pointer' = [id \in Ids |-> None]
  /\ data' = [id \in Ids |-> None]
  /\ result' = None

\* LinkedList::new, at the start of every run of the kernel.
new ==
  /\ pointers' = meta
  /\ UNCHANGED <<meta, pointer, data, result>>

Next ==
  \/ \E id \in Ids : find(id) \/ remove(id) \/ \E e \in Elts : push(id, e)
  \/ first \/ pop_first \/ delete \/ new

Spec == Init /\ [][Next]_vars

(***************************************************************************)
(* Properties                                                              *)
(***************************************************************************)

\* The copies of the front and of the back are the pointers stored in their
\* cells (what push and remove must keep when the neighbour of an end of the
\* list goes, linked_list.rs:432-468), and nothing is before the front or
\* after the back.  A stale copy written back by push would resurrect a link
\* to an element that was removed.
CachedEndsAreStored ==
  pointers # None =>
    /\ pointer[pointers.front.id] = pointers.front
    /\ pointer[pointers.back.id] = pointers.back
    /\ pointers.front.previous = None
    /\ pointers.back.next = None

\* Neighbouring cells name each other, every cell has its data, only the
\* front has nothing before it and only the back nothing after it, and the
\* ends in memory are those of the storage, from which LinkedList::new reads
\* them at the next run (linked_list.rs:227-257, 269-332, 346-468).
LinkedAt(id) ==
  /\ pointer[id].id = id
  /\ data[id] # None
  /\ pointer[id].next # None =>
       /\ pointer[pointer[id].next] # None
       /\ pointer[pointer[id].next].previous = id
  /\ pointer[id].previous # None =>
       /\ pointer[pointer[id].previous] # None
       /\ pointer[pointer[id].previous].next = id
  /\ pointer[id].previous = None => pointers # None /\ id = pointers.front.id
  /\ pointer[id].next = None => pointers # None /\ id = pointers.back.id

Linked ==
  /\ meta = pointers
  /\ \A id \in Ids : pointer[id] # None => LinkedAt(id)

\* The elements that n `next' links lead to, from each cell.
Walk[n \in 0 .. Cardinality(Ids)] ==
  [id \in Ids \union {None} |->
     IF n = 0 \/ id = None THEN << >>
     ELSE IF pointer[id] = None THEN << >>
     ELSE <<Found(id)>> \o Walk[n - 1][pointer[id].next]]

Contents ==
  IF pointers = None THEN << >> ELSE Walk[Cardinality(Ids)][pointers.front.id]

Queue == INSTANCE OrderedSet WITH content <- Contents

\* The list implements the queue the delayed inbox relies on: the elements
\* met from the front are those that were pushed and not removed, in order,
\* and every operation of linked_list.rs returns what the queue returns.
ImplementsQueue == Queue!Spec

=============================================================================
