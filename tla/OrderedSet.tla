----------------------------- MODULE OrderedSet -----------------------------
(***************************************************************************)
(* What the kernel of Etherlink expects of the list its delayed inbox is   *)
(* kept in: a queue of elements, each under an identifier of its own, from *)
(* which an element can be taken at any place.  An element that is pushed  *)
(* again under an identifier of the queue changes nothing: a transaction   *)
(* that is sent twice keeps its place and the time it was first seen at.   *)
(***************************************************************************)
EXTENDS Sequences, SequencesExt

CONSTANTS Ids, Elts, None

VARIABLES
  content,   \* the elements, in the order in which they were pushed
  result     \* what the last operation returned

vars == <<content, result>>

Entry == [id : Ids, elt : Elts]

Holds(id) == \E i \in DOMAIN content : content[i].id = id

Place(id) == CHOOSE i \in DOMAIN content : content[i].id = id

\* The entry of an identifier, None if it is not in the queue.
Lookup(id) == IF Holds(id) THEN content[Place(id)] ELSE None

Init == content = << >> /\ result = None

Push(id, e) ==
  /\ result' = None
  /\ content' = IF Holds(id) THEN content
                ELSE Append(content, [id |-> id, elt |-> e])

Find(id) == result' = Lookup(id) /\ UNCHANGED content

Take(id) ==
  /\ result' = Lookup(id)
  /\ content' = IF Holds(id) THEN RemoveAt(content, Place(id)) ELSE content

First ==
  /\ result' = IF content = << >> THEN None ELSE Head(content)
  /\ UNCHANGED content

PopFirst ==
  /\ result' = IF content = << >> THEN None ELSE Head(content)
  /\ content' = IF content = << >> THEN content ELSE Tail(content)

Delete == content' = << >> /\ result' = None

Next ==
  \/ \E id \in Ids : Find(id) \/ Take(id) \/ \E e \in Elts : Push(id, e)
  \/ First \/ PopFirst \/ Delete

Spec == Init /\ [][Next]_vars
=============================================================================
