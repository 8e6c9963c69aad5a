-------------------------- MODULE LinkedListProofs --------------------------
(***************************************************************************)
(* The list of LinkedList is well linked, its copies of the ends are those *)
(* of the cells, and it implements the queue of OrderedSet, for any sets   *)
(* of identifiers and of elements.                                         *)
(***************************************************************************)
EXTENDS LinkedList, SequenceTheorems, FiniteSetTheorems, WellFoundedInduction, TLAPS

\* The cells can be numbered along `next': they form no ring.
RankedBy(rank) ==
  \A id \in Ids : pointer[id] # None /\ pointer[id].next # None =>
    rank[id] < rank[pointer[id].next]

Ranked == \E rank \in [Ids -> Nat] : RankedBy(rank)

\* The inductive invariant.
IInv == TypeOK /\ Linked /\ CachedEndsAreStored /\ Ranked

-----------------------------------------------------------------------------
\* What a pointer is made of, and what it is once a field is changed.
LEMMA PointerFields ==
  ASSUME NEW p \in Pointer, NEW n \in Ids \union {None}
  PROVE  /\ p.id \in Ids
         /\ p.previous \in Ids \union {None}
         /\ p.next \in Ids \union {None}
         /\ [p EXCEPT !.next = n] \in Pointer
         /\ [p EXCEPT !.next = n].id = p.id
         /\ [p EXCEPT !.next = n].previous = p.previous
         /\ [p EXCEPT !.next = n].next = n
         /\ [p EXCEPT !.previous = n] \in Pointer
         /\ [p EXCEPT !.previous = n].id = p.id
         /\ [p EXCEPT !.previous = n].previous = n
         /\ [p EXCEPT !.previous = n].next = p.next
BY DEF Pointer

\* The fields of the pointer of a new element, as push builds it.
LEMMA NewPointer ==
  ASSUME NEW i \in Ids, NEW p \in Ids \union {None}, NEW n \in Ids \union {None}
  PROVE  LET c == [id |-> i, previous |-> p, next |-> n]
         IN c \in Pointer /\ c.id = i /\ c.previous = p /\ c.next = n
BY DEF Pointer

\* What save leaves: the same ends in memory and in the storage.
LEMMA SavedEnds ==
  ASSUME NEW f \in Pointer, NEW b \in Pointer, save(f, b)
  PROVE  /\ pointers' \in LinkedListPointer /\ meta' = pointers'
         /\ pointers' # None
         /\ pointers'.front = f /\ pointers'.back = b
BY NoneAssumption DEF save, LinkedListPointer

\* The ends of a list that is not empty.
LEMMA Ends ==
  ASSUME IInv, pointers # None
  PROVE  /\ pointers.front \in Pointer /\ pointers.back \in Pointer
         /\ pointers.front.id \in Ids /\ pointers.back.id \in Ids
         /\ pointer[pointers.front.id] = pointers.front
         /\ pointer[pointers.back.id] = pointers.back
         /\ pointers.front.previous = None /\ pointers.back.next = None
         /\ pointer[pointers.front.id] # None /\ pointer[pointers.back.id] # None
BY NoneAssumption DEF IInv, TypeOK, LinkedListPointer, Pointer, CachedEndsAreStored

\* The cells of the neighbours of a cell.
LEMMA Cell ==
  ASSUME IInv, NEW i \in Ids, pointer[i] # None
  PROVE  /\ pointer[i] \in Pointer /\ pointer[i].id = i
         /\ pointer[i].previous \in Ids \union {None}
         /\ pointer[i].next \in Ids \union {None}
         /\ data[i] \in Elts
         /\ LinkedAt(i)
BY DEF IInv, TypeOK, Pointer, Linked, LinkedAt

\* The cells after an element is removed and one neighbour saved.
LEMMA RelinkOne ==
  ASSUME NEW id \in Ids, NEW c \in Pointer, Relink(id, {c})
  PROVE  /\ c.id \in Ids
         /\ pointer' = [i \in Ids |-> IF i = c.id THEN c
                                      ELSE IF i = id THEN None ELSE pointer[i]]
<1>1. ASSUME NEW i \in Ids
      PROVE  pointer'[i] = IF i = c.id THEN c
                           ELSE IF i = id THEN None ELSE pointer[i]
  <2>1. (\E x \in {c} : x.id = i) => (CHOOSE x \in {c} : x.id = i) = c
    BY Zenon
  <2>2. (\E x \in {c} : x.id = i) <=> i = c.id
    BY Zenon
  <2> QED  BY <2>1, <2>2, Zenon DEF Relink
<1>2. pointer' = [i \in Ids |-> pointer'[i]]
  BY DEF Relink
<1>3. c.id \in Ids
  BY PointerFields
<1> QED  BY <1>1, <1>2, <1>3

\* The cells after an element is removed and both neighbours saved.
LEMMA RelinkTwo ==
  ASSUME NEW id \in Ids, NEW c \in Pointer, NEW d \in Pointer, c.id # d.id,
         Relink(id, {c, d})
  PROVE  /\ c.id \in Ids /\ d.id \in Ids
         /\ pointer' = [i \in Ids |-> IF i = c.id THEN c
                                      ELSE IF i = d.id THEN d
                                      ELSE IF i = id THEN None ELSE pointer[i]]
<1>1. ASSUME NEW i \in Ids
      PROVE  pointer'[i] = IF i = c.id THEN c
                           ELSE IF i = d.id THEN d
                           ELSE IF i = id THEN None ELSE pointer[i]
  <2>1. i = c.id => (CHOOSE x \in {c, d} : x.id = i) = c
    BY Zenon
  <2>2. i = d.id => (CHOOSE x \in {c, d} : x.id = i) = d
    BY Zenon
  <2>3. (\E x \in {c, d} : x.id = i) <=> i = c.id \/ i = d.id
    BY Zenon
  <2>4. pointer'[i] = IF \E x \in {c, d} : x.id = i
                      THEN CHOOSE x \in {c, d} : x.id = i
                      ELSE IF i = id THEN None ELSE pointer[i]
    BY Zenon DEF Relink
  <2> QED  BY <2>1, <2>2, <2>3, <2>4, Zenon
<1>2. pointer' = [i \in Ids |-> pointer'[i]]
  BY DEF Relink
<1>3. c.id \in Ids /\ d.id \in Ids
  BY PointerFields
<1> QED  BY <1>1, <1>2, <1>3

-----------------------------------------------------------------------------
\* An operation that leaves the list alone keeps the invariant.
LEMMA ReadKeepsIInv ==
  ASSUME IInv, UNCHANGED <<pointers, meta, pointer, data>>,
         result' \in [id : Ids, elt : Elts] \union {None}
  PROVE  IInv'
BY DEF IInv, TypeOK, Linked, LinkedAt, CachedEndsAreStored, Ranked, RankedBy

\* A cell that is there has its data: find, remove and first return an entry.
LEMMA FoundIsEntry ==
  ASSUME IInv, NEW i \in Ids, pointer[i] # None
  PROVE  Found(i) \in [id : Ids, elt : Elts]
BY Cell DEF Found

\* The first element of an empty list is its front and its back.
LEMMA PushFirstKeepsIInv ==
  ASSUME IInv, NEW id \in Ids, NEW e \in Elts,
         pointer[id] = None, pointers = None, PushFirst(id),
         data' = [data EXCEPT ![id] = e], result' = None
  PROVE  IInv'
<1> DEFINE c == [id |-> id, previous |-> None, next |-> None]
<1>1. c \in Pointer /\ c.id = id /\ c.previous = None /\ c.next = None /\ c # None
  BY NewPointer, NoneAssumption
<1>2. /\ pointers' \in LinkedListPointer /\ meta' = pointers' /\ pointers' # None
      /\ pointers'.front = c /\ pointers'.back = c
  <2>1. save(c, c)
    BY DEF PushFirst
  <2> QED  BY <2>1, <1>1, SavedEnds
<1>3. pointer' = [pointer EXCEPT ![id] = c]
  BY DEF PushFirst
<1> HIDE DEF c
<1>4. TypeOK'
  BY <1>1, <1>2, <1>3 DEF IInv, TypeOK
<1>5. ASSUME NEW i \in Ids, pointer'[i] # None
      PROVE  LinkedAt(i)'
  <2>0. pointer \in [Ids -> Pointer \union {None}] /\ data \in [Ids -> Elts \union {None}]
    BY DEF IInv, TypeOK
  <2>1. CASE i = id
    BY <2>0, <2>1, <1>1, <1>2, <1>3, EltsAssumption DEF LinkedAt
  <2>2. CASE i # id
    <3>1. pointer'[i] = pointer[i] /\ data'[i] = data[i] /\ pointer[i] # None
      BY <2>0, <2>2, <1>3, <1>5
    <3>2. LinkedAt(i) /\ pointer[i].next \in Ids /\ pointer[i].previous \in Ids
      BY <3>1, Cell DEF LinkedAt
    <3>3. pointer'[pointer[i].next] = pointer[pointer[i].next]
      BY <2>0, <3>2, <1>3 DEF LinkedAt
    <3>4. pointer'[pointer[i].previous] = pointer[pointer[i].previous]
      BY <2>0, <3>2, <1>3 DEF LinkedAt
    <3> QED  BY <3>1, <3>2, <3>3, <3>4, IdsAssumption DEF LinkedAt
  <2> QED  BY <2>1, <2>2
<1>6. CachedEndsAreStored'
  BY <1>1, <1>2, <1>3 DEF CachedEndsAreStored, IInv, TypeOK
<1>7. Ranked'
  <2>1. PICK rank \in [Ids -> Nat] : RankedBy(rank)
    BY DEF IInv, Ranked
  <2>2. RankedBy(rank)'
    BY <2>1, <1>1, <1>3 DEF RankedBy, IInv, TypeOK
  <2> QED  BY <2>2 DEF Ranked
<1> QED  BY <1>2, <1>4, <1>5, <1>6, <1>7 DEF IInv, Linked

\* The new element is linked behind the back, whose cell follows.
LEMMA PushBehindKeepsIInv ==
  ASSUME IInv, NEW id \in Ids, NEW e \in Elts,
         pointer[id] = None, pointers # None, PushBehind(id),
         data' = [data EXCEPT ![id] = e], result' = None
  PROVE  IInv'
<1> DEFINE p == [pointers.back EXCEPT !.next = id]
           b == [id |-> id, previous |-> p.id, next |-> None]
           f == IF p.id = pointers.front.id THEN p ELSE pointers.front
           last == pointers.back.id
<1>1. /\ p \in Pointer /\ p.id = last /\ p.previous = pointers.back.previous
      /\ p.next = id /\ p # None /\ last \in Ids
  <2>1. pointers.back \in Pointer /\ last \in Ids
    BY Ends
  <2> QED  BY <2>1, NoneAssumption DEF Pointer
<1>2. b \in Pointer /\ b.id = id /\ b.previous = last /\ b.next = None /\ b # None
  BY <1>1, NewPointer, NoneAssumption
<1>3. f \in Pointer
  BY <1>1, Ends
<1>4. /\ pointers' \in LinkedListPointer /\ meta' = pointers' /\ pointers' # None
      /\ pointers'.front = f /\ pointers'.back = b
  <2>1. save(f, b)
    BY DEF PushBehind
  <2> QED  BY <2>1, <1>2, <1>3, SavedEnds
<1>5. pointer' = [pointer EXCEPT ![last] = p, ![id] = b]
  BY <1>1 DEF PushBehind
<1>6. last # id /\ pointer[last] = pointers.back /\ pointer[last] # None
  BY Ends
<1>7. f.id = pointers.front.id
  BY <1>1
<1>0. pointer \in [Ids -> Pointer \union {None}] /\ data \in [Ids -> Elts \union {None}]
  BY DEF IInv, TypeOK
<1>8. pointer'[last] = p /\ pointer'[id] = b
  BY <1>0, <1>1, <1>5, <1>6
<1>9. \A i \in Ids \ {last, id} : pointer'[i] = pointer[i]
  BY <1>0, <1>1, <1>5
<1>f. pointers.front.id # last => f = pointers.front
  BY <1>1
<1>g. pointers.front.id = last => f = p
  BY <1>1
<1> HIDE DEF p, b, f, last
<1>10. TypeOK'
  BY <1>0, <1>1, <1>2, <1>4, <1>5 DEF IInv, TypeOK
<1>11. ASSUME NEW i \in Ids, pointer'[i] # None
       PROVE  LinkedAt(i)'
  <2>1. CASE i = id
    BY <2>1, <1>0, <1>1, <1>2, <1>4, <1>8, EltsAssumption, IdsAssumption DEF LinkedAt
  <2>2. CASE i = last
    <3>1. LinkedAt(last) /\ data'[last] = data[last]
      BY <1>0, <1>1, <1>6, Cell
    <3>2. pointers.back.previous \in Ids \union {None}
      BY Ends DEF Pointer
    <3>3. pointers.back.previous # None =>
            pointers.back.previous # last /\ pointers.back.previous # id
      BY <1>6, <1>0, <3>1, <3>2, Ends, IdsAssumption DEF LinkedAt
    <3>4. pointers.back.previous = None => last = pointers.front.id
      BY <3>1, <1>6 DEF LinkedAt
    <3>5. pointers.back.previous # None =>
            /\ pointer'[pointers.back.previous] # None
            /\ pointer'[pointers.back.previous].next = last
      BY <3>1, <3>2, <3>3, <1>6, <1>9 DEF LinkedAt
    <3> QED  BY <2>2, <3>1, <3>4, <3>5, <1>1, <1>2, <1>4, <1>7, <1>8, IdsAssumption DEF LinkedAt
  <2>3. CASE i # id /\ i # last
    <3>1. pointer'[i] = pointer[i] /\ data'[i] = data[i] /\ pointer[i] # None
      BY <2>3, <1>0, <1>9, <1>11
    <3>2. /\ LinkedAt(i)
          /\ pointer[i].next \in Ids \union {None}
          /\ pointer[i].previous \in Ids \union {None}
      BY <3>1, Cell
    <3>3. /\ pointer[i].next # None /\ pointer[i].next # id
          /\ pointer[i].previous # id
      BY <3>2, <2>3, <1>6, IdsAssumption DEF LinkedAt, last
    <3>4. /\ pointer'[pointer[i].next] # None
          /\ pointer'[pointer[i].next].previous = i
      BY <3>2, <3>3, <1>1, <1>6, <1>8, <1>9 DEF LinkedAt
    <3>5. pointer[i].previous # last
      BY <3>2, <1>6, <1>1, Ends, IdsAssumption, <2>3 DEF LinkedAt
    <3>6. pointer[i].previous # None =>
            /\ pointer'[pointer[i].previous] # None
            /\ pointer'[pointer[i].previous].next = i
      BY <3>2, <3>3, <3>5, <1>9 DEF LinkedAt
    <3>7. pointer[i].previous = None => i = pointers'.front.id
      BY <3>2, <1>4, <1>7 DEF LinkedAt
    <3> QED  BY <3>1, <3>2, <3>3, <3>4, <3>6, <3>7, <1>4 DEF LinkedAt
  <2> QED  BY <2>1, <2>2, <2>3
<1>12. CachedEndsAreStored'
  <2>1. pointer'[pointers'.back.id] = pointers'.back /\ pointers'.back.next = None
    BY <1>2, <1>4, <1>8
  <2>2. CASE pointers.front.id = last
    <3>1. pointers.back.previous = None
      BY <2>2, <1>6, Ends
    <3> QED  BY <2>1, <2>2, <3>1, <1>1, <1>4, <1>8, <1>g DEF CachedEndsAreStored
  <2>3. CASE pointers.front.id # last
    <3>1. pointers.front.id # id
      BY Ends
    <3>2. pointer'[pointers.front.id] = pointers.front
      BY <2>3, <3>1, <1>9, Ends
    <3> QED  BY <2>1, <2>3, <3>2, <1>4, <1>f, Ends DEF CachedEndsAreStored
  <2> QED  BY <2>2, <2>3
<1>13. Ranked'
  <2>1. PICK rank \in [Ids -> Nat] : RankedBy(rank)
    BY DEF IInv, Ranked
  <2>r. [rank EXCEPT ![id] = rank[last] + 1] \in [Ids -> Nat]
    BY <1>1
  <2>2. PICK rk \in [Ids -> Nat] : rk = [rank EXCEPT ![id] = rank[last] + 1]
    BY <2>r, Zenon
  <2>3. ASSUME NEW i \in Ids, pointer'[i] # None, pointer'[i].next # None
        PROVE  rk[i] < rk[pointer'[i].next]
    <3>1. CASE i = last
      BY <3>1, <2>2, <1>1, <1>6, <1>8
    <3>2. CASE i = id
      BY <3>2, <2>3, <1>2, <1>8
    <3>3. CASE i # last /\ i # id
      <4>1. pointer'[i] = pointer[i] /\ pointer[i] # None
        BY <3>3, <1>9, <2>3
      <4>2. pointer[i].next \in Ids /\ pointer[i].next # id
        BY <4>1, <2>3, Cell DEF LinkedAt
      <4>3. rank[i] < rank[pointer[i].next]
        BY <4>1, <2>3, <2>1 DEF RankedBy
      <4> QED  BY <4>1, <4>2, <4>3, <3>3, <2>2
    <3> QED  BY <3>1, <3>2, <3>3
  <2>4. RankedBy(rk)'
    BY <2>3 DEF RankedBy
  <2> QED  BY <2>4 DEF Ranked
<1> QED  BY <1>4, <1>10, <1>11, <1>12, <1>13 DEF IInv, Linked

-----------------------------------------------------------------------------
\* A cell and its two neighbours are three different cells.
LEMMA NeighboursDiffer ==
  ASSUME IInv, NEW i \in Ids, pointer[i] # None
  PROVE  /\ pointer[i].previous # i /\ pointer[i].next # i
         /\ pointer[i].previous # None => pointer[i].previous # pointer[i].next
<1>1. PICK rank \in [Ids -> Nat] : RankedBy(rank)
  BY DEF IInv, Ranked
<1>2. /\ LinkedAt(i)
      /\ pointer[i].previous \in Ids \union {None}
      /\ pointer[i].next \in Ids \union {None}
  BY Cell
<1>3. pointer[i].next # None => rank[i] < rank[pointer[i].next]
  BY <1>1 DEF RankedBy
<1>4. pointer[i].previous # None => rank[pointer[i].previous] < rank[i]
  BY <1>1, <1>2, IdsAssumption DEF RankedBy, LinkedAt
<1>5. \A j \in Ids : rank[j] \in Nat
  OBVIOUS
<1> QED  BY <1>2, <1>3, <1>4, <1>5, IdsAssumption

\* A cell is taken out and its neighbours p and n are joined, in the cells
\* and in the ends of the list.
Unlinked(id, p, n) ==
  /\ p = pointer[id].previous /\ n = pointer[id].next
  /\ pointer' \in [Ids -> Pointer \union {None}]
  /\ pointer'[id] = None
  /\ p # None => pointer'[p] = [pointer[p] EXCEPT !.next = n]
  /\ n # None => pointer'[n] = [pointer[n] EXCEPT !.previous = p]
  /\ \A i \in Ids \ {id, p, n} : pointer'[i] = pointer[i]
  /\ data' = [data EXCEPT ![id] = None]
  /\ result' \in [id : Ids, elt : Elts] \union {None}
  /\ meta' = pointers'
  /\ p = None /\ n = None => pointers' = None
  /\ p # None \/ n # None =>
       /\ pointers' \in LinkedListPointer
       /\ pointers'.front = IF p = None THEN pointer'[n]
                           ELSE pointer'[pointers.front.id]
       /\ pointers'.back = IF n = None THEN pointer'[p]
                          ELSE pointer'[pointers.back.id]

\* Once a cell is taken out, the list is still well linked.
LEMMA UnlinkKeepsIInv ==
  ASSUME IInv, pointers # None, NEW id \in Ids, pointer[id] # None,
         NEW p \in Ids \union {None}, NEW n \in Ids \union {None},
         Unlinked(id, p, n)
  PROVE  IInv'
<1> USE DEF Unlinked
<1>1. LinkedAt(id) /\ p # id /\ n # id /\ (p # None => p # n)
  BY Cell, NeighboursDiffer
<1>2. p # None => /\ pointer[p] \in Pointer /\ pointer[p] # None
                  /\ pointer[p].next = id /\ pointer[p].id = p
                  /\ pointer'[p] # None /\ pointer'[p].id = p
                  /\ pointer'[p].next = n
                  /\ pointer'[p].previous = pointer[p].previous
  <2> SUFFICES ASSUME p # None
               PROVE  /\ pointer[p] \in Pointer /\ pointer[p] # None
                      /\ pointer[p].next = id /\ pointer[p].id = p
                      /\ pointer'[p] # None /\ pointer'[p].id = p
                      /\ pointer'[p].next = n
                      /\ pointer'[p].previous = pointer[p].previous
    OBVIOUS
  <2>1. p \in Ids /\ pointer[p] # None /\ pointer[p].next = id
    BY <1>1 DEF LinkedAt
  <2>2. pointer[p] \in Pointer /\ pointer[p].id = p
    BY <2>1, Cell
  <2> QED  BY <2>1, <2>2, NoneAssumption DEF Pointer
<1>3. n # None => /\ pointer[n] \in Pointer /\ pointer[n] # None
                  /\ pointer[n].previous = id /\ pointer[n].id = n
                  /\ pointer'[n] # None /\ pointer'[n].id = n
                  /\ pointer'[n].previous = p
                  /\ pointer'[n].next = pointer[n].next
  <2> SUFFICES ASSUME n # None
               PROVE  /\ pointer[n] \in Pointer /\ pointer[n] # None
                      /\ pointer[n].previous = id /\ pointer[n].id = n
                      /\ pointer'[n] # None /\ pointer'[n].id = n
                      /\ pointer'[n].previous = p
                      /\ pointer'[n].next = pointer[n].next
    OBVIOUS
  <2>1. n \in Ids /\ pointer[n] # None /\ pointer[n].previous = id
    BY <1>1 DEF LinkedAt
  <2>2. pointer[n] \in Pointer /\ pointer[n].id = n
    BY <2>1, Cell
  <2> QED  BY <2>1, <2>2, NoneAssumption DEF Pointer
<1>4. /\ (p = None) <=> (id = pointers.front.id)
      /\ (n = None) <=> (id = pointers.back.id)
  BY <1>1, Ends DEF LinkedAt
<1>5. pointers.front.id # n /\ pointers.back.id # p
  BY <1>2, <1>3, Ends, IdsAssumption
<1>6. p # None \/ n # None =>
        /\ pointers' # None
        /\ pointers'.front.id = IF p = None THEN n ELSE pointers.front.id
        /\ pointers'.back.id = IF n = None THEN p ELSE pointers.back.id
        /\ pointers'.front.previous = None /\ pointers'.back.next = None
        /\ pointer'[pointers'.front.id] = pointers'.front
        /\ pointer'[pointers'.back.id] = pointers'.back
  <2>1. p # None => /\ pointer'[pointers.front.id].id = pointers.front.id
                    /\ pointer'[pointers.front.id].previous = None
    BY <1>2, <1>4, <1>5, Ends, Cell
  <2>2. n # None => /\ pointer'[pointers.back.id].id = pointers.back.id
                    /\ pointer'[pointers.back.id].next = None
    BY <1>3, <1>4, <1>5, Ends, Cell
  <2> QED  BY <2>1, <2>2, <1>2, <1>3, NoneAssumption
<1>7. TypeOK'
  BY DEF IInv, TypeOK
<1>8. CachedEndsAreStored'
  BY <1>6 DEF CachedEndsAreStored
<1>9. ASSUME NEW i \in Ids, pointer'[i] # None
      PROVE  LinkedAt(i)'
  <2>1. i # id /\ data'[i] = data[i]
    BY <1>9 DEF IInv, TypeOK
  <2>2. pointer[i] # None
    BY <2>1, <1>2, <1>3, <1>9, IdsAssumption
  <2>3. /\ LinkedAt(i) /\ pointer[i].next # i /\ pointer[i].previous # i
        /\ pointer[i].next \in Ids \union {None}
        /\ pointer[i].previous \in Ids \union {None}
    BY <2>2, Cell, NeighboursDiffer
  <2>4. pointer'[i].id = i
    BY <2>1, <2>3, <1>2, <1>3, IdsAssumption DEF LinkedAt
  <2>5. pointer'[i].next = IF i = p THEN n ELSE pointer[i].next
    BY <2>1, <1>2, <1>3, IdsAssumption
  <2>6. pointer'[i].previous = IF i = n THEN p ELSE pointer[i].previous
    BY <2>1, <1>1, <1>2, <1>3, IdsAssumption
  <2>7. pointer'[i].next # None =>
          /\ pointer'[pointer'[i].next] # None
          /\ pointer'[pointer'[i].next].previous = i
    <3>1. CASE i = p
      BY <3>1, <2>5, <1>3
    <3>2. CASE i # p /\ pointer[i].next # None
      <4>1. /\ pointer[pointer[i].next] # None /\ pointer[i].next \in Ids
            /\ pointer[pointer[i].next].previous = i
        BY <3>2, <2>3 DEF LinkedAt
      <4>2. pointer[i].next # id /\ pointer[i].next # n
        BY <3>2, <4>1, <2>1, <1>3
      <4>3. CASE pointer[i].next = p
        BY <4>1, <4>3, <3>2, <2>5, <1>2, IdsAssumption
      <4>4. CASE pointer[i].next # p
        BY <4>1, <4>2, <4>4, <3>2, <2>5
      <4> QED  BY <4>3, <4>4
    <3> QED  BY <3>1, <3>2, <2>5
  <2>8. pointer'[i].previous # None =>
          /\ pointer'[pointer'[i].previous] # None
          /\ pointer'[pointer'[i].previous].next = i
    <3>1. CASE i = n
      BY <3>1, <2>6, <1>2
    <3>2. CASE i # n /\ pointer[i].previous # None
      <4>1. /\ pointer[pointer[i].previous] # None /\ pointer[i].previous \in Ids
            /\ pointer[pointer[i].previous].next = i
        BY <3>2, <2>3 DEF LinkedAt
      <4>2. pointer[i].previous # id /\ pointer[i].previous # p
        BY <3>2, <4>1, <2>1, <1>2
      <4>3. CASE pointer[i].previous = n
        BY <4>1, <4>3, <3>2, <2>6, <1>3, IdsAssumption
      <4>4. CASE pointer[i].previous # n
        BY <4>1, <4>2, <4>4, <3>2, <2>6
      <4> QED  BY <4>3, <4>4
    <3> QED  BY <3>1, <3>2, <2>6
  <2>9. pointer'[i].previous = None => pointers' # None /\ i = pointers'.front.id
    BY <2>1, <2>3, <2>6, <1>4, <1>6, IdsAssumption DEF LinkedAt
  <2>10. pointer'[i].next = None => pointers' # None /\ i = pointers'.back.id
    BY <2>1, <2>3, <2>5, <1>4, <1>6, IdsAssumption DEF LinkedAt
  <2> QED  BY <2>1, <2>3, <2>4, <2>7, <2>8, <2>9, <2>10 DEF LinkedAt
<1>10. Ranked'
  <2>1. PICK rank \in [Ids -> Nat] : RankedBy(rank)
    BY DEF IInv, Ranked
  <2>2. ASSUME NEW i \in Ids, pointer'[i] # None, pointer'[i].next # None
        PROVE  rank[i] < rank[pointer'[i].next]
    <3>1. CASE i = p
      <4>1. rank[p] < rank[id] /\ rank[id] < rank[n]
        BY <3>1, <2>1, <2>2, <1>2, IdsAssumption DEF RankedBy
      <4>2. n \in Ids
        BY <3>1, <2>2, <1>2, IdsAssumption
      <4> QED  BY <3>1, <4>1, <4>2, <1>2, IdsAssumption
    <3>2. CASE i # p /\ i = n
      BY <3>2, <2>1, <2>2, <1>3, IdsAssumption DEF RankedBy
    <3>3. CASE i # p /\ i # n
      BY <3>3, <2>1, <2>2 DEF RankedBy
    <3> QED  BY <3>1, <3>2, <3>3
  <2>3. RankedBy(rank)'
    BY <2>2 DEF RankedBy
  <2> QED  BY <2>3 DEF Ranked
<1> QED  BY <1>7, <1>8, <1>9, <1>10 DEF IInv, Linked

-----------------------------------------------------------------------------
\* remove of the only element empties the list (linked_list.rs:370-374).
LEMMA RemoveOnlyUnlinks ==
  ASSUME IInv, pointers # None, NEW id \in Ids, pointer[id] # None,
         pointer[id].previous = None, pointer[id].next = None,
         RemoveOnly(id), data' = [data EXCEPT ![id] = None],
         result' \in [id : Ids, elt : Elts] \union {None}
  PROVE  Unlinked(id, None, None)
<1>1. pointer' = [i \in Ids |-> IF i = id THEN None ELSE pointer[i]]
  BY DEF RemoveOnly, Relink
<1>2. pointer' \in [Ids -> Pointer \union {None}]
  BY <1>1 DEF IInv, TypeOK
<1>3. pointers' = None /\ meta' = pointers'
  BY DEF RemoveOnly
<1> QED  BY <1>1, <1>2, <1>3 DEF Unlinked

\* remove of the front makes the element behind it the front.
LEMMA RemoveHeadUnlinks ==
  ASSUME IInv, pointers # None, NEW id \in Ids, pointer[id] # None,
         pointer[id].previous = None, pointer[id].next # None,
         RemoveHead(id, pointer[pointer[id].next]),
         data' = [data EXCEPT ![id] = None],
         result' \in [id : Ids, elt : Elts] \union {None}
  PROVE  Unlinked(id, None, pointer[id].next)
<1> DEFINE n == pointer[id].next
           c == [pointer[n] EXCEPT !.previous = None]
           b == IF c.id = pointers.back.id THEN c ELSE pointers.back
<1>1. /\ n \in Ids /\ pointer[n] # None /\ pointer[n].previous = id
      /\ pointer[n] \in Pointer /\ pointer[n].id = n /\ n # id
  <2>1. n \in Ids /\ pointer[n] # None /\ pointer[n].previous = id /\ n # id
    BY Cell, NeighboursDiffer, IdsAssumption DEF LinkedAt
  <2> QED  BY <2>1, Cell
<1>2. c \in Pointer /\ c.id = n /\ b \in Pointer
  BY <1>1, Ends DEF Pointer
<1>3. /\ pointers' \in LinkedListPointer /\ meta' = pointers'
      /\ pointers'.front = c /\ pointers'.back = b
  <2>1. save(c, b)
    BY DEF RemoveHead
  <2> QED  BY <2>1, <1>2, SavedEnds
<1>4. pointer' = [i \in Ids |-> IF i = n THEN c ELSE IF i = id THEN None ELSE pointer[i]]
  <2>1. Relink(id, {c})
    BY DEF RemoveHead
  <2> HIDE DEF c
  <2> QED  BY <2>1, <1>2, RelinkOne
<1>5. pointers.back.id # id /\ pointers.back.id \in Ids
      /\ pointers.back = pointer[pointers.back.id]
  BY Ends
<1>6. b = pointer'[pointers.back.id]
  BY <1>2, <1>4, <1>5
<1>7. pointer' \in [Ids -> Pointer \union {None}]
  BY <1>2, <1>4 DEF IInv, TypeOK
<1>8. pointer'[n] = c /\ pointer'[id] = None
      /\ \A i \in Ids \ {id, None, n} : pointer'[i] = pointer[i]
  BY <1>1, <1>4
<1> HIDE DEF b
<1> QED  BY <1>3, <1>6, <1>7, <1>8 DEF Unlinked

\* remove of the back makes the element before it the back.
LEMMA RemoveEndUnlinks ==
  ASSUME IInv, pointers # None, NEW id \in Ids, pointer[id] # None,
         pointer[id].previous # None, pointer[id].next = None,
         RemoveEnd(id, pointer[pointer[id].previous]),
         data' = [data EXCEPT ![id] = None],
         result' \in [id : Ids, elt : Elts] \union {None}
  PROVE  Unlinked(id, pointer[id].previous, None)
<1> DEFINE p == pointer[id].previous
           c == [pointer[p] EXCEPT !.next = None]
           f == IF c.id = pointers.front.id THEN c ELSE pointers.front
<1>1. /\ p \in Ids /\ pointer[p] # None /\ pointer[p].next = id
      /\ pointer[p] \in Pointer /\ pointer[p].id = p /\ p # id
  <2>1. p \in Ids /\ pointer[p] # None /\ pointer[p].next = id /\ p # id
    BY Cell, NeighboursDiffer, IdsAssumption DEF LinkedAt
  <2> QED  BY <2>1, Cell
<1>2. c \in Pointer /\ c.id = p /\ f \in Pointer
  BY <1>1, Ends DEF Pointer
<1>3. /\ pointers' \in LinkedListPointer /\ meta' = pointers'
      /\ pointers'.front = f /\ pointers'.back = c
  <2>1. save(f, c)
    BY DEF RemoveEnd
  <2> QED  BY <2>1, <1>2, SavedEnds
<1>4. pointer' = [i \in Ids |-> IF i = p THEN c ELSE IF i = id THEN None ELSE pointer[i]]
  <2>1. Relink(id, {c})
    BY DEF RemoveEnd
  <2> HIDE DEF c
  <2> QED  BY <2>1, <1>2, RelinkOne
<1>5. pointers.front.id # id /\ pointers.front.id \in Ids
      /\ pointers.front = pointer[pointers.front.id]
  BY Ends
<1>6. f = pointer'[pointers.front.id]
  BY <1>2, <1>4, <1>5
<1>7. pointer' \in [Ids -> Pointer \union {None}]
  BY <1>2, <1>4 DEF IInv, TypeOK
<1>8. pointer'[p] = c /\ pointer'[id] = None
      /\ \A i \in Ids \ {id, p, None} : pointer'[i] = pointer[i]
  BY <1>1, <1>4
<1> HIDE DEF f
<1> QED  BY <1>3, <1>6, <1>7, <1>8 DEF Unlinked

\* remove of an inner element joins its neighbours, which may be the ends.
LEMMA RemoveBetweenUnlinks ==
  ASSUME IInv, pointers # None, NEW id \in Ids, pointer[id] # None,
         pointer[id].previous # None, pointer[id].next # None,
         RemoveBetween(id, pointer[pointer[id].previous], pointer[pointer[id].next]),
         data' = [data EXCEPT ![id] = None],
         result' \in [id : Ids, elt : Elts] \union {None}
  PROVE  Unlinked(id, pointer[id].previous, pointer[id].next)
<1> DEFINE p == pointer[id].previous
           n == pointer[id].next
           c == [pointer[p] EXCEPT !.next = pointer[n].id]
           d == [pointer[n] EXCEPT !.previous = pointer[p].id]
           f == IF c.id = pointers.front.id THEN c ELSE pointers.front
           b == IF d.id = pointers.back.id THEN d ELSE pointers.back
<1>1. /\ p \in Ids /\ pointer[p] # None /\ pointer[p].next = id
      /\ pointer[p] \in Pointer /\ pointer[p].id = p /\ p # id
  <2>1. p \in Ids /\ pointer[p] # None /\ pointer[p].next = id /\ p # id
    BY Cell, NeighboursDiffer, IdsAssumption DEF LinkedAt
  <2> QED  BY <2>1, Cell
<1>2. /\ n \in Ids /\ pointer[n] # None /\ pointer[n].previous = id
      /\ pointer[n] \in Pointer /\ pointer[n].id = n /\ n # id /\ p # n
  <2>1. n \in Ids /\ pointer[n] # None /\ pointer[n].previous = id /\ n # id /\ p # n
    BY Cell, NeighboursDiffer, IdsAssumption DEF LinkedAt
  <2> QED  BY <2>1, Cell
<1>3. /\ c \in Pointer /\ c.id = p /\ c = [pointer[p] EXCEPT !.next = n]
      /\ d \in Pointer /\ d.id = n /\ d = [pointer[n] EXCEPT !.previous = p]
  BY <1>1, <1>2 DEF Pointer
<1>4. f \in Pointer /\ b \in Pointer
  BY <1>3, Ends
<1>5. /\ pointers' \in LinkedListPointer /\ meta' = pointers'
      /\ pointers'.front = f /\ pointers'.back = b
  <2>1. save(f, b)
    BY DEF RemoveBetween
  <2> QED  BY <2>1, <1>4, SavedEnds
<1>6. pointer' = [i \in Ids |-> IF i = p THEN c ELSE IF i = n THEN d
                               ELSE IF i = id THEN None ELSE pointer[i]]
  <2>1. Relink(id, {c, d})
    BY DEF RemoveBetween
  <2> HIDE DEF c, d, p, n
  <2>2. c \in Pointer /\ d \in Pointer /\ c.id # d.id /\ c.id = p /\ d.id = n
    BY <1>2, <1>3
  <2>3. pointer' = [i \in Ids |-> IF i = c.id THEN c ELSE IF i = d.id THEN d
                                 ELSE IF i = id THEN None ELSE pointer[i]]
    BY <2>1, <2>2, RelinkTwo
  <2> QED  BY <2>2, <2>3
<1>7. /\ pointers.front.id # id /\ pointers.front.id # n /\ pointers.front.id \in Ids
      /\ pointers.front = pointer[pointers.front.id]
      /\ pointers.back.id # id /\ pointers.back.id # p /\ pointers.back.id \in Ids
      /\ pointers.back = pointer[pointers.back.id]
  BY <1>1, <1>2, Ends, IdsAssumption
<1>8. f = pointer'[pointers.front.id] /\ b = pointer'[pointers.back.id]
  <2> HIDE DEF c, d
  <2> QED  BY <1>3, <1>6, <1>7
<1>9. /\ pointer' \in [Ids -> Pointer \union {None}]
      /\ pointer'[p] = c /\ pointer'[n] = d /\ pointer'[id] = None
      /\ \A i \in Ids \ {id, p, n} : pointer'[i] = pointer[i]
  <2> HIDE DEF c, d
  <2> QED  BY <1>1, <1>2, <1>3, <1>6 DEF IInv, TypeOK
<1> HIDE DEF c, d, f, b
<1> QED  BY <1>1, <1>2, <1>3, <1>5, <1>8, <1>9 DEF Unlinked

\* remove reads the neighbours of the element and falls in one of the cases.
LEMMA RemoveUnlinks ==
  ASSUME IInv, NEW id \in Ids, remove(id), pointers # None, pointer[id] # None
  PROVE  Unlinked(id, pointer[id].previous, pointer[id].next)
<1> DEFINE p == pointer[id].previous
           n == pointer[id].next
<1>1. result' \in [id : Ids, elt : Elts] \union {None}
  BY FoundIsEntry DEF remove
<1>2. data' = [data EXCEPT ![id] = None]
  BY DEF remove
<1>3. /\ Neighbour(p) = None <=> p = None
      /\ Neighbour(n) = None <=> n = None
      /\ p # None => Neighbour(p) = pointer[p]
      /\ n # None => Neighbour(n) = pointer[n]
  BY Cell DEF Neighbour, LinkedAt
<1>4. \/ Neighbour(p) = None /\ Neighbour(n) = None /\ RemoveOnly(id)
      \/ Neighbour(p) = None /\ Neighbour(n) # None /\ RemoveHead(id, Neighbour(n))
      \/ Neighbour(p) # None /\ Neighbour(n) = None /\ RemoveEnd(id, Neighbour(p))
      \/ /\ Neighbour(p) # None /\ Neighbour(n) # None
         /\ RemoveBetween(id, Neighbour(p), Neighbour(n))
  BY DEF remove
<1>5. CASE p = None /\ n = None
  BY <1>1, <1>2, <1>3, <1>4, <1>5, RemoveOnlyUnlinks
<1>6. CASE p = None /\ n # None
  BY <1>1, <1>2, <1>3, <1>4, <1>6, RemoveHeadUnlinks
<1>7. CASE p # None /\ n = None
  BY <1>1, <1>2, <1>3, <1>4, <1>7, RemoveEndUnlinks
<1>8. CASE p # None /\ n # None
  BY <1>1, <1>2, <1>3, <1>4, <1>8, RemoveBetweenUnlinks
<1> QED  BY <1>5, <1>6, <1>7, <1>8

\* remove keeps the invariant.
LEMMA RemoveKeepsIInv ==
  ASSUME IInv, NEW id \in Ids, remove(id)
  PROVE  IInv'
<1>1. CASE pointers = None \/ pointer[id] = None
  BY <1>1, ReadKeepsIInv DEF remove
<1>2. CASE pointers # None /\ pointer[id] # None
  BY <1>2, RemoveUnlinks, UnlinkKeepsIInv, Cell
<1> QED  BY <1>1, <1>2

-----------------------------------------------------------------------------
\* Every operation of the list keeps the invariant: the cells it relinks and
\* the copies of the ends it saves stay those of one list.
LEMMA NextKeepsIInv ==
  ASSUME IInv, [Next]_vars
  PROVE  IInv'
<1>1. ASSUME NEW id \in Ids, find(id) PROVE IInv'
  BY <1>1, ReadKeepsIInv, FoundIsEntry DEF find
<1>2. ASSUME NEW id \in Ids, remove(id) PROVE IInv'
  BY <1>2, RemoveKeepsIInv
<1>3. ASSUME NEW id \in Ids, NEW e \in Elts, push(id, e) PROVE IInv'
  BY <1>3, ReadKeepsIInv, PushFirstKeepsIInv, PushBehindKeepsIInv DEF push
<1>4. CASE first
  BY <1>4, ReadKeepsIInv, FoundIsEntry, Ends DEF first
<1>5. CASE pop_first
  BY <1>5, ReadKeepsIInv, RemoveKeepsIInv, Ends DEF pop_first
<1>6. CASE delete
  <2>1. Ranked'
    BY <1>6 DEF delete, IInv, Ranked, RankedBy
  <2> QED  BY <1>6, <2>1 DEF delete, IInv, TypeOK, Linked, CachedEndsAreStored
<1>7. CASE new
  BY <1>7, ReadKeepsIInv DEF new, IInv, Linked, TypeOK
<1>8. CASE UNCHANGED vars
  BY <1>8, ReadKeepsIInv DEF vars, IInv, TypeOK
<1> QED  BY <1>1, <1>2, <1>3, <1>4, <1>5, <1>6, <1>7, <1>8 DEF Next

\* The list starts empty.
LEMMA InitIInv ==
  ASSUME Init
  PROVE  IInv
<1>1. RankedBy([id \in Ids |-> 0])
  BY DEF Init, RankedBy
<1>2. Ranked
  BY <1>1 DEF Ranked
<1> QED  BY <1>2 DEF Init, IInv, TypeOK, Linked, CachedEndsAreStored

\* The invariant holds of every behaviour of the list.
THEOREM Invariance == Spec => []IInv
  BY InitIInv, NextKeepsIInv, PTL DEF Spec

\* Whatever is pushed, removed, popped or read, and whenever the kernel loads
\* the list again, its cells are doubly linked from front to back, and what it
\* has in memory is what it has stored.
THEOREM WellLinked == Spec => [](Linked /\ Ranked)
<1>1. IInv => Linked /\ Ranked
  BY DEF IInv
<1> QED  BY <1>1, Invariance, PTL

\* The cells are of their types for any identifiers and elements.
THEOREM TypeCorrect == Spec => []TypeOK
<1>1. IInv => TypeOK
  BY DEF IInv
<1> QED  BY <1>1, Invariance, PTL

\* The copies of the ends of the list, from which push and remove start
\* (linked_list.rs:269-468), are the pointers that its cells hold.
THEOREM EndsAreStored == Spec => []CachedEndsAreStored
<1>1. IInv => CachedEndsAreStored
  BY DEF IInv
<1> QED  BY <1>1, Invariance, PTL

(***************************************************************************)
(* The refinement: the cells of the list, from front to back, are a        *)
(* sequence of identifiers, and the elements met on a walk are theirs.     *)
(***************************************************************************)

\* s names the cells from the front to the back.
Lists(s) ==
  /\ \A i, j \in 1 .. Len(s) : s[i] = s[j] => i = j
  /\ \A id \in Ids : pointer[id] # None <=> \E i \in 1 .. Len(s) : s[i] = id
  /\ \A i \in 1 .. Len(s) :
       pointer[s[i]].next = IF i < Len(s) THEN s[i + 1] ELSE None
  /\ pointers = None <=> Len(s) = 0
  /\ pointers # None => pointers.front.id = s[1]

Ordered == \E s \in Seq(Ids) : Lists(s)

Map(s) == [i \in 1 .. Len(s) |-> Found(s[i])]

\* A walk from the front meets the elements of the cells in their order.
ContentsAreListed == \A s \in Seq(Ids) : Lists(s) => Contents = Map(s)

-----------------------------------------------------------------------------
\* A set of naturals that is not empty has a least element.
LEMMA LeastNatural ==
  ASSUME NEW T, T \subseteq Nat, T # {}
  PROVE  \E x \in T : \A y \in T : ~ (y < x)
<1> DEFINE R == OpToRel(<, Nat)
<1>1. \A x, y \in Nat : y < x => <<y, x>> \in R
  BY DEF OpToRel
<1>2. IsWellFoundedOn(R, Nat)
  BY NatLessThanWellFounded
<1> HIDE DEF R
<1>3. \E x \in T : \A y \in T : ~ (<<y, x>> \in R)
  BY <1>2, WFMin
<1> QED  BY <1>1, <1>3

\* Induction up to a bound, for a set.
LEMMA Induction ==
  ASSUME NEW n \in Nat, NEW S, S \subseteq 0 .. n, 0 \in S,
         \A i \in 1 .. n : i - 1 \in S => i \in S
  PROVE  S = 0 .. n
<1> DEFINE T == (0 .. n) \ S
<1> SUFFICES ASSUME T # {} PROVE FALSE
  OBVIOUS
<1>1. T \subseteq Nat
  OBVIOUS
<1>2. PICK x \in T : \A y \in T : ~ (y < x)
  <2> HIDE DEF T
  <2> QED  BY <1>1, LeastNatural
<1>3. x \in 1 .. n
  OBVIOUS
<1>4. x - 1 \in S
  BY <1>2, <1>3
<1> QED  BY <1>3, <1>4

\* The recursion of Walk, up to n links.
WalkUpTo(f, n) ==
  f = [k \in 0 .. n |->
         [id \in Ids \union {None} |->
            IF k = 0 \/ id = None THEN << >>
            ELSE IF pointer[id] = None THEN << >>
            ELSE <<Found(id)>> \o f[k - 1][pointer[id].next]]]

\* The recursive function Walk exists.
LEMMA WalkExists ==
  ASSUME NEW N \in Nat
  PROVE  \E f : WalkUpTo(f, N)
<1> DEFINE S == {n \in 0 .. N : \E f : WalkUpTo(f, n)}
           Row(k, row) == [id \in Ids \union {None} |->
                             IF k = 0 \/ id = None THEN << >>
                             ELSE IF pointer[id] = None THEN << >>
                             ELSE <<Found(id)>> \o row[pointer[id].next]]
<1>0. ASSUME NEW n, NEW f  PROVE WalkUpTo(f, n) <=> f = [k \in 0 .. n |-> Row(k, f[k - 1])]
  BY DEF WalkUpTo
<1>r. \A r1, r2 : Row(0, r1) = Row(0, r2)
  OBVIOUS
<1> HIDE DEF Row
<1>1. 0 \in S
  <2> DEFINE f == [k \in 0 .. 0 |-> Row(0, 0)]
             g == [k \in 0 .. 0 |-> Row(k, f[k - 1])]
  <2>1. \A k \in 0 .. 0 : f[k] = g[k]
    BY <1>r
  <2>2. f = g
    <3>1. f = [k \in 0 .. 0 |-> f[k]] /\ g = [k \in 0 .. 0 |-> g[k]]
      OBVIOUS
    <3> HIDE DEF f, g
    <3> QED  BY <2>1, <3>1
  <2>3. WalkUpTo(f, 0)
    BY <1>0, <2>2
  <2> QED  BY <2>3
<1>2. ASSUME NEW n \in 1 .. N, n - 1 \in S  PROVE  n \in S
  <2>1. PICK f : WalkUpTo(f, n - 1)
    BY <1>2
  <2>f. f = [k \in 0 .. n - 1 |-> Row(k, f[k - 1])]
    BY <1>0, <2>1
  <2> DEFINE g == [k \in 0 .. n |-> IF k < n THEN f[k] ELSE Row(k, f[k - 1])]
             h == [k \in 0 .. n |-> Row(k, g[k - 1])]
  <2>2. ASSUME NEW k \in 0 .. n  PROVE  g[k] = h[k]
    <3>1. k # 0 => g[k - 1] = f[k - 1]
      OBVIOUS
    <3>2. h[k] = Row(k, g[k - 1])
      OBVIOUS
    <3>3. g[k] = Row(k, f[k - 1])
      <4>1. CASE k < n
        <5>1. k \in 0 .. n - 1
          BY <4>1
        <5>2. f[k] = Row(k, f[k - 1])
          BY <2>f, <5>1
        <5> QED  BY <4>1, <5>2
      <4>2. CASE k = n
        BY <4>2
      <4> QED  BY <4>1, <4>2
    <3> HIDE DEF g, h
    <3> QED  BY <3>1, <3>2, <3>3, <1>r
  <2>3. g = h
    <3>1. g = [k \in 0 .. n |-> g[k]] /\ h = [k \in 0 .. n |-> h[k]]
      OBVIOUS
    <3> HIDE DEF g, h
    <3> QED  BY <2>2, <3>1
  <2>4. WalkUpTo(g, n)
    <3> HIDE DEF g
    <3> QED  BY <1>0, <2>3
  <2> QED  BY <2>4
<1>3. S = 0 .. N
  <2> HIDE DEF S
  <2>1. S \subseteq 0 .. N
    BY DEF S
  <2> QED  BY <1>1, <1>2, <2>1, Induction
<1> QED  BY <1>3

\* What Walk is at each cell and number of links.
LEMMA WalkIs ==
  ASSUME NEW k \in 0 .. Cardinality(Ids), NEW id \in Ids \union {None}
  PROVE  Walk[k][id] = IF k = 0 \/ id = None THEN << >>
                       ELSE IF pointer[id] = None THEN << >>
                       ELSE <<Found(id)>> \o Walk[k - 1][pointer[id].next]
<1>1. Cardinality(Ids) \in Nat
  BY IdsAssumption, FS_CardinalityType
<1>2. Walk = CHOOSE f : WalkUpTo(f, Cardinality(Ids))
  BY DEF Walk, WalkUpTo
<1>3. WalkUpTo(Walk, Cardinality(Ids))
  <2> HIDE DEF WalkUpTo
  <2> QED  BY <1>1, <1>2, WalkExists
<1>4. PICK f : f = Walk
  OBVIOUS
<1>5. f[k] = [i \in Ids \union {None} |->
                IF k = 0 \/ i = None THEN << >>
                ELSE IF pointer[i] = None THEN << >>
                ELSE <<Found(i)>> \o f[k - 1][pointer[i].next]]
  BY <1>3, <1>4, Zenon DEF WalkUpTo
<1> QED  BY <1>4, <1>5

\* A sequence is its first element, then the others.
LEMMA FirstThenRest ==
  ASSUME NEW S, NEW n \in Nat, n # 0, NEW g \in [1 .. n -> S],
         NEW r, r = [j \in 1 .. n - 1 |-> g[j + 1]]
  PROVE  <<g[1]>> \o r = g
<1>1. g \in Seq(S) /\ Len(g) = n
  BY SeqDef
<1>2. r \in [1 .. n - 1 -> S]
  OBVIOUS
<1>3. r \in Seq(S) /\ Len(r) = n - 1
  BY <1>2
<1>4. g[1] \in S /\ <<g[1]>> \in Seq(S) /\ Len(<<g[1]>>) = 1
  OBVIOUS
<1> DEFINE c == <<g[1]>> \o r
<1>5. c \in Seq(S) /\ Len(c) = n
  BY <1>3, <1>4
<1>6. ASSUME NEW i \in 1 .. n  PROVE  c[i] = g[i]
  <2>1. c[i] = IF i <= 1 THEN <<g[1]>>[i] ELSE r[i - 1]
    BY <1>3, <1>4
  <2> QED  BY <2>1
<1> HIDE DEF c
<1>7. c = g
  BY <1>1, <1>5, <1>6, SeqEqual
<1> QED  BY <1>7 DEF c

\* A list is not longer than there are identifiers.
LEMMA ListIsShort ==
  ASSUME NEW s \in Seq(Ids), Lists(s)
  PROVE  Len(s) \in Nat /\ Cardinality(Ids) \in Nat /\ Len(s) <= Cardinality(Ids)
<1>1. s \in [1 .. Len(s) -> Ids] /\ Len(s) \in Nat
  OBVIOUS
<1>2. s \in Injection(1 .. Len(s), Ids)
  BY <1>1 DEF Lists, Injection, IsInjective
<1>3. Cardinality(1 .. Len(s)) <= Cardinality(Ids)
  BY <1>2, IdsAssumption, FS_Injection
<1>4. ASSUME NEW l \in Nat  PROVE  Cardinality(1 .. l) = l
  <2>1. 1 \in Int /\ l \in Int
    OBVIOUS
  <2>2. Cardinality(1 .. l) = IF 1 > l THEN 0 ELSE l - 1 + 1
    BY <2>1, FS_Interval
  <2> QED  BY <2>2
<1> QED  BY <1>1, <1>3, <1>4, IdsAssumption, FS_CardinalityType

\* The elements of a list are entries.
LEMMA MapIsEntries ==
  ASSUME IInv, NEW s \in Seq(Ids), Lists(s)
  PROVE  /\ \A i \in 1 .. Len(s) : /\ s[i] \in Ids /\ pointer[s[i]] # None
                                   /\ Found(s[i]) \in [id : Ids, elt : Elts]
         /\ Map(s) \in Seq([id : Ids, elt : Elts])
         /\ Len(Map(s)) = Len(s)
<1>1. Len(s) \in Nat
  OBVIOUS
<1>2. ASSUME NEW i \in 1 .. Len(s)
      PROVE  /\ s[i] \in Ids /\ pointer[s[i]] # None
             /\ Found(s[i]) \in [id : Ids, elt : Elts]
  <2>1. s[i] \in Ids /\ pointer[s[i]] # None
    BY DEF Lists
  <2> QED  BY <2>1, FoundIsEntry
<1>3. Map(s) \in [1 .. Len(s) -> [id : Ids, elt : Elts]]
  BY <1>2 DEF Map
<1>4. Map(s) \in Seq([id : Ids, elt : Elts]) /\ Len(Map(s)) = Len(s)
  <2> DEFINE m == Map(s)
             E == [id : Ids, elt : Elts]
  <2>1. m \in [1 .. Len(s) -> E]
    BY <1>3
  <2> HIDE DEF m, E
  <2>2. m \in Seq(E) /\ Len(m) = Len(s)
    BY <1>1, <2>1
  <2> QED  BY <2>2 DEF m, E
<1> QED  BY <1>2, <1>4

\* From the front the walk meets the elements of the list, in order, by
\* induction on the number of elements left.
LEMMA WalkMeetsAll ==
  ASSUME IInv
  PROVE  ContentsAreListed
<1> SUFFICES ASSUME NEW s \in Seq(Ids), Lists(s)
             PROVE  Contents = Map(s)
  BY DEF ContentsAreListed
<1> DEFINE L == Len(s)
           C == Cardinality(Ids)
           Left(n) == IF n = 0 THEN None ELSE s[L - n + 1]
           Last(n) == [j \in 1 .. n |-> Found(s[L - n + j])]
           S == {n \in 0 .. L : \A k \in n .. C : Walk[k][Left(n)] = Last(n)}
<1>1. L \in Nat /\ C \in Nat /\ L <= C
  BY ListIsShort
<1>2. \A i \in 1 .. L : /\ s[i] \in Ids /\ pointer[s[i]] # None
                        /\ Found(s[i]) \in [id : Ids, elt : Elts]
  BY MapIsEntries
<1>3. 0 \in S
  <2>1. Left(0) = None /\ Last(0) = << >>
    OBVIOUS
  <2>2. ASSUME NEW k \in 0 .. C  PROVE  Walk[k][None] = << >>
    BY WalkIs
  <2> HIDE DEF C, L
  <2> QED  BY <1>1, <2>1, <2>2
<1>4. ASSUME NEW n \in 1 .. L, n - 1 \in S  PROVE  n \in S
  <2> SUFFICES ASSUME NEW k \in n .. C  PROVE  Walk[k][Left(n)] = Last(n)
    BY <1>1
  <2> DEFINE id == s[L - n + 1]
  <2>1. /\ L - n + 1 \in 1 .. L /\ Left(n) = id /\ k \in 0 .. C /\ k # 0
        /\ k - 1 \in n - 1 .. C /\ n \in Nat
    BY <1>1
  <2>2. id \in Ids /\ pointer[id] # None /\ id # None
    BY <1>2, <2>1, IdsAssumption
  <2>3. pointer[id].next = Left(n - 1)
    <3>1. pointer[id].next = IF L - n + 1 < L THEN s[L - n + 1 + 1] ELSE None
      BY <2>1 DEF Lists
    <3>2. L - (n - 1) + 1 = L - n + 1 + 1
      BY <1>1
    <3>3. (L - n + 1 < L) <=> (n - 1 # 0)
      BY <1>1
    <3> QED  BY <3>1, <3>2, <3>3
  <2>4. Walk[k - 1][Left(n - 1)] = Last(n - 1)
    BY <1>4, <2>1
  <2>5. Walk[k][id] = <<Found(id)>> \o Last(n - 1)
    <3> HIDE DEF id, Left, Last
    <3>1. Walk[k][id] = <<Found(id)>> \o Walk[k - 1][pointer[id].next]
      BY <2>1, <2>2, WalkIs
    <3> QED  BY <2>3, <2>4, <3>1
  <2>6. <<Found(id)>> \o Last(n - 1) = Last(n)
    <3> DEFINE g == Last(n)
               r == Last(n - 1)
               E == [id : Ids, elt : Elts]
    <3>1. ASSUME NEW j \in 1 .. n  PROVE  Found(s[L - n + j]) \in E
      <4>1. L - n + j \in 1 .. L
        BY <1>1
      <4> QED  BY <1>2, <4>1
    <3>2. g \in [1 .. n -> E]
      BY <3>1
    <3>3. r = [j \in 1 .. n - 1 |-> g[j + 1]]
      <4>1. ASSUME NEW j \in 1 .. n - 1
            PROVE  L - (n - 1) + j = L - n + (j + 1) /\ j + 1 \in 1 .. n
        BY <1>1
      <4>2. ASSUME NEW j \in 1 .. n - 1
            PROVE  Found(s[L - (n - 1) + j]) = g[j + 1]
        BY <4>1
      <4> HIDE DEF g
      <4> QED  BY <4>2
    <3>4. g[1] = Found(id)
      BY <2>1
    <3> HIDE DEF g, r, E, id
    <3>5. <<g[1]>> \o r = g
      BY <2>1, <3>2, <3>3, FirstThenRest
    <3> QED  BY <3>4, <3>5 DEF g, r
  <2> QED  BY <2>1, <2>5, <2>6
<1>5. S = 0 .. L
  <2>1. S \subseteq 0 .. L
    OBVIOUS
  <2> HIDE DEF S, L
  <2> QED  BY <1>1, <1>3, <1>4, <2>1, Induction
<1>6. Walk[C][Left(L)] = Last(L)
  <2>1. L \in S
    <3> HIDE DEF S
    <3> QED  BY <1>1, <1>5
  <2> QED  BY <1>1, <2>1
<1>7. Last(L) = Map(s)
  <2>1. ASSUME NEW j \in 1 .. L  PROVE  L - L + j = j
    BY <1>1
  <2> QED  BY <2>1 DEF Map
<1>8. CASE pointers = None
  <2>1. L = 0
    BY <1>8 DEF Lists
  <2>2. Map(s) = << >>
    BY <2>1 DEF Map
  <2> QED  BY <1>8, <2>2 DEF Contents
<1>9. CASE pointers # None
  <2>1. L # 0 /\ pointers.front.id = s[1]
    BY <1>9 DEF Lists
  <2>2. L - L + 1 = 1
    BY <1>1
  <2>3. Left(L) = pointers.front.id
    BY <2>1, <2>2
  <2> QED  BY <1>6, <1>7, <1>9, <2>3 DEF Contents
<1> QED  BY <1>8, <1>9

-----------------------------------------------------------------------------
\* A sequence without the element at a place.
LEMMA RemoveAtIs ==
  ASSUME NEW S, NEW s \in Seq(S), NEW k \in 1 .. Len(s)
  PROVE  /\ Queue!RemoveAt(s, k) \in Seq(S)
         /\ Len(Queue!RemoveAt(s, k)) = Len(s) - 1
         /\ \A i \in 1 .. Len(s) - 1 :
              Queue!RemoveAt(s, k)[i] = s[IF i < k THEN i ELSE i + 1]
<1> DEFINE L == Len(s)
           a == SubSeq(s, 1, k - 1)
           b == SubSeq(s, k + 1, L)
<1>1. L \in Nat /\ k \in Nat /\ k >= 1 /\ k <= L
  OBVIOUS
<1>2. a \in Seq(S) /\ Len(a) = k - 1 /\ \A i \in 1 .. k - 1 : a[i] = s[i]
  <2>1. \A i \in 1 .. k - 1 : i \in 1 .. Len(s)
    OBVIOUS
  <2> QED  BY <1>1, <2>1
<1>3. b \in Seq(S) /\ Len(b) = L - k /\ \A i \in 1 .. L - k : b[i] = s[k + i]
  <2>1. \A i \in k + 1 .. L : i \in 1 .. Len(s)
    OBVIOUS
  <2> QED  BY <1>1, <2>1
<1> HIDE DEF a, b
<1>4. a \o b \in Seq(S) /\ Len(a \o b) = L - 1
  <2>1. a \o b \in Seq(S) /\ Len(a \o b) = Len(a) + Len(b)
    BY <1>2, <1>3, ConcatProperties
  <2>2. (k - 1) + (L - k) = L - 1
    BY <1>1
  <2> QED  BY <1>2, <1>3, <2>1, <2>2
<1>5. ASSUME NEW i \in 1 .. L - 1
      PROVE  (a \o b)[i] = s[IF i < k THEN i ELSE i + 1]
  <2>1. (a \o b)[i] = IF i <= Len(a) THEN a[i] ELSE b[i - Len(a)]
    BY <1>1, <1>2, <1>3
  <2>2. CASE i < k
    BY <1>1, <1>2, <2>1, <2>2
  <2>3. CASE i >= k
    <3>1. i - Len(a) \in 1 .. L - k /\ k + (i - Len(a)) = i + 1 /\ ~ (i <= Len(a))
      BY <1>1, <1>2, <2>3
    <3>2. b[i - Len(a)] = s[i + 1]
      BY <1>3, <3>1
    <3> QED  BY <1>1, <2>1, <2>3, <3>1, <3>2
  <2>4. i < k \/ i >= k
    BY <1>1
  <2> QED  BY <2>2, <2>3, <2>4
<1>6. Queue!RemoveAt(s, k) = a \o b
  BY DEF Queue!RemoveAt, a, b
<1> QED  BY <1>4, <1>5, <1>6

\* The queue finds an entry where the list has a cell.
LEMMA LookupIs ==
  ASSUME IInv, NEW s \in Seq(Ids), Lists(s), Contents = Map(s), NEW id \in Ids
  PROVE  /\ Queue!Holds(id) <=> pointer[id] # None
         /\ Queue!Lookup(id) = IF pointer[id] = None THEN None ELSE Found(id)
         /\ pointer[id] # None => /\ Queue!Place(id) \in 1 .. Len(s)
                                  /\ s[Queue!Place(id)] = id
<1>1. Len(s) \in Nat
  OBVIOUS
<1>2. DOMAIN Contents = 1 .. Len(s)
  BY DEF Map
<1>3. ASSUME NEW i \in 1 .. Len(s)
      PROVE  Contents[i] = Found(s[i]) /\ Contents[i].id = s[i]
  BY DEF Map, Found
<1>4. (\E i \in DOMAIN Contents : Contents[i].id = id) <=> pointer[id] # None
  BY <1>2, <1>3 DEF Lists
<1>5. Queue!Holds(id) <=> pointer[id] # None
  BY <1>4 DEF Queue!Holds
<1>6. ASSUME pointer[id] # None
      PROVE  Queue!Place(id) \in 1 .. Len(s) /\ s[Queue!Place(id)] = id
  <2> DEFINE k == CHOOSE i \in DOMAIN Contents : Contents[i].id = id
  <2>1. k \in DOMAIN Contents /\ Contents[k].id = id
    BY <1>4, <1>6
  <2>2. Queue!Place(id) = k
    BY DEF Queue!Place
  <2> HIDE DEF k
  <2> QED  BY <1>2, <1>3, <2>1, <2>2
<1>7. Queue!Lookup(id) = IF pointer[id] = None THEN None ELSE Found(id)
  <2>1. Queue!Lookup(id) = IF Queue!Holds(id) THEN Contents[Queue!Place(id)] ELSE None
    BY DEF Queue!Lookup
  <2>2. pointer[id] # None => Contents[Queue!Place(id)] = Found(id)
    BY <1>3, <1>6
  <2> QED  BY <1>5, <2>1, <2>2
<1> QED  BY <1>5, <1>6, <1>7

\* An operation that changes nothing stored leaves the queue as it is.
LEMMA ReadKeepsContents ==
  ASSUME ContentsAreListed, ContentsAreListed', NEW s \in Seq(Ids), Lists(s),
         UNCHANGED <<pointers, pointer, data>>
  PROVE  Lists(s)' /\ Contents' = Contents
<1>1. Lists(s)'
  BY DEF Lists
<1>2. Contents = Map(s) /\ Contents' = Map(s)'
  BY <1>1 DEF ContentsAreListed
<1>3. Map(s)' = Map(s)
  BY DEF Map, Found
<1> QED  BY <1>1, <1>2, <1>3

-----------------------------------------------------------------------------
\* The back of the list is the last of the sequence.
LEMMA BackIsLast ==
  ASSUME IInv, NEW s \in Seq(Ids), Lists(s), NEW i \in 1 .. Len(s), pointers # None
  PROVE  s[i] = pointers.back.id <=> i = Len(s)
<1>1. \A j \in 1 .. Len(s) : s[j] \in Ids /\ s[j] # None
  BY IdsAssumption
<1>2. pointers.back.id \in Ids /\ pointer[pointers.back.id].next = None
  BY Ends
<1>3. pointer[pointers.back.id] # None
  BY Ends
<1>4. PICK j \in 1 .. Len(s) : s[j] = pointers.back.id
  BY <1>2, <1>3 DEF Lists
<1>5. j = Len(s)
  <2>1. pointer[s[j]].next = IF j < Len(s) THEN s[j + 1] ELSE None
    BY DEF Lists
  <2>2. j < Len(s) => j + 1 \in 1 .. Len(s)
    OBVIOUS
  <2> QED  BY <1>1, <1>2, <1>4, <2>1, <2>2
<1> QED  BY <1>4, <1>5 DEF Lists

\* What push does to the cells, whether the list was empty or not.
Pushed(id, e) ==
  /\ pointers' # None
  /\ pointers'.front.id = IF pointers = None THEN id ELSE pointers.front.id
  /\ pointer'[id] # None /\ pointer'[id].next = None
  /\ \A i \in Ids \ {id} :
       /\ pointer'[i] # None <=> pointer[i] # None
       /\ pointer[i] # None =>
            pointer'[i].next = IF pointers # None /\ i = pointers.back.id
                               THEN id ELSE pointer[i].next
  /\ data' = [data EXCEPT ![id] = e]
  /\ result' = None

\* Both cases of push append a cell.
LEMMA PushAppends ==
  ASSUME IInv, NEW id \in Ids, NEW e \in Elts, push(id, e), pointer[id] = None
  PROVE  Pushed(id, e)
<1>1. pointer \in [Ids -> Pointer \union {None}]
  BY DEF IInv, TypeOK
<1>2. data' = [data EXCEPT ![id] = e] /\ result' = None
  BY DEF push
<1>3. CASE pointers = None
  <2> DEFINE b == [id |-> id, previous |-> None, next |-> None]
  <2>1. PushFirst(id)
    BY <1>3 DEF push
  <2>2. b \in Pointer /\ b.id = id /\ b.next = None /\ b # None
    BY NewPointer, NoneAssumption
  <2>3. pointer' = [pointer EXCEPT ![id] = b] /\ save(b, b)
    BY <2>1 DEF PushFirst
  <2>4. pointers' # None /\ pointers'.front = b
    <3> HIDE DEF b
    <3> QED  BY <2>2, <2>3, SavedEnds
  <2>5. \A i \in Ids : pointer[i] = None
    <3> SUFFICES ASSUME NEW i \in Ids, pointer[i] # None  PROVE FALSE
      OBVIOUS
    <3>1. PICK rank \in [Ids -> Nat] : RankedBy(rank)
      BY DEF IInv, Ranked
    <3> DEFINE T == {n \in Nat : \E j \in Ids : pointer[j] # None /\ rank[j] = n}
    <3>2. T \subseteq Nat /\ rank[i] \in T
      OBVIOUS
    <3>3. PICK n \in T : \A m \in T : ~ (m < n)
      <4> HIDE DEF T
      <4> QED  BY <3>2, LeastNatural
    <3>4. PICK j \in Ids : pointer[j] # None /\ rank[j] = n
      OBVIOUS
    <3>5. LinkedAt(j) /\ pointer[j].previous \in Ids \union {None}
      BY <3>4, Cell
    <3>6. pointer[j].previous # None
      BY <1>3, <3>5 DEF LinkedAt
    <3> DEFINE q == pointer[j].previous
    <3>7. q \in Ids /\ pointer[q] # None /\ pointer[q].next = j
      BY <3>5, <3>6 DEF LinkedAt
    <3>8. rank[q] < rank[j] /\ rank[q] \in T
      BY <3>1, <3>7, IdsAssumption DEF RankedBy
    <3> QED  BY <3>3, <3>4, <3>8
  <2>6. pointer'[id] = b /\ \A i \in Ids \ {id} : pointer'[i] = pointer[i]
    <3> HIDE DEF b
    <3> QED  BY <1>1, <2>3
  <2> HIDE DEF b
  <2> QED  BY <1>2, <1>3, <2>2, <2>4, <2>5, <2>6 DEF Pushed
<1>4. CASE pointers # None
  <2> DEFINE p == [pointers.back EXCEPT !.next = id]
             b == [id |-> id, previous |-> p.id, next |-> None]
             f == IF p.id = pointers.front.id THEN p ELSE pointers.front
             last == pointers.back.id
  <2>1. PushBehind(id)
    BY <1>4 DEF push
  <2>2. p \in Pointer /\ p.id = last /\ p.next = id /\ p # None /\ last \in Ids
    <3>1. pointers.back \in Pointer /\ last \in Ids
      BY <1>4, Ends
    <3> QED  BY <3>1, NoneAssumption DEF Pointer
  <2>3. b \in Pointer /\ b.next = None /\ b # None
    BY <2>2, NewPointer, NoneAssumption
  <2>4. f \in Pointer /\ f.id = pointers.front.id
    BY <1>4, <2>2, Ends
  <2>5. pointers' # None /\ pointers'.front = f
    <3>1. save(f, b)
      BY <2>1 DEF PushBehind
    <3> QED  BY <2>3, <2>4, <3>1, SavedEnds
  <2>6. pointer' = [pointer EXCEPT ![last] = p, ![id] = b]
    BY <2>1, <2>2 DEF PushBehind
  <2>7. last # id /\ pointer[last] # None
    BY <1>4, Ends
  <2> HIDE DEF p, b, f
  <2>8. /\ pointer'[last] = p /\ pointer'[id] = b
        /\ \A i \in Ids \ {last, id} : pointer'[i] = pointer[i]
    BY <1>1, <2>2, <2>6, <2>7
  <2> QED  BY <1>2, <1>4, <2>2, <2>3, <2>4, <2>5, <2>7, <2>8 DEF Pushed
<1> QED  BY <1>3, <1>4

\* A push behind the cells is an Append to the queue.
LEMMA PushIsAppend ==
  ASSUME IInv, ContentsAreListed, ContentsAreListed', NEW id \in Ids, NEW e \in Elts,
         pointer[id] = None, Pushed(id, e), NEW s \in Seq(Ids), Lists(s)
  PROVE  /\ Ordered'
         /\ Contents' = Append(Contents, [id |-> id, elt |-> e])
<1> DEFINE L == Len(s)
<1>1. L \in Nat
  OBVIOUS
<1>2. PICK t \in Seq(Ids) : t = Append(s, id)
  <2>1. Append(s, id) \in Seq(Ids)
    OBVIOUS
  <2> QED  BY <2>1, Zenon
<1>3. Len(t) = L + 1 /\ t[L + 1] = id /\ \A i \in 1 .. L : t[i] = s[i]
  BY <1>2
<1>4. \A i \in 1 .. L : s[i] \in Ids /\ pointer[s[i]] # None /\ s[i] # id
  BY MapIsEntries
<1>5. Lists(t)'
  <2>1. ASSUME NEW i \in 1 .. Len(t), NEW j \in 1 .. Len(t), t[i] = t[j]  PROVE  i = j
    <3>1. CASE i \in 1 .. L /\ j \in 1 .. L
      BY <1>3, <2>1, <3>1 DEF Lists
    <3>2. CASE i = L + 1 \/ j = L + 1
      <4>1. (i \in 1 .. L \/ i = L + 1) /\ (j \in 1 .. L \/ j = L + 1)
        BY <1>1, <1>3
      <4> QED  BY <1>3, <1>4, <2>1, <3>2, <4>1
    <3> QED  BY <1>1, <1>3, <3>1, <3>2
  <2>2. ASSUME NEW j \in Ids
        PROVE  pointer'[j] # None <=> \E i \in 1 .. Len(t) : t[i] = j
    <3>1. CASE j = id
      BY <1>1, <1>3, <3>1 DEF Pushed
    <3>2. CASE j # id
      <4>1. pointer'[j] # None <=> pointer[j] # None
        BY <3>2 DEF Pushed
      <4>2. pointer[j] # None <=> \E i \in 1 .. L : s[i] = j
        BY DEF Lists
      <4>3. (\E i \in 1 .. Len(t) : t[i] = j) <=> (\E i \in 1 .. L : s[i] = j)
        <5>1. \A i \in 1 .. Len(t) : i \in 1 .. L \/ i = L + 1
          BY <1>1, <1>3
        <5>2. \A i \in 1 .. L : i \in 1 .. Len(t)
          BY <1>1, <1>3
        <5> QED  BY <1>3, <3>2, <5>1, <5>2
      <4> QED  BY <4>1, <4>2, <4>3
    <3> QED  BY <3>1, <3>2
  <2>3. ASSUME NEW i \in 1 .. Len(t)
        PROVE  pointer'[t[i]].next = IF i < Len(t) THEN t[i + 1] ELSE None
    <3>1. CASE i = L + 1
      BY <1>1, <1>3, <3>1 DEF Pushed
    <3>2. CASE i \in 1 .. L
      <4>1. pointers # None
        BY <1>1, <3>2 DEF Lists
      <4>2. s[i] = pointers.back.id <=> i = L
        BY <3>2, <4>1, BackIsLast
      <4>3. pointer'[s[i]].next = IF i = L THEN id ELSE pointer[s[i]].next
        BY <1>4, <3>2, <4>1, <4>2 DEF Pushed
      <4>4. pointer[s[i]].next = IF i < L THEN s[i + 1] ELSE None
        BY <3>2 DEF Lists
      <4>5. t[i] = s[i] /\ i < Len(t)
        BY <1>1, <1>3, <3>2
      <4>6. CASE i = L
        BY <1>3, <4>3, <4>5, <4>6
      <4>7. CASE i # L
        <5>1. i < L /\ i + 1 \in 1 .. L
          BY <1>1, <3>2, <4>7
        <5> QED  BY <1>3, <4>3, <4>4, <4>5, <4>7, <5>1
      <4> QED  BY <4>6, <4>7
    <3>3. i \in 1 .. L \/ i = L + 1
      BY <1>1, <1>3
    <3> QED  BY <3>1, <3>2, <3>3
  <2>4. pointers' # None /\ Len(t) # 0
    BY <1>1, <1>3 DEF Pushed
  <2>5. pointers'.front.id = t[1]
    <3>1. CASE pointers = None
      <4>1. L = 0
        BY <3>1 DEF Lists
      <4> QED  BY <1>3, <3>1, <4>1 DEF Pushed
    <3>2. CASE pointers # None
      <4>1. L # 0 /\ pointers.front.id = s[1]
        BY <3>2 DEF Lists
      <4>2. t[1] = s[1]
        BY <1>1, <1>3, <4>1
      <4> QED  BY <3>2, <4>1, <4>2 DEF Pushed
    <3> QED  BY <3>1, <3>2
  <2> QED  BY <2>1, <2>2, <2>3, <2>4, <2>5 DEF Lists
<1>6. Ordered'
  BY <1>5 DEF Ordered
<1>7. Contents = Map(s) /\ Contents' = Map(t)'
  BY <1>5 DEF ContentsAreListed
<1> DEFINE E == [id : Ids, elt : Elts]
           x == [id |-> id, elt |-> e]
           m == Map(s)
           a == Append(m, x)
<1>8. m \in Seq(E) /\ Len(m) = L /\ x \in E
  BY MapIsEntries
<1>9. a \in Seq(E) /\ Len(a) = L + 1 /\ a[L + 1] = x /\ \A i \in 1 .. L : a[i] = m[i]
  <2> HIDE DEF E, x, m
  <2> QED  BY <1>8, AppendProperties
<1>10. Map(t)' = [i \in 1 .. L + 1 |-> [id |-> t[i], elt |-> data'[t[i]]]]
  BY <1>3 DEF Map, Found
<1>11. ASSUME NEW i \in 1 .. L + 1
       PROVE  [id |-> t[i], elt |-> data'[t[i]]] = a[i]
  <2>0. data \in [Ids -> Elts \union {None}] /\ data' = [data EXCEPT ![id] = e]
    BY DEF IInv, TypeOK, Pushed
  <2>1. CASE i = L + 1
    <3>1. t[i] = id /\ data'[id] = e
      BY <1>3, <2>0, <2>1
    <3> QED  BY <1>9, <2>1, <3>1
  <2>2. CASE i \in 1 .. L
    <3>1. t[i] = s[i] /\ data'[s[i]] = data[s[i]]
      BY <1>3, <1>4, <2>0, <2>2
    <3>2. m[i] = Found(s[i])
      BY <2>2 DEF Map
    <3>3. a[i] = m[i]
      BY <1>9, <2>2
    <3> QED  BY <3>1, <3>2, <3>3 DEF Found
  <2>3. i \in 1 .. L \/ i = L + 1
    BY <1>1
  <2> QED  BY <2>1, <2>2, <2>3
<1>12. a = [i \in 1 .. L + 1 |-> a[i]]
  <2> HIDE DEF a, E
  <2> QED  BY <1>9
<1>13. Map(t)' = a
  <2> HIDE DEF a
  <2> QED  BY <1>10, <1>11, <1>12
<1> QED  BY <1>6, <1>7, <1>13

\* The cells and the front once a cell is taken out.
LEMMA UnlinkedCells ==
  ASSUME IInv, pointers # None, NEW id \in Ids, pointer[id] # None,
         NEW p \in Ids \union {None}, NEW n \in Ids \union {None},
         Unlinked(id, p, n)
  PROVE  /\ pointer'[id] = None
         /\ \A i \in Ids \ {id} :
              /\ pointer'[i] # None <=> pointer[i] # None
              /\ pointer[i] # None =>
                   pointer'[i].next = IF i = p THEN n ELSE pointer[i].next
         /\ pointers' = None <=> p = None /\ n = None
         /\ pointers' # None =>
              pointers'.front.id = IF p = None THEN n ELSE pointers.front.id
<1> USE DEF Unlinked
<1>1. LinkedAt(id) /\ p # id /\ n # id /\ (p # None => p # n)
  BY Cell, NeighboursDiffer
<1>2. p # None => /\ p \in Ids /\ pointer[p] # None
                  /\ pointer'[p] # None /\ pointer'[p].id = p
                  /\ pointer'[p].next = n
  <2> SUFFICES ASSUME p # None
               PROVE  /\ p \in Ids /\ pointer[p] # None
                      /\ pointer'[p] # None /\ pointer'[p].id = p
                      /\ pointer'[p].next = n
    OBVIOUS
  <2>1. p \in Ids /\ pointer[p] # None
    BY <1>1 DEF LinkedAt
  <2>2. pointer[p] \in Pointer /\ pointer[p].id = p
    BY <2>1, Cell
  <2> QED  BY <2>1, <2>2, NoneAssumption DEF Pointer
<1>3. n # None => /\ n \in Ids /\ pointer[n] # None
                  /\ pointer'[n] # None /\ pointer'[n].id = n
                  /\ pointer'[n].next = pointer[n].next
  <2> SUFFICES ASSUME n # None
               PROVE  /\ n \in Ids /\ pointer[n] # None
                      /\ pointer'[n] # None /\ pointer'[n].id = n
                      /\ pointer'[n].next = pointer[n].next
    OBVIOUS
  <2>1. n \in Ids /\ pointer[n] # None
    BY <1>1 DEF LinkedAt
  <2>2. pointer[n] \in Pointer /\ pointer[n].id = n
    BY <2>1, Cell
  <2> QED  BY <2>1, <2>2, NoneAssumption DEF Pointer
<1>4. ASSUME NEW i \in Ids \ {id}
      PROVE  /\ pointer'[i] # None <=> pointer[i] # None
             /\ pointer[i] # None =>
                  pointer'[i].next = IF i = p THEN n ELSE pointer[i].next
  <2>1. CASE i = p
    BY <1>2, <2>1, IdsAssumption
  <2>2. CASE i = n /\ i # p
    BY <1>3, <2>2, IdsAssumption
  <2>3. CASE i # n /\ i # p
    BY <2>3
  <2> QED  BY <2>1, <2>2, <2>3
<1>5. pointers' = None <=> p = None /\ n = None
  BY NoneAssumption
<1>6. pointers' # None =>
        pointers'.front.id = IF p = None THEN n ELSE pointers.front.id
  <2>1. CASE p = None /\ n # None
    BY <1>3, <2>1
  <2>2. CASE p # None
    <3>1. pointers.front.id \in Ids /\ pointer[pointers.front.id] # None
          /\ pointer[pointers.front.id].previous = None
      BY Ends
    <3>2. pointers.front.id # id
      BY <2>2, <3>1
    <3>3. pointers.front.id # n
      <4>1. n # None => pointer[n].previous = id
        BY <1>1 DEF LinkedAt
      <4> QED  BY <3>1, <4>1, IdsAssumption
    <3>4. pointer'[pointers.front.id].id = pointers.front.id
      <4>1. CASE pointers.front.id = p
        BY <1>2, <2>2, <4>1
      <4>2. CASE pointers.front.id # p
        BY <3>1, <3>2, <3>3, <4>2, Cell
      <4> QED  BY <4>1, <4>2
    <3>5. pointers'.front = pointer'[pointers.front.id]
      BY <2>2
    <3> QED  BY <2>2, <3>4, <3>5
  <2> QED  BY <1>5, <2>1, <2>2
<1> QED  BY <1>4, <1>5, <1>6

\* Taking a cell out is RemoveAt its place in the queue.
LEMMA UnlinkIsRemoveAt ==
  ASSUME IInv, ContentsAreListed, ContentsAreListed', pointers # None, NEW id \in Ids,
         pointer[id] # None, Unlinked(id, pointer[id].previous, pointer[id].next),
         NEW s \in Seq(Ids), Lists(s), NEW k \in 1 .. Len(s), s[k] = id
  PROVE  /\ Ordered'
         /\ Contents' = Queue!RemoveAt(Contents, k)
<1> DEFINE L == Len(s)
           p == pointer[id].previous
           n == pointer[id].next
<1>1. L \in Nat /\ L # 0 /\ k \in 1 .. L
  OBVIOUS
<1>2. PICK t \in Seq(Ids) : t = Queue!RemoveAt(s, k)
  <2>1. Queue!RemoveAt(s, k) \in Seq(Ids)
    BY RemoveAtIs
  <2> QED  BY <2>1, Zenon
<1>3. Len(t) = L - 1 /\ \A i \in 1 .. L - 1 : t[i] = s[IF i < k THEN i ELSE i + 1]
  BY <1>2, RemoveAtIs
<1>4. \A i \in 1 .. L : s[i] \in Ids /\ pointer[s[i]] # None
  BY MapIsEntries
<1>5. \A i, j \in 1 .. L : s[i] = s[j] => i = j
  BY DEF Lists
<1>6. n = IF k < L THEN s[k + 1] ELSE None
  BY DEF Lists
<1>7. p = IF k > 1 THEN s[k - 1] ELSE None
  <2>1. CASE k > 1
    <3>1. k - 1 \in 1 .. L /\ k - 1 < L /\ (k - 1) + 1 = k
      BY <1>1, <2>1
    <3>2. pointer[s[k - 1]].next = id
      BY <3>1 DEF Lists
    <3>3. LinkedAt(s[k - 1])
      BY <1>4, <3>1, Cell
    <3> QED  BY <2>1, <3>2, <3>3, IdsAssumption DEF LinkedAt
  <2>2. CASE ~ (k > 1)
    <3>1. k = 1
      BY <1>1, <2>2
    <3>2. pointers.front.id = id
      BY <3>1 DEF Lists
    <3> QED  BY <2>2, <3>2, Ends
  <2> QED  BY <2>1, <2>2
<1>8. p \in Ids \union {None} /\ n \in Ids \union {None}
  BY Cell
<1>9. /\ pointer'[id] = None
      /\ \A i \in Ids \ {id} :
           /\ pointer'[i] # None <=> pointer[i] # None
           /\ pointer[i] # None =>
                pointer'[i].next = IF i = p THEN n ELSE pointer[i].next
      /\ pointers' = None <=> p = None /\ n = None
      /\ pointers' # None =>
           pointers'.front.id = IF p = None THEN n ELSE pointers.front.id
  <2>1. Unlinked(id, p, n)
    OBVIOUS
  <2> HIDE DEF p, n
  <2> QED  BY <1>8, <2>1, UnlinkedCells
<1> HIDE DEF p, n
<1>10. ASSUME NEW i \in 1 .. L - 1
       PROVE  /\ i < k => t[i] = s[i] /\ i \in 1 .. L
              /\ ~ (i < k) => t[i] = s[i + 1] /\ i + 1 \in 1 .. L /\ i + 1 # k
              /\ t[i] # id /\ t[i] \in Ids /\ pointer[t[i]] # None
  <2>1. CASE i < k
    <3>1. i \in 1 .. L /\ i # k /\ t[i] = s[i]
      BY <1>1, <1>3, <2>1
    <3> QED  BY <1>4, <1>5, <2>1, <3>1
  <2>2. CASE ~ (i < k)
    <3>1. i + 1 \in 1 .. L /\ i + 1 # k /\ t[i] = s[i + 1]
      BY <1>1, <1>3, <2>2
    <3> QED  BY <1>4, <1>5, <2>2, <3>1
  <2> QED  BY <2>1, <2>2
<1>11. Lists(t)'
  <2>1. ASSUME NEW i \in 1 .. Len(t), NEW j \in 1 .. Len(t), t[i] = t[j]  PROVE  i = j
    <3>1. i \in 1 .. L - 1 /\ j \in 1 .. L - 1
      BY <1>3
    <3> DEFINE a == IF i < k THEN i ELSE i + 1
               b == IF j < k THEN j ELSE j + 1
    <3>2. a \in 1 .. L /\ b \in 1 .. L /\ t[i] = s[a] /\ t[j] = s[b]
      BY <1>3, <1>10, <3>1
    <3>3. a = b
      <4> HIDE DEF a, b
      <4> QED  BY <1>5, <2>1, <3>2
    <3> QED  BY <1>1, <3>1, <3>3
  <2>2. ASSUME NEW j \in Ids
        PROVE  pointer'[j] # None <=> \E i \in 1 .. Len(t) : t[i] = j
    <3>1. CASE j = id
      BY <1>3, <1>9, <1>10, <3>1
    <3>2. CASE j # id
      <4>1. pointer'[j] # None <=> pointer[j] # None
        BY <1>9, <3>2
      <4>2. ASSUME pointer[j] # None  PROVE  \E i \in 1 .. Len(t) : t[i] = j
        <5>1. PICK i \in 1 .. L : s[i] = j
          BY <4>2 DEF Lists
        <5>2. i # k
          BY <3>2, <5>1
        <5>3. CASE i < k
          <6>1. i \in 1 .. L - 1
            BY <1>1, <5>3
          <6> QED  BY <1>3, <1>10, <5>1, <5>3, <6>1
        <5>4. CASE i > k
          <6>1. i - 1 \in 1 .. L - 1 /\ ~ (i - 1 < k) /\ (i - 1) + 1 = i
            BY <1>1, <5>4
          <6>2. t[i - 1] = j
            BY <1>10, <5>1, <6>1
          <6>3. i - 1 \in 1 .. Len(t)
            BY <1>3, <6>1
          <6> QED  BY <6>2, <6>3
        <5> QED  BY <1>1, <5>2, <5>3, <5>4
      <4>3. ASSUME NEW i \in 1 .. Len(t), t[i] = j  PROVE  pointer[j] # None
        BY <1>3, <1>10, <4>3
      <4> QED  BY <4>1, <4>2, <4>3
    <3> QED  BY <3>1, <3>2
  <2>3. ASSUME NEW i \in 1 .. Len(t)
        PROVE  pointer'[t[i]].next = IF i < Len(t) THEN t[i + 1] ELSE None
    <3>0. i \in 1 .. L - 1
      BY <1>3
    <3>1. pointer'[t[i]].next = IF t[i] = p THEN n ELSE pointer[t[i]].next
      BY <1>9, <1>10, <3>0
    <3>2. CASE i < k - 1
      <4>1. /\ i < k /\ i + 1 < k /\ i + 1 \in 1 .. L - 1 /\ i < L /\ i < L - 1 /\ k > 1
            /\ k - 1 \in 1 .. L /\ k - 1 # i
        BY <1>1, <3>0, <3>2
      <4>2. t[i] = s[i] /\ i \in 1 .. L /\ t[i + 1] = s[i + 1]
        BY <1>10, <3>0, <4>1
      <4>3. t[i] # p
        BY <1>5, <1>7, <4>1, <4>2
      <4>4. pointer[s[i]].next = s[i + 1]
        BY <4>1, <4>2 DEF Lists
      <4> QED  BY <1>3, <3>1, <4>1, <4>2, <4>3, <4>4
    <3>3. CASE i = k - 1
      <4>1. i < k /\ k > 1 /\ (i < L - 1 <=> k < L)
        BY <1>1, <3>0, <3>3
      <4>2. t[i] = p
        BY <1>7, <1>10, <3>0, <3>3, <4>1
      <4>3. CASE k < L
        <5>1. k \in 1 .. L - 1 /\ ~ (k < k) /\ i + 1 = k
          BY <1>1, <3>3, <4>3
        <5>2. t[k] = s[k + 1]
          BY <1>10, <5>1
        <5> QED  BY <1>3, <1>6, <3>1, <4>1, <4>2, <4>3, <5>1, <5>2
      <4>4. CASE ~ (k < L)
        BY <1>3, <1>6, <3>1, <4>1, <4>2, <4>4
      <4> QED  BY <4>3, <4>4
    <3>4. CASE i > k - 1
      <4>1. ~ (i < k) /\ i + 1 \in 1 .. L
        BY <1>1, <3>0, <3>4
      <4>2. t[i] = s[i + 1]
        BY <1>10, <3>0, <4>1
      <4>3. t[i] # p
        <5>1. CASE k > 1
          <6>1. k - 1 \in 1 .. L /\ k - 1 # i + 1
            BY <1>1, <3>4, <5>1
          <6> QED  BY <1>5, <1>7, <4>1, <4>2, <5>1, <6>1
        <5>2. CASE ~ (k > 1)
          BY <1>7, <1>10, <3>0, <5>2, IdsAssumption
        <5> QED  BY <5>1, <5>2
      <4>4. pointer[s[i + 1]].next = IF i + 1 < L THEN s[i + 1 + 1] ELSE None
        BY <4>1 DEF Lists
      <4>5. CASE i + 1 < L
        <5>1. i + 1 \in 1 .. L - 1 /\ ~ (i + 1 < k) /\ i < L - 1
          BY <1>1, <3>0, <3>4, <4>5
        <5>2. t[i + 1] = s[i + 1 + 1]
          BY <1>10, <5>1
        <5> QED  BY <1>3, <3>1, <4>2, <4>3, <4>4, <4>5, <5>1, <5>2
      <4>6. CASE ~ (i + 1 < L)
        <5>1. ~ (i < L - 1)
          BY <1>1, <3>0, <4>6
        <5> QED  BY <1>3, <3>1, <4>2, <4>3, <4>4, <4>6, <5>1
      <4> QED  BY <4>5, <4>6
    <3>5. i < k - 1 \/ i = k - 1 \/ i > k - 1
      BY <1>1, <3>0
    <3> QED  BY <3>2, <3>3, <3>4, <3>5
  <2>4. p = None <=> k = 1
    <3>1. k > 1 => k - 1 \in 1 .. L
      BY <1>1
    <3>2. k > 1 <=> k # 1
      BY <1>1
    <3> QED  BY <1>4, <1>7, <3>1, <3>2, IdsAssumption
  <2>5. n = None <=> k = L
    <3>1. k < L => k + 1 \in 1 .. L
      BY <1>1
    <3>2. k < L <=> k # L
      BY <1>1
    <3> QED  BY <1>4, <1>6, <3>1, <3>2, IdsAssumption
  <2>6. pointers' = None <=> Len(t) = 0
    <3>1. (k = 1 /\ k = L) <=> L - 1 = 0
      <4> HIDE DEF L
      <4> QED  BY <1>1
    <3> QED  BY <1>3, <1>9, <2>4, <2>5, <3>1
  <2>7. pointers' # None => pointers'.front.id = t[1]
    <3> SUFFICES ASSUME pointers' # None  PROVE  pointers'.front.id = t[1]
      OBVIOUS
    <3>1. 1 \in 1 .. L - 1
      BY <1>1, <1>3, <2>6
    <3>2. CASE k = 1
      <4>1. k < L /\ ~ (1 < k)
        BY <1>1, <3>1, <3>2
      <4>2. t[1] = s[2]
        BY <1>10, <3>1, <4>1
      <4> QED  BY <1>6, <1>9, <2>4, <3>2, <4>1, <4>2
    <3>3. CASE k # 1
      <4>1. 1 < k
        BY <1>1, <3>3
      <4>2. t[1] = s[1]
        BY <1>10, <3>1, <4>1
      <4>3. pointers.front.id = s[1]
        BY DEF Lists
      <4> QED  BY <1>9, <2>4, <3>3, <4>2, <4>3
    <3> QED  BY <3>2, <3>3
  <2> QED  BY <2>1, <2>2, <2>3, <2>6, <2>7 DEF Lists
<1>12. Ordered'
  BY <1>11 DEF Ordered
<1>13. Contents = Map(s) /\ Contents' = Map(t)'
  BY <1>11 DEF ContentsAreListed
<1> DEFINE E == [id : Ids, elt : Elts]
           m == Map(s)
           r == Queue!RemoveAt(m, k)
<1>14. m \in Seq(E) /\ Len(m) = L
  BY MapIsEntries
<1>15. /\ r \in Seq(E) /\ Len(r) = L - 1
       /\ \A i \in 1 .. L - 1 : r[i] = m[IF i < k THEN i ELSE i + 1]
  <2> HIDE DEF E, m
  <2> QED  BY <1>14, RemoveAtIs
<1>16. Map(t)' = [i \in 1 .. L - 1 |-> [id |-> t[i], elt |-> data'[t[i]]]]
  BY <1>3 DEF Map, Found
<1>17. ASSUME NEW i \in 1 .. L - 1
       PROVE  [id |-> t[i], elt |-> data'[t[i]]] = r[i]
  <2> DEFINE a == IF i < k THEN i ELSE i + 1
  <2>1. t[i] = s[a] /\ a \in 1 .. L /\ t[i] # id /\ t[i] \in Ids
    BY <1>10
  <2>2. r[i] = m[a]
    BY <1>15
  <2>3. m[a] = Found(s[a])
    <3> HIDE DEF a
    <3> QED  BY <2>1 DEF Map
  <2>4. data'[t[i]] = data[t[i]]
    <3>1. data \in [Ids -> Elts \union {None}] /\ data' = [data EXCEPT ![id] = None]
      BY DEF IInv, TypeOK, Unlinked
    <3> QED  BY <2>1, <3>1
  <2> HIDE DEF a, r, m
  <2> QED  BY <2>1, <2>2, <2>3, <2>4 DEF Found
<1>18. r = [i \in 1 .. L - 1 |-> r[i]]
  <2> HIDE DEF r, E
  <2> QED  BY <1>15
<1>19. Map(t)' = r
  <2> HIDE DEF r
  <2> QED  BY <1>16, <1>17, <1>18
<1> QED  BY <1>12, <1>13, <1>19

-----------------------------------------------------------------------------
\* The queue is empty where the list is, and begins with its front.
LEMMA FrontIsHead ==
  ASSUME IInv, NEW s \in Seq(Ids), Lists(s), Contents = Map(s)
  PROVE  /\ Contents = << >> <=> pointers = None
         /\ pointers # None => /\ Head(Contents) = Found(pointers.front.id)
                               /\ 1 \in 1 .. Len(s) /\ s[1] = pointers.front.id
                               /\ Queue!RemoveAt(Contents, 1) = Tail(Contents)
<1> DEFINE E == [id : Ids, elt : Elts]
<1>1. Contents \in Seq(E) /\ Len(Contents) = Len(s) /\ Len(s) \in Nat
  <2>1. Map(s) \in Seq(E) /\ Len(Map(s)) = Len(s)
    BY MapIsEntries
  <2>2. Len(s) \in Nat
    OBVIOUS
  <2> QED  BY <2>1, <2>2, Zenon
<1>2. (pointers = None <=> Len(s) = 0) /\ (pointers # None => pointers.front.id = s[1])
  BY DEF Lists
<1> HIDE DEF E
<1>3. Contents = << >> <=> Len(s) = 0
  BY <1>1
<1>4. ASSUME Len(s) # 0
      PROVE  /\ 1 \in 1 .. Len(s) /\ Head(Contents) = Contents[1]
             /\ Queue!RemoveAt(Contents, 1) = Tail(Contents)
  <2>1. 1 \in 1 .. Len(s) /\ 1 \in 1 .. Len(Contents) /\ Contents # << >>
    BY <1>1, <1>4
  <2> DEFINE r == Queue!RemoveAt(Contents, 1)
             l == Tail(Contents)
             N == Len(s) - 1
  <2>2. N \in Nat
    BY <1>1, <1>4
  <2>3. /\ r \in Seq(E) /\ Len(r) = N
        /\ \A i \in 1 .. N : r[i] = Contents[IF i < 1 THEN i ELSE i + 1]
    BY <1>1, <2>1, RemoveAtIs
  <2>4. l \in Seq(E) /\ Len(l) = N /\ \A i \in 1 .. N : l[i] = Contents[i + 1]
    BY <1>1, <2>1
  <2>5. Head(Contents) = Contents[1]
    BY <1>1, <2>1
  <2> HIDE DEF r, l
  <2>6. \A i \in 1 .. N : r[i] = l[i]
    BY <2>2, <2>3, <2>4
  <2>7. r = l
    BY <2>2, <2>3, <2>4, <2>6, SeqEqual
  <2> QED  BY <2>1, <2>5, <2>7 DEF r, l
<1>5. ASSUME Len(s) # 0  PROVE  Contents[1] = Found(s[1])
  BY <1>4, <1>5 DEF Map
<1> QED  BY <1>2, <1>3, <1>4, <1>5

\* remove is Take, at the place of the element.
LEMMA RemoveIsTake ==
  ASSUME IInv, ContentsAreListed, ContentsAreListed', NEW id \in Ids, remove(id),
         NEW s \in Seq(Ids), Lists(s)
  PROVE  /\ Ordered' /\ Queue!Take(id)
         /\ pointers # None /\ id = pointers.front.id => Queue!PopFirst
<1>1. Contents = Map(s)
  BY DEF ContentsAreListed
<1>2. /\ Queue!Holds(id) <=> pointer[id] # None
      /\ Queue!Lookup(id) = IF pointer[id] = None THEN None ELSE Found(id)
      /\ pointer[id] # None => /\ Queue!Place(id) \in 1 .. Len(s)
                               /\ s[Queue!Place(id)] = id
  BY <1>1, LookupIs
<1>3. pointers = None => pointer[id] = None
  BY <1>2 DEF Lists
<1>4. CASE pointer[id] = None
  <2>1. result' = None /\ UNCHANGED <<pointers, meta, pointer, data>>
    BY <1>3, <1>4 DEF remove
  <2>2. Lists(s)' /\ Contents' = Contents
    BY <2>1, ReadKeepsContents
  <2>3. Queue!Take(id)
    BY <1>2, <1>4, <2>1, <2>2 DEF Queue!Take
  <2>4. ~ (pointers # None /\ id = pointers.front.id)
    BY <1>4, Ends
  <2> QED  BY <2>2, <2>3, <2>4 DEF Ordered
<1>5. CASE pointer[id] # None
  <2>1. pointers # None /\ result' = Found(id)
    BY <1>3, <1>5 DEF remove
  <2>2. Unlinked(id, pointer[id].previous, pointer[id].next)
    BY <1>5, <2>1, RemoveUnlinks
  <2>3. ASSUME NEW k \in 1 .. Len(s), s[k] = id
        PROVE  Ordered' /\ Contents' = Queue!RemoveAt(Contents, k)
    BY <1>5, <2>1, <2>2, <2>3, UnlinkIsRemoveAt
  <2>4. Ordered' /\ Contents' = Queue!RemoveAt(Contents, Queue!Place(id))
    BY <1>2, <1>5, <2>3
  <2>5. Queue!Take(id)
    BY <1>2, <1>5, <2>1, <2>4 DEF Queue!Take
  <2>6. ASSUME id = pointers.front.id  PROVE  Queue!PopFirst
    <3>1. /\ Contents # << >> /\ Head(Contents) = Found(id)
          /\ 1 \in 1 .. Len(s) /\ s[1] = id
          /\ Queue!RemoveAt(Contents, 1) = Tail(Contents)
      BY <1>1, <2>1, <2>6, FrontIsHead
    <3>2. Contents' = Tail(Contents)
      BY <2>3, <3>1
    <3> QED  BY <2>1, <3>1, <3>2 DEF Queue!PopFirst
  <2> QED  BY <2>4, <2>5, <2>6
<1> QED  BY <1>4, <1>5

\* Every operation of the list is the operation of the queue of its name.
LEMMA StepIsQueueStep ==
  ASSUME IInv, ContentsAreListed, ContentsAreListed', Ordered, [Next]_vars
  PROVE  Ordered' /\ [Queue!Next]_Queue!vars
<1>1. PICK s \in Seq(Ids) : Lists(s)
  BY DEF Ordered
<1>2. Contents = Map(s)
  BY <1>1 DEF ContentsAreListed
<1>3. ASSUME UNCHANGED <<pointers, pointer, data>>
      PROVE  Ordered' /\ Contents' = Contents
  <2>1. Lists(s)' /\ Contents' = Contents
    BY <1>1, <1>3, ReadKeepsContents
  <2> QED  BY <2>1 DEF Ordered
<1>4. ASSUME NEW id \in Ids, find(id)  PROVE  Ordered' /\ Queue!Find(id)
  <2>1. Queue!Lookup(id) = IF pointer[id] = None THEN None ELSE Found(id)
    BY <1>1, <1>2, LookupIs
  <2>2. /\ result' = IF pointer[id] = None THEN None ELSE Found(id)
        /\ UNCHANGED <<pointers, pointer, data>>
    BY <1>4 DEF find
  <2> QED  BY <1>3, <2>1, <2>2 DEF Queue!Find
<1>5. ASSUME NEW id \in Ids, remove(id)  PROVE  Ordered' /\ Queue!Take(id)
  BY <1>1, <1>5, RemoveIsTake
<1>6. ASSUME NEW id \in Ids, NEW e \in Elts, push(id, e)
      PROVE  Ordered' /\ Queue!Push(id, e)
  <2>1. Queue!Holds(id) <=> pointer[id] # None
    BY <1>1, <1>2, LookupIs
  <2>2. result' = None
    BY <1>6 DEF push
  <2>3. CASE pointer[id] # None
    <3>1. UNCHANGED <<pointers, pointer, data>>
      BY <1>6, <2>3 DEF push
    <3> QED  BY <1>3, <2>1, <2>2, <2>3, <3>1 DEF Queue!Push
  <2>4. CASE pointer[id] = None
    <3>1. Pushed(id, e)
      BY <1>6, <2>4, PushAppends
    <3>2. Ordered' /\ Contents' = Append(Contents, [id |-> id, elt |-> e])
      BY <1>1, <2>4, <3>1, PushIsAppend
    <3> QED  BY <2>1, <2>2, <2>4, <3>2 DEF Queue!Push
  <2> QED  BY <2>3, <2>4
<1>7. ASSUME first  PROVE  Ordered' /\ Queue!First
  <2>1. /\ result' = IF pointers = None THEN None ELSE Found(pointers.front.id)
        /\ UNCHANGED <<pointers, pointer, data>>
    BY <1>7 DEF first
  <2>2. /\ Contents = << >> <=> pointers = None
        /\ pointers # None => Head(Contents) = Found(pointers.front.id)
    BY <1>1, <1>2, FrontIsHead
  <2> QED  BY <1>3, <2>1, <2>2 DEF Queue!First
<1>8. ASSUME pop_first  PROVE  Ordered' /\ Queue!PopFirst
  <2>1. CASE pointers = None
    <3>1. result' = None /\ UNCHANGED <<pointers, pointer, data>>
      BY <1>8, <2>1 DEF pop_first
    <3>2. Contents = << >>
      BY <1>1, <1>2, <2>1, FrontIsHead
    <3> QED  BY <1>3, <3>1, <3>2 DEF Queue!PopFirst
  <2>2. CASE pointers # None
    <3>1. pointers.front.id \in Ids
      BY <2>2, Ends
    <3>2. remove(pointers.front.id)
      BY <1>8, <2>2 DEF pop_first
    <3> QED  BY <1>1, <2>2, <3>1, <3>2, RemoveIsTake
  <2> QED  BY <2>1, <2>2
<1>9. ASSUME delete  PROVE  Ordered' /\ Queue!Delete
  <2>1. << >> \in Seq(Ids) /\ Len(<< >>) = 0
    OBVIOUS
  <2>2. Lists(<< >>)'
    BY <1>9, <2>1 DEF Lists, delete
  <2>3. Contents' = << >> /\ result' = None
    BY <1>9 DEF Contents, delete
  <2> QED  BY <2>1, <2>2, <2>3 DEF Ordered, Queue!Delete
<1>10. ASSUME new \/ UNCHANGED vars  PROVE  Ordered' /\ UNCHANGED Queue!vars
  <2>1. UNCHANGED <<pointers, pointer, data, result>>
    BY <1>10 DEF new, vars, IInv, Linked
  <2> QED  BY <1>3, <2>1 DEF Queue!vars
<1> QED
  BY <1>4, <1>5, <1>6, <1>7, <1>8, <1>9, <1>10 DEF Next, Queue!Next

\* The stored list of linked_list.rs implements the queue the delayed inbox
\* relies on, for any identifiers and elements: what is met from the front are
\* the elements pushed and not yet taken, in order, and every operation returns
\* what the queue returns, also after the ends are read again by a later run.
THEOREM ImplementsQueueHolds == Spec => ImplementsQueue
<1>1. Init => Ordered /\ Queue!Init
  <2> SUFFICES ASSUME Init  PROVE  Ordered /\ Queue!Init
    OBVIOUS
  <2>1. << >> \in Seq(Ids) /\ Len(<< >>) = 0
    OBVIOUS
  <2>2. Lists(<< >>)
    BY <2>1 DEF Lists, Init
  <2>3. Contents = << >> /\ result = None
    BY DEF Contents, Init
  <2> QED  BY <2>1, <2>2, <2>3 DEF Ordered, Queue!Init
<1>2. IInv => ContentsAreListed
  BY WalkMeetsAll
<1>3. IInv /\ ContentsAreListed /\ ContentsAreListed' /\ Ordered /\ [Next]_vars
        => Ordered' /\ [Queue!Next]_Queue!vars
  BY StepIsQueueStep
<1> QED  BY <1>1, <1>2, <1>3, Invariance, PTL DEF Spec, ImplementsQueue, Queue!Spec
=============================================================================
