-------------------------------- MODULE Arena --------------------------------
(***************************************************************************)
(* The pool of order nodes of src/arena.rs and the intrusive lists that    *)
(* thread it: the free list (singly linked by next) and, for each price    *)
(* level, a doubly linked queue.  Every operation is a function from the   *)
(* arena (and the level it is given) to the new ones.                      *)
(*                                                                         *)
(* A node is [order, prev, next].  A freed node keeps its old fields in    *)
(* the code; alloc overwrites all of them before anybody reads the node    *)
(* again, so here it holds NoOrder.                                        *)
(***************************************************************************)
EXTENDS Integers, Sequences, FiniteSets

CONSTANTS ArenaCapacity,   \* number of nodes
          QtyModulus,      \* 2^64: a level's aggregate quantity wraps
          NoOrder          \* the content of a free node

ASSUME ArenaAssumption ==
  /\ ArenaCapacity \in Nat
  /\ QtyModulus \in Nat \ {0}

Indices == 0 .. ArenaCapacity - 1
ARENA_NULL == -1

\* Arena::new: the free list runs through all the nodes in order.
NewArena ==
  [storage   |-> [i \in Indices |->
                    [order |-> NoOrder, prev |-> ARENA_NULL,
                     next |-> IF i + 1 < ArenaCapacity THEN i + 1 ELSE ARENA_NULL]],
   free_head |-> IF ArenaCapacity > 0 THEN 0 ELSE ARENA_NULL,
   count     |-> 0]

NewLevel == [head |-> ARENA_NULL, tail |-> ARENA_NULL, count |-> 0, qty |-> 0]

\* The condition of ArenaError::Full.
Exhausted(a) == a.free_head = ARENA_NULL

Alloc(a, order) ==
  [storage   |-> [a.storage EXCEPT ![a.free_head] =
                    [order |-> order, prev |-> ARENA_NULL, next |-> ARENA_NULL]],
   free_head |-> a.storage[a.free_head].next,
   count     |-> a.count + 1]

DeallocLosesRest(a, index) ==
  [storage   |-> [a.storage EXCEPT ![index] =
                    [order |-> NoOrder, prev |-> ARENA_NULL, next |-> ARENA_NULL]],
   free_head |-> index,
   count     |-> a.count - 1]

Dealloc(a, index) ==
  [storage   |-> [a.storage EXCEPT ![index] =
                    [order |-> NoOrder, prev |-> ARENA_NULL, next |-> a.free_head]],
   free_head |-> index,
   count     |-> a.count - 1]

\* Writes to a node's link that the code guards with index != ARENA_NULL.
SetNext(a, index, next) ==
  IF index = ARENA_NULL THEN a ELSE [a EXCEPT !.storage[index].next = next]

SetPrev(a, index, prev) ==
  IF index = ARENA_NULL THEN a ELSE [a EXCEPT !.storage[index].prev = prev]

PushFront(a, level, index) ==
  LET linked == [a EXCEPT !.storage[index].prev = ARENA_NULL,
                          !.storage[index].next = level.head]
  IN [arena |-> SetPrev(linked, level.head, index),
      level |-> [head  |-> index,
                 tail  |-> IF level.head = ARENA_NULL THEN index ELSE level.tail,
                 count |-> level.count + 1,
                 qty   |-> (level.qty + a.storage[index].order.quantity) % QtyModulus]]

PushBack(a, level, index) ==
  LET linked == [a EXCEPT !.storage[index].prev = level.tail,
                          !.storage[index].next = ARENA_NULL]
  IN [arena |-> SetNext(linked, level.tail, index),
      level |-> [head  |-> IF level.tail = ARENA_NULL THEN index ELSE level.head,
                 tail  |-> index,
                 count |-> level.count + 1,
                 qty   |-> (level.qty + a.storage[index].order.quantity) % QtyModulus]]

\* The callers never pop an empty level.
PopFront(a, level) ==
  LET node == a.storage[level.head]
  IN [arena |-> SetPrev(a, node.next, ARENA_NULL),
      level |-> [head  |-> node.next,
                 tail  |-> IF node.next = ARENA_NULL THEN ARENA_NULL ELSE level.tail,
                 count |-> level.count - 1,
                 qty   |-> (level.qty - node.order.quantity) % QtyModulus]]

RemoveKeepsTail(a, level, index) ==
  LET node == a.storage[index]
  IN [arena |-> SetPrev(SetNext(a, node.prev, node.next), node.next, node.prev),
      level |-> [level EXCEPT !.head  = IF node.prev = ARENA_NULL THEN node.next ELSE @,
                              !.count = @ - 1,
                              !.qty   = (@ - node.order.quantity) % QtyModulus]]

Remove(a, level, index) ==
  LET node == a.storage[index]
  IN [arena |-> SetPrev(SetNext(a, node.prev, node.next), node.next, node.prev),
      level |-> [head  |-> IF node.prev = ARENA_NULL THEN node.next ELSE level.head,
                 tail  |-> IF node.next = ARENA_NULL THEN node.prev ELSE level.tail,
                 count |-> level.count - 1,
                 qty   |-> (level.qty - node.order.quantity) % QtyModulus]]
-----------------------------------------------------------------------------
\* The nodes of the list that starts at index, in order.  A list that does
\* not end is cut after one node more than there are.
Chain(a, index) ==
  LET after == [i \in Indices \cup {ARENA_NULL} |->
                  IF i = ARENA_NULL THEN ARENA_NULL ELSE a.storage[i].next]
      hop[k \in 0 .. ArenaCapacity] == IF k = 0 THEN index ELSE after[hop[k - 1]]
  IN [k \in 1 .. Cardinality({j \in DOMAIN hop : hop[j] # ARENA_NULL}) |-> hop[k - 1]]
=============================================================================
