---- MODULE SkipList ----
(***************************************************************************)
(* structure/skiplist.h: a sorted list with express lanes.  The null       *)
(* predecessor stands for the list's own head array.  The random level of  *)
(* a node is chosen by the caller and is any value; one above              *)
(* SKIPLIST_MAX_LEVEL is clipped.                                          *)
(***************************************************************************)
EXTENDS Entries

CONSTANTS
  SlEntries,   \* the entries used here
  MaxLevel,    \* SKIPLIST_MAX_LEVEL
  Junk         \* a link that has not been written

ASSUME SlAssumption ==
  /\ SlEntries \subseteq Entries /\ IsFiniteSet(SlEntries)
  /\ MaxLevel \in Nat \ {0}
  /\ Junk \notin SlEntries \cup {Null}

VARIABLES
  sl,      \* the list's head and level, the nodes' next, prev and level
  slIn,    \* history: the entries inserted and not erased
  slWalk   \* skiplist_for_each_entry_safe: the current node, the entries to come

slVars == <<sl, slIn, slWalk>>

Levels == 0 .. MaxLevel - 1

SlInit ==
  /\ sl = [head |-> [i \in Levels |-> Null], level |-> 0,
           next |-> [n \in SlEntries |-> [i \in Levels |-> Junk]],
           prev |-> [n \in SlEntries |-> Junk],
           height |-> [n \in SlEntries |-> 0]]
  /\ slIn = {}
  /\ slWalk = [at |-> Null, todo |-> {}]

Link(x, i) == IF x = Null THEN sl.head[i] ELSE sl.next[x][i]

(* The descent begins a level too low. *)
DescentLow(pass, stop) ==
  LET at[i \in 0 .. MaxLevel] ==
        LET run[x \in SlEntries \cup {Null}] ==
              IF x \notin stop /\ Link(x, i) \in pass THEN run[Link(x, i)] ELSE x
        IN  IF i >= sl.level - 1 THEN Null ELSE run[at[i + 1]]
  IN  at

(* Where the descent is when it leaves each level, if it goes on while the *)
(* next node is in pass and it is not yet at a node of stop.               *)
Descent(pass, stop) ==
  LET at[i \in 0 .. MaxLevel] ==
        LET run[x \in SlEntries \cup {Null}] ==
              IF x \notin stop /\ Link(x, i) \in pass THEN run[Link(x, i)] ELSE x
        IN  IF i >= sl.level THEN Null ELSE run[at[i + 1]]
  IN  at

Below(k) == {n \in SlEntries : KeyOf[n] < k}
Having(k) == {n \in SlEntries : KeyOf[n] = k}

SlLast == Descent(SlEntries, {})[0]
SlFindLe(k) == Descent(Below(k) \cup Having(k), Having(k))[0]
SlFind(k) == LET x == SlFindLe(k) IN IF x \in Having(k) THEN x ELSE Null

(* The node behind keeps its prev. *)
BackwardKept(prev, n, p) == prev
Backward(prev, n, p) == IF n = Null THEN prev ELSE [prev EXCEPT ![n] = p]

SlInsert(e, random) ==
  LET update == Descent(Below(KeyOf[e]), {})
      lvl == IF random > MaxLevel THEN MaxLevel ELSE random
      next0 == Link(update[0], 0)
  IN  /\ slWalk.at = Null /\ e \notin slIn /\ next0 \notin Having(KeyOf[e])
      /\ sl' = [head |-> [i \in Levels |-> IF i < lvl /\ update[i] = Null THEN e ELSE sl.head[i]],
                level |-> IF lvl > sl.level THEN lvl ELSE sl.level,
                next |-> [n \in SlEntries |-> [i \in Levels |->
                            IF n = e THEN IF i < lvl THEN Link(update[i], i) ELSE Junk
                            ELSE IF i < lvl /\ update[i] = n THEN e ELSE sl.next[n][i]]],
                prev |-> Backward([sl.prev EXCEPT ![e] = update[0]], next0, e),
                height |-> [sl.height EXCEPT ![e] = lvl]]
      /\ slIn' = slIn \cup {e}
      /\ UNCHANGED slWalk

(* An entry whose key is taken is refused. *)
SlInsertTaken(e) ==
  /\ slWalk.at = Null /\ e \notin slIn
  /\ Link(Descent(Below(KeyOf[e]), {})[0], 0) \in Having(KeyOf[e])
  /\ UNCHANGED slVars

(* The level that remains: trailing empty lanes are dropped. *)
Shrunk(head) ==
  CHOOSE l \in 0 .. sl.level :
    /\ l > 0 => head[l - 1] # Null
    /\ \A i \in l .. sl.level - 1 : head[i] = Null

(* Erasure, after which the caller frees the entry. *)
SlErase(e) ==
  LET update == Descent(Below(KeyOf[e]), {})
      Skips(x, i) == i < sl.height[e] /\ update[i] = x /\ Link(x, i) = e
      head == [i \in Levels |-> IF Skips(Null, i) THEN sl.next[e][i] ELSE sl.head[i]]
  IN  /\ e \in slIn
      /\ sl' = [head |-> head,
                level |-> Shrunk(head),
                next |-> [n \in SlEntries |-> [i \in Levels |->
                            IF n = e THEN Junk
                            ELSE IF Skips(n, i) THEN sl.next[e][i] ELSE sl.next[n][i]]],
                prev |-> [Backward(sl.prev, sl.next[e][0], sl.prev[e]) EXCEPT ![e] = Junk],
                height |-> [sl.height EXCEPT ![e] = 0]]
      /\ slIn' = slIn \ {e}

SlWalkStart ==
  /\ slWalk.at = Null /\ sl.head[0] # Null
  /\ slWalk' = [at |-> sl.head[0], todo |-> slIn]
  /\ UNCHANGED <<sl, slIn>>

(* The body of the loop erases its node or leaves it. *)
SlWalkOn(erase) ==
  /\ slWalk.at # Null
  /\ slWalk' = [at |-> Link(slWalk.at, 0), todo |-> slWalk.todo \ {slWalk.at}]
  /\ IF erase THEN SlErase(slWalk.at) ELSE UNCHANGED <<sl, slIn>>

SlNext ==
  \/ \E e \in SlEntries, random \in 1 .. MaxLevel + 1 : SlInsert(e, random)
  \/ \E e \in SlEntries :
       \/ SlInsertTaken(e)
       \/ slWalk.at = Null /\ SlErase(e) /\ UNCHANGED slWalk
  \/ SlWalkStart
  \/ \E erase \in BOOLEAN : SlWalkOn(erase)

SlSpec == SlInit /\ [][SlNext]_slVars

(* --- properties -------------------------------------------------------- *)

SlTypeOK ==
  LET Links == SlEntries \cup {Null, Junk}
  IN  /\ sl \in [head : [Levels -> SlEntries \cup {Null}], level : 0 .. MaxLevel,
                 next : [SlEntries -> [Levels -> Links]], prev : [SlEntries -> Links],
                 height : [SlEntries -> 0 .. MaxLevel]]
      /\ slIn \subseteq SlEntries
      /\ slWalk \in [at : SlEntries \cup {Null}, todo : SUBSET SlEntries]

Lane(i) == {n \in slIn : sl.height[n] > i}
After(x, S) == Least(IF x = Null THEN S ELSE {n \in S : KeyOf[n] > KeyOf[x]})

(* Every lane is the sorted list of exactly the entries whose height       *)
(* reaches it, level is the tallest entry's height, so that the lanes are  *)
(* sublists of each other down to the full list, and prev inverts the      *)
(* lowest one (insert and erase, skiplist.h:174-297).                      *)
SlLevels ==
  /\ \A i \in Levels : \A x \in Lane(i) \cup {Null} : Link(x, i) = After(x, Lane(i))
  /\ \A i \in Levels : i < sl.level <=> Lane(i) # {}
  /\ Lane(0) = slIn
  /\ \A n \in slIn : sl.prev[n] = Greatest({m \in slIn : KeyOf[m] < KeyOf[n]})

(* The descents find what a search of the sorted set finds: the entry with *)
(* a key, the last one not above a key and the last of all                 *)
(* (skiplist.h:83-170), for keys held and not held; and the loop that may  *)
(* erase its node visits every entry once and in order (skiplist.h:313).   *)
SlFinds ==
  /\ \A k \in {KeyOf[e] : e \in Entries} :
       /\ SlFindLe(k) = Greatest({n \in slIn : KeyOf[n] <= k})
       /\ SlFind(k) = Least({n \in slIn : KeyOf[n] = k})
  /\ SlLast = Greatest(slIn)
  /\ slWalk.at = Least(slWalk.todo)

====
