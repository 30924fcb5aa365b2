----------------------------- MODULE LinkedMap -----------------------------
(***************************************************************************)
(* The container of every file cache but the unlimited one: a hash map of  *)
(* keys to ids, and a doubly linked list of the ids in the order of their  *)
(* last use, kept in vectors whose free positions are used again.  Callers *)
(* take the ids they pass from find, getLruId or findFirstWithPredicate,   *)
(* add keys that are not in the map, and replace an entry under such a key *)
(* or, with a new value, under its own.                                    *)
(***************************************************************************)
EXTENDS Integers, Sequences

CONSTANTS
    Key, Value,
    kMaxCapacity   \* ids that ID_type can count

kNone == -1

ASSUME LinkedMapAssumption == kMaxCapacity \in Nat

Id == 0 .. kMaxCapacity - 1

VARIABLES
    links,      \* first_, last_, and the members prev and next of list_
    key,        \* the member key of list_; kNone beyond the end of the vectors
    store,      \* id -> value
    map,        \* key -> id, kNone when the map does not hold the key
    next_id,    \* the size of the vectors
    free_list   \* positions of erased entries

map_vars == <<links, key, store, map, next_id, free_list>>

Free == {free_list[i] : i \in 1 .. Len(free_list)}
Live == (0 .. next_id - 1) \ Free
size == next_id - Len(free_list)

NoLinks == [first |-> kNone, last |-> kNone,
            prev |-> [i \in Id |-> kNone], next |-> [i \in Id |-> kNone]]

MapInit ==
    /\ links = NoLinks
    /\ key = [i \in Id |-> kNone]
    /\ store = [i \in Id |-> kNone]
    /\ map = [k \in Key |-> kNone]
    /\ next_id = 0
    /\ free_list = <<>>

-----------------------------------------------------------------------------
\* The list.

\* Defect: the entry after the removed one still points back to it.
removeFromList_Half(l, id) ==
    LET prev == l.prev[id]
        next == l.next[id]
    IN  [first |-> IF prev = kNone THEN next ELSE l.first,
         last |-> IF next = kNone THEN prev ELSE l.last,
         prev |-> l.prev,
         next |-> IF prev = kNone THEN l.next ELSE [l.next EXCEPT ![prev] = next]]

removeFromList(l, id) ==
    LET prev == l.prev[id]
        next == l.next[id]
    IN  [first |-> IF prev = kNone THEN next ELSE l.first,
         last |-> IF next = kNone THEN prev ELSE l.last,
         prev |-> IF next = kNone THEN l.prev ELSE [l.prev EXCEPT ![next] = prev],
         next |-> IF prev = kNone THEN l.next ELSE [l.next EXCEPT ![prev] = next]]

addAsMru(l, id) ==
    [first |-> IF l.first = kNone THEN id ELSE l.first,
     last |-> id,
     prev |-> [l.prev EXCEPT ![id] = l.last],
     next |-> [(IF l.last = kNone THEN l.next ELSE [l.next EXCEPT ![l.last] = id])
                  EXCEPT ![id] = kNone]]

\* Defect: a refreshed entry stays where it is.
moveToMru_Stays(l, id) == l

moveToMru(l, id) == addAsMru(removeFromList(l, id), id)

\* The id at each index of a traversal from the LRU position.
Visited ==
    LET visit[n \in 0 .. size] == IF n = 0 THEN links.first
                                  ELSE IF visit[n - 1] = kNone THEN kNone
                                  ELSE links.next[visit[n - 1]]
    IN  visit

\* Defect: the reserved entries are counted from the LRU position.
Searched_FromMru(exclude_lru, reserved_mru_count) ==
    (reserved_mru_count + (IF exclude_lru THEN 1 ELSE 0)) .. size - 1

\* The indices findFirstWithPredicate looks at.
Searched(exclude_lru, reserved_mru_count) ==
    (IF exclude_lru THEN 1 ELSE 0) .. size - reserved_mru_count - 1

findFirstWithPredicate(P, exclude_lru, reserved_mru_count) ==
    LET found == {n \in Searched(exclude_lru, reserved_mru_count) : store[Visited[n]] \in P}
    IN  IF found = {} THEN kNone
        ELSE Visited[CHOOSE n \in found : \A o \in found : n <= o]

-----------------------------------------------------------------------------
\* The public operations.

add(k, v) ==
    /\ map[k] = kNone
    /\ next_id < kMaxCapacity
    /\ LET id == IF free_list = <<>> THEN next_id ELSE free_list[Len(free_list)]
       IN  /\ next_id' = IF free_list = <<>> THEN next_id + 1 ELSE next_id
           /\ free_list' = IF free_list = <<>> THEN <<>>
                           ELSE SubSeq(free_list, 1, Len(free_list) - 1)
           /\ store' = [store EXCEPT ![id] = v]
           /\ key' = [key EXCEPT ![id] = k]
           /\ links' = addAsMru(links, id)
           /\ map' = [map EXCEPT ![k] = id]

replace(id, k, v) ==
    /\ map[k] \in {kNone, id}
    /\ map' = [map EXCEPT ![key[id]] = kNone, ![k] = id]
    /\ store' = [store EXCEPT ![id] = v]
    /\ key' = [key EXCEPT ![id] = k]
    /\ links' = moveToMru(links, id)
    /\ UNCHANGED <<next_id, free_list>>

refreshWithId(id) ==
    /\ links' = moveToMru(links, id)
    /\ UNCHANGED <<key, store, map, next_id, free_list>>

refreshWithKey(k) == map[k] # kNone /\ refreshWithId(map[k])

\* get() gives out a pointer to the value, through which callers change it.
change(id, v) ==
    /\ store' = [store EXCEPT ![id] = v]
    /\ UNCHANGED <<links, key, map, next_id, free_list>>

clear ==
    /\ links' = NoLinks
    /\ map' = [k \in Key |-> kNone]
    /\ next_id' = 0
    /\ free_list' = <<>>
    /\ key' = [i \in Id |-> kNone]
    /\ store' = [i \in Id |-> kNone]

eraseOne(id) ==
    /\ map' = [map EXCEPT ![key[id]] = kNone]
    /\ links' = removeFromList(links, id)
    /\ free_list' = Append(free_list, id)
    /\ UNCHANGED <<key, store, next_id>>

\* The last entry of all must be the first and the last of the list.
erase(id) ==
    IF size = 1 THEN id = links.first /\ id = links.last /\ clear ELSE eraseOne(id)

MapNext ==
    \/ \E k \in Key, v \in Value : add(k, v)
    \/ \E k \in Key : refreshWithKey(k)
    \/ \E id \in Live :
          \/ \E k \in Key, v \in Value : replace(id, k, v)
          \/ refreshWithId(id)
          \/ \E v \in Value : change(id, v)
          \/ erase(id)

MapSpec == MapInit /\ [][MapNext]_map_vars

-----------------------------------------------------------------------------
\* l links the ids of S: each to its neighbours and back.
Linked(l, S) ==
    /\ l.first \in S \cup {kNone} /\ l.last \in S \cup {kNone}
    /\ l.first = kNone <=> l.last = kNone
    /\ \A i \in S :
          /\ l.next[i] \in S \cup {kNone} /\ l.prev[i] \in S \cup {kNone}
          /\ l.next[i] = kNone <=> i = l.last
          /\ l.prev[i] = kNone <=> i = l.first
          /\ l.next[i] # kNone => l.prev[l.next[i]] = i
          /\ l.prev[i] # kNone => l.next[l.prev[i]] = i

(* The hash map, the list and the free list agree: whatever entries were   *)
(* erased, replaced and added on positions used before, a position is free *)
(* once or held by one key, and the list links the held ones both ways.    *)
StructuresAgree ==
    /\ Free \subseteq 0 .. next_id - 1
    /\ \A i, j \in 1 .. Len(free_list) : free_list[i] = free_list[j] => i = j
    /\ Linked(links, Live)
    /\ \A k \in Key : map[k] # kNone => map[k] \in Live /\ key[map[k]] = k
    /\ \A i \in Live : key[i] \in Key /\ map[key[i]] = i

LinksType ==
    [first : Id \cup {kNone}, last : Id \cup {kNone},
     prev : [Id -> Id \cup {kNone}], next : [Id -> Id \cup {kNone}]]

MapTypeOK ==
    /\ links \in LinksType
    /\ key \in [Id -> Key \cup {kNone}] /\ store \in [Id -> Value \cup {kNone}]
    /\ map \in [Key -> Id \cup {kNone}]
    /\ next_id \in 0 .. kMaxCapacity
    /\ free_list \in Seq(Id)

Entries == [n \in 1 .. size |-> [key |-> key[Visited[n - 1]], value |-> store[Visited[n - 1]]]]

Recency == INSTANCE RecencyList WITH entries <- Entries

(* The map is the list of its entries in the order of their last use: an   *)
(* operation moves, adds or removes one entry, and no traversal loses one. *)
KeepsRecency == Recency!Spec

(* A search finds the entry nearest to the LRU position whose value meets  *)
(* the predicate, never the LRU entry when that is excluded, and never one *)
(* of the entries reserved at the MRU position.                            *)
FindsFirst ==
    \A P \in SUBSET Value, exclude_lru \in BOOLEAN, reserved \in 0 .. size :
       LET id == findFirstWithPredicate(P, exclude_lru, reserved)
           Meets(n) == Entries[n].value \in P /\ n <= size - reserved
                       /\ (exclude_lru => n > 1)
       IN  IF id = kNone THEN \A n \in 1 .. size : ~Meets(n)
           ELSE \E n \in 1 .. size :
                   /\ Meets(n) /\ \A o \in 1 .. n - 1 : ~Meets(o)
                   /\ Entries[n].key = key[id]

=============================================================================
