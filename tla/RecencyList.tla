---------------------------- MODULE RecencyList ----------------------------
(***************************************************************************)
(* What the file caches expect of a LinkedMap: the entries in the order of *)
(* their last use, from the LRU to the MRU position, one for each key.     *)
(***************************************************************************)
EXTENDS Integers, SequencesExt

CONSTANTS Key, Value

VARIABLE entries

Entry(k, v) == [key |-> k, value |-> v]

New(k) == \A i \in 1 .. Len(entries) : entries[i].key # k

Init == entries = <<>>

Add(k, v) == New(k) /\ entries' = Append(entries, Entry(k, v))

\* An entry gives way to one under a new key, or under its own.
Replace(i, k, v) ==
    /\ New(k) \/ entries[i].key = k
    /\ entries' = Append(RemoveAt(entries, i), Entry(k, v))

Refresh(i) == entries' = Append(RemoveAt(entries, i), entries[i])

Change(i, v) == entries' = [entries EXCEPT ![i].value = v]

Erase(i) == entries' = RemoveAt(entries, i)

Next ==
    \/ \E k \in Key, v \in Value : Add(k, v)
    \/ \E i \in 1 .. Len(entries) :
          \/ \E k \in Key, v \in Value : Replace(i, k, v)
          \/ Refresh(i)
          \/ \E v \in Value : Change(i, v)
          \/ Erase(i)

Spec == Init /\ [][Next]_entries

=============================================================================
