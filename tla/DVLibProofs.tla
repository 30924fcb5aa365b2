---------------------------- MODULE DVLibProofs ----------------------------
(***************************************************************************)
(* What holds of the library's table of open files for any files, ids and  *)
(* capacity, in the three bindings.  The table of entries, its free list   *)
(* and its index are first shown to be well formed; the invariants of a    *)
(* client are then predicates on the entries in use, the index, the        *)
(* handles of the I/O library and the ids of the application: one for      *)
(* HDF5, where an id never has two entries, and one for the two netCDF     *)
(* bindings, where an entry may hide another.                              *)
(***************************************************************************)
EXTENDS DVLib, FiniteSetTheorems, SequenceTheorems, TLAPS

Table(K, V) == UNION {[D -> V] : D \in SUBSET K}

EntryType ==
    [path : File \cup {Other}, state : {"FREE", "OPEN", "SIM"}, key : Id \cup {NoId},
     fid : Id \cup {NoId}, meta : Id \cup {NoId}, other : Id \cup {NoId},
     hh_next : Slot \cup {NoSlot}]

LibType ==
    [open_files : [Slot -> EntryType], free_files : Seq(Slot),
     open_files_idx : Table(Id \cup {NoId}, Slot), open_redirected_files_idx : Table(Id, File),
     open_files_count : Int, to_terminate : BOOLEAN, finalized : BOOLEAN, exited : BOOLEAN]

HandleType == [file : File \cup {Other}, kind : {"real", "meta", "redirected"}]

ServerType ==
    [locks : [File -> Nat], available : SUBSET ResultFile,
     created : [File -> Nat], announced : [File -> Nat], failed : SUBSET Id]

Typed ==
    /\ binding \in {"netcdf", "hdf5", "pnetcdf"} /\ is_simulator \in BOOLEAN
    /\ in_result_dir \in BOOLEAN
    /\ dvl \in LibType /\ server \in ServerType
    /\ handles \in Table(Id, HandleType) /\ app \in Table(Id, File \cup {Other})
    /\ IsFiniteSet(DOMAIN app)

Used(d) == Slot \ Range(d.free_files)

(* The last entry stays free.  An entry that the index leads to is in use  *)
(* and has the key it is found by; so is and has an entry that another     *)
(* hides, and it is hidden by one only and not in the index.               *)
FreeListInv(d) ==
    /\ d.free_files # <<>> /\ IsInjective(d.free_files)
    /\ d.free_files[Len(d.free_files)] = MAX_OPEN_FILES - 1

Indexed(U, E, T) == \A k \in DOMAIN T : T[k] \in U /\ E[T[k]].key = k

Hidden(U, E, T) ==
    \A i \in U : E[i].hh_next # NoSlot =>
        /\ E[i].hh_next \in U /\ E[E[i].hh_next].key = E[i].key
        /\ \A k \in DOMAIN T : T[k] # E[i].hh_next
        /\ \A j \in U : E[j].hh_next = E[i].hh_next => j = i

TableInv(d) ==
    /\ FreeListInv(d)
    /\ Indexed(Used(d), d.open_files, d.open_files_idx)
    /\ Hidden(Used(d), d.open_files, d.open_files_idx)

-----------------------------------------------------------------------------
\* Maps.

LEMMA AssignedMap ==
    ASSUME NEW m, NEW k, NEW v
    PROVE  /\ DOMAIN assigned(m, k, v) = DOMAIN m \cup {k}
           /\ assigned(m, k, v)[k] = v
           /\ \A x \in DOMAIN m : x # k => assigned(m, k, v)[x] = m[x]
BY DEF assigned

LEMMA AssignedType ==
    ASSUME NEW K, NEW V, NEW m \in Table(K, V), NEW k \in K, NEW v \in V
    PROVE  assigned(m, k, v) \in Table(K, V)
<1>1. PICK D \in SUBSET K : m \in [D -> V]
  BY DEF Table
<1>2. assigned(m, k, v) \in [D \cup {k} -> V] /\ D \cup {k} \in SUBSET K
  BY <1>1 DEF assigned
<1>3. QED  BY <1>2 DEF Table

LEMMA WithoutMap ==
    ASSUME NEW m, NEW S
    PROVE  /\ DOMAIN Without(m, S) = DOMAIN m \ S
           /\ \A x \in DOMAIN m \ S : Without(m, S)[x] = m[x]
BY DEF Without, Restrict

LEMMA WithoutType ==
    ASSUME NEW K, NEW V, NEW m \in Table(K, V), NEW S
    PROVE  Without(m, S) \in Table(K, V)
<1>1. PICK D \in SUBSET K : m \in [D -> V]
  BY DEF Table
<1>2. Without(m, S) \in [D \ S -> V] /\ D \ S \in SUBSET K
  BY <1>1 DEF Without, Restrict
<1>3. QED  BY <1>2 DEF Table

LEMMA TableFacts ==
    ASSUME NEW K, NEW V, NEW m \in Table(K, V)
    PROVE  /\ DOMAIN m \subseteq K /\ \A k \in DOMAIN m : m[k] \in V
           /\ m \in [DOMAIN m -> V]
<1>1. PICK D \in SUBSET K : m \in [D -> V]
  BY DEF Table
<1>2. QED  BY <1>1

LEMMA EmptyTable ==
    ASSUME NEW K, NEW V
    PROVE  <<>> \in Table(K, V) /\ DOMAIN <<>> = {}
<1>1. <<>> \in [{} -> V] /\ DOMAIN <<>> = {}
  OBVIOUS
<1>2. QED  BY <1>1 DEF Table

\* Maps are equal that have the same keys and values.
LEMMA SameMap ==
    ASSUME NEW K, NEW V, NEW m \in Table(K, V), NEW n \in Table(K, V),
           DOMAIN m = DOMAIN n, \A k \in DOMAIN m : m[k] = n[k]
    PROVE  m = n
<1>1. m \in [DOMAIN m -> V] /\ n \in [DOMAIN n -> V]
  BY TableFacts
<1>2. QED  BY <1>1

-----------------------------------------------------------------------------
\* The table.

LEMMA LibFields ==
    ASSUME NEW d \in LibType
    PROVE  /\ d.open_files \in [Slot -> EntryType] /\ d.free_files \in Seq(Slot)
           /\ d.open_files_idx \in Table(Id \cup {NoId}, Slot)
           /\ d.open_redirected_files_idx \in Table(Id, File)
           /\ d.open_files_count \in Int /\ d.to_terminate \in BOOLEAN
           /\ d.finalized \in BOOLEAN /\ d.exited \in BOOLEAN
BY DEF LibType

LEMMA IndexFacts ==
    ASSUME NEW d \in LibType
    PROVE  /\ DOMAIN d.open_files_idx \subseteq Id \cup {NoId}
           /\ \A k \in DOMAIN d.open_files_idx : d.open_files_idx[k] \in Slot
           /\ \A k : Found(d, k) \in Slot \cup {NoSlot}
           /\ NoSlot \notin Slot /\ NoId \notin Id /\ IsFiniteSet(Slot)
<1>1. /\ DOMAIN d.open_files_idx \subseteq Id \cup {NoId}
      /\ \A k \in DOMAIN d.open_files_idx : d.open_files_idx[k] \in Slot
  BY LibFields, TableFacts
<1>2. NoSlot \notin Slot /\ NoId \notin Id
  BY DVLibAssumption DEF NoSlot, NoId, Slot
<1>3. IsFiniteSet(Slot)
  BY DVLibAssumption, FS_Interval DEF Slot
<1>4. QED  BY <1>1, <1>2, <1>3 DEF Found

LEMMA TrackFields ==
    ASSUME NEW d \in LibType, NEW i \in Slot, NEW e \in EntryType, d.free_files # <<>>
    PROVE  LET r == Track(d, i, e)
           IN  /\ r \in LibType
               /\ r.open_files = [d.open_files EXCEPT ![i] = [e EXCEPT !.hh_next = Found(d, e.key)]]
               /\ r.free_files = Tail(d.free_files)
               /\ r.open_files_idx = assigned(d.open_files_idx, e.key, i)
               /\ r.open_redirected_files_idx = d.open_redirected_files_idx
<1> DEFINE n == [e EXCEPT !.hh_next = Found(d, e.key)]
           t == [d.open_files EXCEPT ![i] = n]
           x == assigned(d.open_files_idx, e.key, i)
           s == Tail(d.free_files)
<1>1. t \in [Slot -> EntryType] /\ s \in Seq(Slot) /\ x \in Table(Id \cup {NoId}, Slot)
  <2>0. n \in EntryType /\ e.key \in Id \cup {NoId}
    BY IndexFacts DEF EntryType
  <2>1. t \in [Slot -> EntryType]
    <3> HIDE DEF n
    <3>1. QED  BY <2>0, LibFields
  <2>2. s \in Seq(Slot)
    BY LibFields
  <2>3. x \in Table(Id \cup {NoId}, Slot)
    BY <2>0, LibFields, AssignedType
  <2>4. QED  BY <2>1, <2>2, <2>3
<1>2. Track(d, i, e) = [d EXCEPT !.free_files = s, !.open_files = t, !.open_files_idx = x]
  BY LibFields DEF Track, LibType
<1> DEFINE r == Track(d, i, e)
           q == [d EXCEPT !.free_files = s, !.open_files = t, !.open_files_idx = x]
<1> HIDE DEF t, x, s, r
<1>3. /\ q \in LibType /\ q.open_files = t /\ q.free_files = s /\ q.open_files_idx = x
      /\ q.open_redirected_files_idx = d.open_redirected_files_idx
  BY <1>1 DEF LibType
<1>4. r = q
  BY <1>2 DEF r
<1> HIDE DEF q
<1>5. /\ r \in LibType /\ r.open_files = t /\ r.free_files = s /\ r.open_files_idx = x
      /\ r.open_redirected_files_idx = d.open_redirected_files_idx
  BY <1>3, <1>4
<1>6. QED  BY <1>5 DEF t, x, s, r

LEMMA UntrackFields ==
    ASSUME NEW d \in LibType, NEW k \in DOMAIN d.open_files_idx
    PROVE  LET r == Untrack(d, k)
               i == d.open_files_idx[k]
               next == d.open_files[i].hh_next
           IN  /\ r \in LibType
               /\ r.open_files = [d.open_files EXCEPT ![i] = NoEntry]
               /\ r.free_files = <<i>> \o d.free_files
               /\ r.open_files_idx = IF next = NoSlot THEN Without(d.open_files_idx, {k})
                                     ELSE assigned(d.open_files_idx, k, next)
               /\ r.open_redirected_files_idx = d.open_redirected_files_idx
<1> DEFINE i == d.open_files_idx[k]
           next == d.open_files[i].hh_next
           t == [d.open_files EXCEPT ![i] = NoEntry]
           x == IF next = NoSlot THEN Without(d.open_files_idx, {k})
                ELSE assigned(d.open_files_idx, k, next)
           s == <<i>> \o d.free_files
<1>1. /\ i \in Slot /\ NoEntry \in EntryType /\ k \in Id \cup {NoId}
      /\ next \in Slot \cup {NoSlot}
  <2>1. i \in Slot /\ NoEntry \in EntryType /\ k \in Id \cup {NoId}
    BY IndexFacts DEF NoEntry, EntryType
  <2>2. d.open_files[i] \in EntryType
    BY <2>1, LibFields
  <2>3. QED  BY <2>1, <2>2 DEF EntryType
<1>2. t \in [Slot -> EntryType] /\ s \in Seq(Slot) /\ x \in Table(Id \cup {NoId}, Slot)
  <2>1. t \in [Slot -> EntryType]
    BY <1>1, LibFields
  <2>2. s \in Seq(Slot)
    BY <1>1, LibFields
  <2>3. CASE next = NoSlot
    <3>1. Without(d.open_files_idx, {k}) \in Table(Id \cup {NoId}, Slot)
      BY LibFields, WithoutType
    <3>2. QED  BY <2>1, <2>2, <2>3, <3>1
  <2>4. CASE next # NoSlot
    <3> HIDE DEF next
    <3>1. assigned(d.open_files_idx, k, next) \in Table(Id \cup {NoId}, Slot)
      BY <1>1, <2>4, LibFields, AssignedType
    <3>2. QED  BY <2>1, <2>2, <2>4, <3>1
  <2>5. QED  BY <2>3, <2>4
<1>3. Untrack(d, k) = [d EXCEPT !.free_files = s, !.open_files = t, !.open_files_idx = x]
  BY LibFields DEF Untrack, LibType
<1> DEFINE r == Untrack(d, k)
           q == [d EXCEPT !.free_files = s, !.open_files = t, !.open_files_idx = x]
<1> HIDE DEF t, x, s, r
<1>4. /\ q \in LibType /\ q.open_files = t /\ q.free_files = s /\ q.open_files_idx = x
      /\ q.open_redirected_files_idx = d.open_redirected_files_idx
  BY <1>2 DEF LibType
<1>5. r = q
  BY <1>3 DEF r
<1> HIDE DEF q
<1>6. /\ r \in LibType /\ r.open_files = t /\ r.free_files = s /\ r.open_files_idx = x
      /\ r.open_redirected_files_idx = d.open_redirected_files_idx
  BY <1>4, <1>5
<1>7. QED  BY <1>6 DEF t, x, s, r

LEMMA SetEntryFields ==
    ASSUME NEW d \in LibType, NEW i \in Slot, NEW e \in EntryType
    PROVE  LET r == [d EXCEPT !.open_files[i] = e]
           IN  /\ r \in LibType
               /\ r.open_files = [d.open_files EXCEPT ![i] = e]
               /\ r.free_files = d.free_files /\ r.open_files_idx = d.open_files_idx
               /\ r.open_redirected_files_idx = d.open_redirected_files_idx
<1>1. [d.open_files EXCEPT ![i] = e] \in [Slot -> EntryType]
  BY LibFields
<1>2. QED  BY <1>1 DEF LibType

(* The first free entry is not the last one, so that its id is its         *)
(* position.                                                               *)
LEMMA FirstFree ==
    ASSUME NEW d \in LibType, FreeListInv(d), Len(d.free_files) > 1
    PROVE  /\ SlotId(Head(d.free_files)) = Head(d.free_files)
           /\ Head(d.free_files) \in Slot
           /\ Head(d.free_files) \notin Range(Tail(d.free_files))
           /\ Range(Tail(d.free_files)) \subseteq Range(d.free_files)
           /\ Head(d.free_files) \in Range(d.free_files)
           /\ Tail(d.free_files) # <<>> /\ IsInjective(Tail(d.free_files))
           /\ Tail(d.free_files)[Len(Tail(d.free_files))] = MAX_OPEN_FILES - 1
<1> DEFINE s == d.free_files
           t == Tail(s)
<1>1. s \in Seq(Slot) /\ Len(s) \in Nat /\ DOMAIN s = 1 .. Len(s)
  BY LibFields
<1>2. /\ t \in Seq(Slot) /\ Len(t) = Len(s) - 1 /\ Head(s) = s[1] /\ Head(s) \in Slot
      /\ DOMAIN t = 1 .. Len(s) - 1 /\ \A i \in 1 .. Len(s) - 1 : t[i] = s[i + 1]
  BY <1>1
<1>3. \A i, j \in 1 .. Len(s) : s[i] = s[j] => i = j
  BY <1>1 DEF FreeListInv, IsInjective
<1>4. s[Len(s)] = MAX_OPEN_FILES - 1
  BY DEF FreeListInv
<1> HIDE DEF t, s
<1>5. SlotId(Head(s)) = Head(s)
  <2>0. Len(s) > 1
    BY DEF s
  <2>1. 1 \in 1 .. Len(s) /\ Len(s) \in 1 .. Len(s) /\ Len(s) # 1
    <3> DEFINE n == Len(s)
    <3>1. n \in Nat /\ n > 1
      BY <1>1, <2>0
    <3> HIDE DEF n
    <3>2. 1 \in 1 .. n /\ n \in 1 .. n /\ n # 1
      BY <3>1
    <3>3. QED  BY <3>2 DEF n
  <2>2. s[1] # MAX_OPEN_FILES - 1
    BY <1>3, <1>4, <2>1
  <2>3. QED  BY <1>2, <2>2 DEF SlotId
<1>6. Head(s) \notin Range(t)
  <2> SUFFICES ASSUME NEW i \in 1 .. Len(s) - 1, t[i] = s[1] PROVE FALSE
    BY <1>2 DEF Range
  <2>1. i + 1 \in 1 .. Len(s) /\ 1 \in 1 .. Len(s) /\ i + 1 # 1
    BY <1>1
  <2>2. QED  BY <1>2, <1>3, <2>1
<1>7. Range(t) \subseteq Range(s) /\ Head(s) \in Range(s)
  <2>1. \A i \in 1 .. Len(s) - 1 : i + 1 \in 1 .. Len(s)
    BY <1>1
  <2>2. 1 \in 1 .. Len(s)
    BY <1>1 DEF s
  <2>3. QED  BY <1>1, <1>2, <2>1, <2>2 DEF Range
<1>8. IsInjective(t)
  <2> SUFFICES ASSUME NEW i \in 1 .. Len(s) - 1, NEW j \in 1 .. Len(s) - 1, t[i] = t[j]
               PROVE  i = j
    BY <1>2 DEF IsInjective
  <2>1. i + 1 \in 1 .. Len(s) /\ j + 1 \in 1 .. Len(s)
    BY <1>1
  <2>2. i + 1 = j + 1
    BY <1>2, <1>3, <2>1
  <2>3. QED  BY <2>2
<1>9. t # <<>> /\ t[Len(t)] = MAX_OPEN_FILES - 1
  <2>1. Len(s) > 1
    BY DEF s
  <2>2. Len(t) \in 1 .. Len(s) - 1 /\ Len(t) + 1 = Len(s)
    BY <1>1, <1>2, <2>1
  <2>3. t[Len(t)] = s[Len(s)]
    BY <1>2, <2>2
  <2>4. t # <<>>
    BY <1>2, <2>2
  <2>5. QED  BY <1>4, <2>3, <2>4
<1>10. QED  BY <1>2, <1>5, <1>6, <1>7, <1>8, <1>9 DEF s, t

(* The entry that is taken is put before the one that was found under its  *)
(* key, and no other changes.                                              *)
LEMMA TrackTable ==
    ASSUME NEW d \in LibType, TableInv(d), Len(d.free_files) > 1, NEW e \in EntryType
    PROVE  LET i == SlotId(Head(d.free_files))
               r == Track(d, i, e)
           IN  /\ r \in LibType /\ TableInv(r)
               /\ i \in Slot /\ i \notin Used(d) /\ Used(r) = Used(d) \cup {i}
               /\ r.open_files[i] = [e EXCEPT !.hh_next = Found(d, e.key)]
               /\ \A j \in Used(d) : r.open_files[j] = d.open_files[j]
               /\ r.open_files_idx = assigned(d.open_files_idx, e.key, i)
               /\ r.open_redirected_files_idx = d.open_redirected_files_idx
<1> DEFINE i == Head(d.free_files)
           r == Track(d, i, e)
           U == Used(d)
           E == d.open_files
           T == d.open_files_idx
           F == r.open_files
           X == assigned(T, e.key, i)
           n == [e EXCEPT !.hh_next = Found(d, e.key)]
<1>0. FreeListInv(d) /\ Indexed(U, E, T) /\ Hidden(U, E, T)
  BY DEF TableInv
<1>1. /\ SlotId(i) = i /\ i \in Slot /\ i \notin U /\ d.free_files # <<>>
      /\ Tail(d.free_files) # <<>> /\ IsInjective(Tail(d.free_files))
      /\ Tail(d.free_files)[Len(Tail(d.free_files))] = MAX_OPEN_FILES - 1
  BY <1>0, FirstFree DEF Used
<1>2. /\ r \in LibType /\ F = [E EXCEPT ![i] = n]
      /\ r.free_files = Tail(d.free_files) /\ r.open_files_idx = X
      /\ r.open_redirected_files_idx = d.open_redirected_files_idx
  BY <1>1, TrackFields
<1>3. Used(r) = U \cup {i}
  <2>1. Range(d.free_files) = Range(Tail(d.free_files)) \cup {i} /\ i \notin Range(Tail(d.free_files))
    <3> DEFINE s == d.free_files
    <3>1. s \in Seq(Slot) /\ s # <<>> /\ DOMAIN s = 1 .. Len(s) /\ Len(s) \in Nat
      BY <1>1, LibFields
    <3>2. /\ DOMAIN Tail(s) = 1 .. Len(s) - 1 /\ Head(s) = s[1]
          /\ \A m \in 1 .. Len(s) - 1 : Tail(s)[m] = s[m + 1]
      BY <3>1
    <3>3. Range(s) \subseteq Range(Tail(s)) \cup {i}
      <4> SUFFICES ASSUME NEW m \in 1 .. Len(s), m # 1 PROVE s[m] \in Range(Tail(s))
        BY <3>1, <3>2 DEF Range
      <4>1. m - 1 \in 1 .. Len(s) - 1 /\ (m - 1) + 1 = m
        BY <3>1
      <4>2. Tail(s)[m - 1] = s[m]
        BY <3>2, <4>1
      <4>3. QED  BY <3>2, <4>1, <4>2 DEF Range
    <3>4. QED  BY <1>0, <3>3, FirstFree
  <2>2. QED  BY <1>1, <1>2, <2>1 DEF Used
<1>4. DOMAIN X = DOMAIN T \cup {e.key} /\ X[e.key] = i /\ \A k \in DOMAIN T : k # e.key => X[k] = T[k]
  BY DEF assigned
<1>5. F[i] = n /\ n.key = e.key /\ n.hh_next = Found(d, e.key) /\ \A j \in U : F[j] = E[j]
  BY <1>1, <1>2, LibFields DEF EntryType, Used
<1>6. /\ Found(d, e.key) # NoSlot => e.key \in DOMAIN T /\ Found(d, e.key) = T[e.key]
  BY DEF Found
<1> HIDE DEF U, E, T, F, X, n, i
<1>7. Indexed(U \cup {i}, F, X)
  BY <1>0, <1>1, <1>4, <1>5 DEF Indexed
<1>8. Hidden(U \cup {i}, F, X)
  <2> SUFFICES ASSUME NEW j \in U \cup {i}, F[j].hh_next # NoSlot
               PROVE  /\ F[j].hh_next \in U /\ F[F[j].hh_next].key = F[j].key
                      /\ \A k \in DOMAIN X : X[k] # F[j].hh_next
                      /\ \A l \in U \cup {i} : F[l].hh_next = F[j].hh_next => l = j
    BY DEF Hidden
  <2>1. CASE j = i
    <3>1. F[i].hh_next = T[e.key] /\ e.key \in DOMAIN T /\ T[e.key] \in U /\ E[T[e.key]].key = e.key
      BY <1>0, <1>5, <1>6, <2>1 DEF Indexed
    <3>2. \A k \in DOMAIN X : X[k] # T[e.key]
      BY <1>0, <1>1, <1>4, <3>1 DEF Indexed
    <3>3. \A l \in U : F[l].hh_next # T[e.key]
      <4> SUFFICES ASSUME NEW l \in U, F[l].hh_next = T[e.key] PROVE FALSE
        OBVIOUS
      <4>1. E[l].hh_next = T[e.key] /\ E[l].hh_next # NoSlot
        BY <1>5, <2>1, <3>1
      <4>2. QED  BY <1>0, <3>1, <4>1 DEF Hidden
    <3>4. QED  BY <1>5, <2>1, <3>1, <3>2, <3>3
  <2>2. CASE j # i
    <3>1. j \in U /\ F[j] = E[j]
      BY <1>5, <2>2
    <3>2. /\ E[j].hh_next \in U /\ E[E[j].hh_next].key = E[j].key
          /\ \A k \in DOMAIN T : T[k] # E[j].hh_next
          /\ \A l \in U : E[l].hh_next = E[j].hh_next => l = j
      BY <1>0, <3>1 DEF Hidden
    <3>3. \A k \in DOMAIN X : X[k] # E[j].hh_next
      BY <1>1, <1>4, <3>2
    <3>4. F[i].hh_next # E[j].hh_next
      BY <1>5, <1>6, <3>1, <3>2
    <3>5. QED  BY <1>5, <3>1, <3>2, <3>3, <3>4
  <2>3. QED  BY <2>1, <2>2
<1>9. TableInv(r)
  BY <1>1, <1>2, <1>3, <1>7, <1>8 DEF TableInv, FreeListInv, F
<1>10. QED  BY <1>1, <1>2, <1>3, <1>5, <1>9 DEF i, U, E, T, F, X, n

(* The entry found under a key is given back, and the one that it hid is   *)
(* found again; no other changes.                                          *)
LEMMA UntrackTable ==
    ASSUME NEW d \in LibType, TableInv(d), NEW k \in DOMAIN d.open_files_idx
    PROVE  LET r == Untrack(d, k)
               i == d.open_files_idx[k]
               next == d.open_files[i].hh_next
           IN  /\ r \in LibType /\ TableInv(r)
               /\ i \in Used(d) /\ d.open_files[i].key = k /\ Used(r) = Used(d) \ {i}
               /\ \A j \in Used(r) : r.open_files[j] = d.open_files[j]
               /\ r.open_files_idx = IF next = NoSlot THEN Without(d.open_files_idx, {k})
                                     ELSE assigned(d.open_files_idx, k, next)
               /\ r.open_redirected_files_idx = d.open_redirected_files_idx
<1> DEFINE i == d.open_files_idx[k]
           next == d.open_files[i].hh_next
           r == Untrack(d, k)
           U == Used(d)
           E == d.open_files
           T == d.open_files_idx
           F == r.open_files
           X == r.open_files_idx
           s == d.free_files
           t == <<i>> \o s
<1>0. FreeListInv(d) /\ Indexed(U, E, T) /\ Hidden(U, E, T)
  BY DEF TableInv
<1>1. /\ r \in LibType /\ F = [E EXCEPT ![i] = NoEntry] /\ r.free_files = t
      /\ X = IF next = NoSlot THEN Without(T, {k}) ELSE assigned(T, k, next)
      /\ r.open_redirected_files_idx = d.open_redirected_files_idx
  BY UntrackFields
<1>2. i \in U /\ i \in Slot /\ i \notin Range(s) /\ E[i].key = k
  BY <1>0 DEF Used, Indexed
<1>3. FreeListInv(r) /\ Used(r) = U \ {i}
  <2>1. s # <<>> /\ IsInjective(s) /\ s[Len(s)] = MAX_OPEN_FILES - 1
    BY <1>0 DEF FreeListInv
  <2>2. s \in Seq(Slot) /\ Len(s) \in Nat /\ DOMAIN s = 1 .. Len(s)
    BY LibFields
  <2>3. /\ t \in Seq(Slot) /\ Len(t) = Len(s) + 1 /\ DOMAIN t = 1 .. Len(s) + 1
        /\ t[1] = i /\ \A n \in 1 .. Len(s) : t[n + 1] = s[n]
    BY <1>2, <2>2
  <2>4. r.free_files = t
    BY <1>1
  <2> HIDE DEF i, s, t, r
  <2>5. \A n \in 1 .. Len(s) : s[n] # i
    BY <1>2, <2>2 DEF Range
  <2>6. \A n \in 1 .. Len(s) + 1 : n # 1 => n - 1 \in 1 .. Len(s) /\ t[n] = s[n - 1]
    <3> SUFFICES ASSUME NEW n \in 1 .. Len(s) + 1, n # 1
                 PROVE  n - 1 \in 1 .. Len(s) /\ t[n] = s[n - 1]
      OBVIOUS
    <3>1. n - 1 \in 1 .. Len(s) /\ (n - 1) + 1 = n
      BY <2>2
    <3>2. t[(n - 1) + 1] = s[n - 1]
      BY <2>3, <3>1
    <3>3. QED  BY <3>1, <3>2, Zenon
  <2>7. IsInjective(t)
    <3> SUFFICES ASSUME NEW a \in 1 .. Len(s) + 1, NEW b \in 1 .. Len(s) + 1, t[a] = t[b]
                 PROVE  a = b
      BY <2>3 DEF IsInjective
    <3>1. CASE a = 1 \/ b = 1
      BY <2>3, <2>5, <2>6, <3>1
    <3>2. CASE a # 1 /\ b # 1
      <4>1. /\ a - 1 \in 1 .. Len(s) /\ t[a] = s[a - 1]
            /\ b - 1 \in 1 .. Len(s) /\ t[b] = s[b - 1]
        BY <2>6, <3>2
      <4>2. a - 1 = b - 1
        BY <2>1, <2>2, <4>1 DEF IsInjective
      <4>3. QED  BY <4>2
    <3>3. QED  BY <3>1, <3>2
  <2>8. t # <<>> /\ t[Len(t)] = MAX_OPEN_FILES - 1
    <3>1. Len(s) \in 1 .. Len(s)
      BY <2>1, <2>2
    <3>2. QED  BY <2>1, <2>2, <2>3, <3>1
  <2>9. Range(t) = Range(s) \cup {i}
    <3>1. \A n \in 1 .. Len(s) : n + 1 \in 1 .. Len(s) + 1
      BY <2>2
    <3>2. 1 \in 1 .. Len(s) + 1
      BY <2>2
    <3>3. Range(s) \cup {i} \subseteq Range(t)
      BY <2>2, <2>3, <3>1, <3>2 DEF Range
    <3>4. \A n \in 1 .. Len(s) + 1 : t[n] \in Range(s) \cup {i}
      BY <2>2, <2>3, <2>6 DEF Range
    <3>5. QED  BY <2>3, <3>3, <3>4 DEF Range
  <2>10. Used(r) = U \ {i}
    BY <2>4, <2>9 DEF Used, s
  <2>11. QED  BY <2>4, <2>7, <2>8, <2>10 DEF FreeListInv
<1>4. \A j \in U \ {i} : F[j] = E[j]
  BY <1>1, LibFields DEF Used
<1>5. /\ next # NoSlot => /\ next \in U /\ next # i /\ E[next].key = k
                          /\ \A l \in DOMAIN T : T[l] # next
                          /\ \A j \in U : E[j].hh_next = next => j = i
  BY <1>0, <1>2 DEF Hidden
<1>6. /\ \A l \in DOMAIN X : l # k => l \in DOMAIN T /\ X[l] = T[l]
      /\ k \in DOMAIN X => next # NoSlot /\ X[k] = next
  <2>1. CASE next = NoSlot
    BY <1>1, <2>1 DEF Without, Restrict
  <2>2. CASE next # NoSlot
    BY <1>1, <2>2 DEF assigned
  <2>3. QED  BY <2>1, <2>2
<1> HIDE DEF U, E, T, F, X, s, t, next, r
<1>7. Indexed(U \ {i}, F, X)
  <2> SUFFICES ASSUME NEW l \in DOMAIN X PROVE X[l] \in U \ {i} /\ F[X[l]].key = l
    BY DEF Indexed
  <2>1. CASE l = k
    BY <1>4, <1>5, <1>6, <2>1
  <2>2. CASE l # k
    <3>1. l \in DOMAIN T /\ X[l] = T[l] /\ T[l] \in U /\ E[T[l]].key = l
      BY <1>0, <1>6, <2>2 DEF Indexed
    <3>2. QED  BY <1>2, <1>4, <2>2, <3>1
  <2>3. QED  BY <2>1, <2>2
<1>8. Hidden(U \ {i}, F, X)
  <2> SUFFICES ASSUME NEW j \in U \ {i}, F[j].hh_next # NoSlot
               PROVE  /\ F[j].hh_next \in U \ {i} /\ F[F[j].hh_next].key = F[j].key
                      /\ \A l \in DOMAIN X : X[l] # F[j].hh_next
                      /\ \A l \in U \ {i} : F[l].hh_next = F[j].hh_next => l = j
    BY DEF Hidden
  <2>1. F[j] = E[j]
    BY <1>4
  <2>2. /\ E[j].hh_next \in U /\ E[E[j].hh_next].key = E[j].key
        /\ \A l \in DOMAIN T : T[l] # E[j].hh_next
        /\ \A l \in U : E[l].hh_next = E[j].hh_next => l = j
    BY <1>0, <2>1 DEF Hidden
  <2>3. E[j].hh_next # i
    BY <2>2 DEF T
  <2>4. \A l \in DOMAIN X : X[l] # E[j].hh_next
    BY <1>5, <1>6, <2>2
  <2>5. QED  BY <1>4, <2>1, <2>2, <2>3, <2>4
<1>9. TableInv(r)
  BY <1>3, <1>7, <1>8 DEF TableInv, F, X
<1>10. QED  BY <1>1, <1>2, <1>3, <1>4, <1>9 DEF U, E, T, F, X, next, r

(* An entry changes and keeps its key and place; no other changes.         *)
LEMMA SetTable ==
    ASSUME NEW d \in LibType, TableInv(d), NEW k \in DOMAIN d.open_files_idx, NEW e \in EntryType,
           e.key = k, e.hh_next = d.open_files[d.open_files_idx[k]].hh_next
    PROVE  LET i == d.open_files_idx[k]
               r == [d EXCEPT !.open_files[i] = e]
           IN  /\ r \in LibType /\ TableInv(r) /\ i \in Used(d) /\ i \in Slot
               /\ Used(r) = Used(d) /\ r.free_files = d.free_files
               /\ r.open_files[i] = e /\ \A j \in Used(d) \ {i} : r.open_files[j] = d.open_files[j]
               /\ r.open_files_idx = d.open_files_idx
               /\ r.open_redirected_files_idx = d.open_redirected_files_idx
<1> DEFINE i == d.open_files_idx[k]
           r == [d EXCEPT !.open_files[i] = e]
           U == Used(d)
           E == d.open_files
           T == d.open_files_idx
           F == r.open_files
<1>0. FreeListInv(d) /\ Indexed(U, E, T) /\ Hidden(U, E, T)
  BY DEF TableInv
<1>1. i \in Slot /\ i \in U /\ E[i].key = k
  BY <1>0 DEF Indexed, Used
<1>2. /\ r \in LibType /\ F = [E EXCEPT ![i] = e]
      /\ r.free_files = d.free_files /\ r.open_files_idx = T
      /\ r.open_redirected_files_idx = d.open_redirected_files_idx
  BY <1>1, SetEntryFields
<1> HIDE DEF r
<1>3. Used(r) = U /\ FreeListInv(r)
  BY <1>0, <1>2 DEF FreeListInv, Used
<1>4. F[i] = e /\ \A j \in U \ {i} : F[j] = E[j]
  BY <1>1, <1>2, LibFields DEF Used
<1>5. e.key = E[i].key /\ e.hh_next = E[i].hh_next
  BY <1>1
<1> HIDE DEF U, E, T, F, i
<1>6. \A j \in U : F[j].key = E[j].key /\ F[j].hh_next = E[j].hh_next
  BY <1>4, <1>5
<1>7. Indexed(U, F, T) /\ Hidden(U, F, T)
  <2>1. Indexed(U, F, T)
    BY <1>0, <1>6 DEF Indexed
  <2>2. Hidden(U, F, T)
    <3> SUFFICES ASSUME NEW j \in U, F[j].hh_next # NoSlot
                 PROVE  /\ F[j].hh_next \in U /\ F[F[j].hh_next].key = F[j].key
                        /\ \A l \in DOMAIN T : T[l] # F[j].hh_next
                        /\ \A l \in U : F[l].hh_next = F[j].hh_next => l = j
      BY DEF Hidden
    <3>1. /\ E[j].hh_next \in U /\ E[E[j].hh_next].key = E[j].key
          /\ \A l \in DOMAIN T : T[l] # E[j].hh_next
          /\ \A l \in U : E[l].hh_next = E[j].hh_next => l = j
      BY <1>0, <1>6 DEF Hidden
    <3>2. QED  BY <1>6, <3>1
  <2>3. QED  BY <2>1, <2>2
<1>8. TableInv(r)
  BY <1>2, <1>3, <1>7 DEF TableInv, F
<1>9. QED  BY <1>1, <1>2, <1>3, <1>4, <1>8 DEF U, E, T, F, i, r

-----------------------------------------------------------------------------
(* HDF5: an id has one entry at most (only those of failed opens, which    *)
(* have none, hide each other), so that the table is a map from ids to     *)
(* entries.                                                                *)

Flat(d) == \A i \in Used(d) : d.open_files[i].key # NoId => d.open_files[i].hh_next = NoSlot

EntriesOf(d) ==
    [k \in DOMAIN d.open_files_idx \ {NoId} |-> d.open_files[d.open_files_idx[k]]]

LEMMA EntriesFacts ==
    ASSUME NEW d \in LibType
    PROVE  /\ EntriesOf(d) \in Table(Id, EntryType)
           /\ DOMAIN EntriesOf(d) = DOMAIN d.open_files_idx \ {NoId}
           /\ \A k \in DOMAIN d.open_files_idx \ {NoId} :
                 /\ k \in Id /\ d.open_files_idx[k] \in Slot
                 /\ EntriesOf(d)[k] = d.open_files[d.open_files_idx[k]]
                 /\ EntriesOf(d)[k] \in EntryType
<1>1. \A k \in DOMAIN d.open_files_idx \ {NoId} : k \in Id /\ d.open_files_idx[k] \in Slot
  BY IndexFacts
<1>2. EntriesOf(d) \in [DOMAIN d.open_files_idx \ {NoId} -> EntryType]
  BY <1>1, LibFields DEF EntriesOf
<1>3. DOMAIN d.open_files_idx \ {NoId} \in SUBSET Id
  BY <1>1
<1>4. QED  BY <1>1, <1>2, <1>3 DEF EntriesOf, Table

(* A new entry is found under its id, and no other is lost.                *)
LEMMA TrackEntry ==
    ASSUME NEW d \in LibType, TableInv(d), Flat(d), Len(d.free_files) > 1,
           NEW e \in EntryType, e.hh_next = NoSlot,
           e.key \notin DOMAIN d.open_files_idx \ {NoId}
    PROVE  LET r == Track(d, SlotId(Head(d.free_files)), e)
           IN  /\ r \in LibType /\ TableInv(r) /\ Flat(r)
               /\ e.key # NoId => EntriesOf(r) = assigned(EntriesOf(d), e.key, e)
               /\ e.key = NoId => EntriesOf(r) = EntriesOf(d)
<1> DEFINE i == SlotId(Head(d.free_files))
           r == Track(d, i, e)
           T == d.open_files_idx
           X == assigned(T, e.key, i)
           n == [e EXCEPT !.hh_next = Found(d, e.key)]
           E == EntriesOf(d)
           F == EntriesOf(r)
<1>1. /\ r \in LibType /\ TableInv(r) /\ i \notin Used(d) /\ Used(r) = Used(d) \cup {i}
      /\ r.open_files[i] = n /\ \A j \in Used(d) : r.open_files[j] = d.open_files[j]
      /\ r.open_files_idx = X
  BY TrackTable
<1>2. n.key = e.key /\ n.hh_next = Found(d, e.key)
  BY DEF EntryType
<1>3. e.key # NoId => n.hh_next = NoSlot /\ n = e
  <2> SUFFICES ASSUME e.key # NoId PROVE n.hh_next = NoSlot /\ n = e
    OBVIOUS
  <2>1. Found(d, e.key) = NoSlot
    BY DEF Found
  <2>2. QED  BY <1>2, <2>1 DEF EntryType
<1>4. DOMAIN X = DOMAIN T \cup {e.key} /\ X[e.key] = i /\ \A k \in DOMAIN T : k # e.key => X[k] = T[k]
  BY DEF assigned
<1>5. /\ DOMAIN E = DOMAIN T \ {NoId} /\ \A k \in DOMAIN E : E[k] = d.open_files[T[k]]
      /\ E \in Table(Id, EntryType)
  BY EntriesFacts
<1>6. \A k \in DOMAIN T : T[k] \in Used(d)
  BY DEF TableInv, Indexed
<1> HIDE DEF r, X, n, i
<1>7. /\ DOMAIN F = DOMAIN X \ {NoId} /\ \A k \in DOMAIN F : F[k] = r.open_files[X[k]]
      /\ F \in Table(Id, EntryType)
  BY <1>1, EntriesFacts
<1> HIDE DEF T, E, F
<1>8. Flat(r)
  BY <1>1, <1>2, <1>3 DEF Flat
<1>9. \A k \in DOMAIN E : k # e.key => k \in DOMAIN F /\ F[k] = E[k]
  BY <1>1, <1>4, <1>5, <1>6, <1>7
<1>10. ASSUME e.key # NoId PROVE F = assigned(E, e.key, e)
  <2> DEFINE m == assigned(E, e.key, e)
  <2>1. m \in Table(Id, EntryType)
    <3>1. e.key \in Id
      BY <1>10 DEF EntryType
    <3>2. QED  BY <1>5, <3>1, AssignedType
  <2>2. DOMAIN m = DOMAIN E \cup {e.key} /\ m[e.key] = e /\ \A k \in DOMAIN E : k # e.key => m[k] = E[k]
    BY DEF assigned
  <2> HIDE DEF m
  <2>3. DOMAIN F = DOMAIN E \cup {e.key} /\ F[e.key] = e
    BY <1>1, <1>3, <1>4, <1>5, <1>7, <1>10
  <2>4. DOMAIN F = DOMAIN m /\ \A k \in DOMAIN F : F[k] = m[k]
    BY <1>9, <2>2, <2>3
  <2>5. F = m
    BY <1>7, <2>1, <2>4, SameMap
  <2>6. QED  BY <2>5 DEF m
<1>11. ASSUME e.key = NoId PROVE F = E
  <2>1. DOMAIN F = DOMAIN E
    BY <1>4, <1>5, <1>7, <1>11
  <2>2. \A k \in DOMAIN F : F[k] = E[k]
    BY <1>5, <1>9, <1>11, <2>1
  <2>3. QED  BY <1>5, <1>7, <2>1, <2>2, SameMap
<1>12. QED  BY <1>1, <1>8, <1>10, <1>11 DEF r, i, E, F

(* An entry that is given back is no longer found, and no other is lost.   *)
LEMMA UntrackEntry ==
    ASSUME NEW d \in LibType, TableInv(d), Flat(d), NEW k \in DOMAIN d.open_files_idx \ {NoId}
    PROVE  LET r == Untrack(d, k)
           IN  /\ r \in LibType /\ TableInv(r) /\ Flat(r)
               /\ EntriesOf(r) = Without(EntriesOf(d), {k})
<1> DEFINE i == d.open_files_idx[k]
           next == d.open_files[i].hh_next
           r == Untrack(d, k)
           T == d.open_files_idx
           X == Without(T, {k})
           E == EntriesOf(d)
           F == EntriesOf(r)
           m == Without(E, {k})
<1>1. /\ r \in LibType /\ TableInv(r) /\ i \in Used(d) /\ d.open_files[i].key = k
      /\ Used(r) = Used(d) \ {i}
      /\ \A j \in Used(r) : r.open_files[j] = d.open_files[j]
      /\ r.open_files_idx = IF next = NoSlot THEN X ELSE assigned(T, k, next)
  BY UntrackTable
<1>2. r.open_files_idx = X
  BY <1>1 DEF Flat
<1>3. \A j, l \in DOMAIN T : T[j] \in Used(d) /\ (T[j] = T[l] => j = l)
  BY DEF TableInv, Indexed
<1>4. DOMAIN X = DOMAIN T \ {k} /\ \A l \in DOMAIN X : X[l] = T[l]
  BY DEF Without, Restrict
<1>5. /\ DOMAIN E = DOMAIN T \ {NoId} /\ \A l \in DOMAIN E : E[l] = d.open_files[T[l]]
      /\ E \in Table(Id, EntryType)
  BY EntriesFacts
<1> HIDE DEF r, X
<1>6. /\ DOMAIN F = DOMAIN X \ {NoId} /\ \A l \in DOMAIN F : F[l] = r.open_files[X[l]]
      /\ F \in Table(Id, EntryType)
  BY <1>1, <1>2, EntriesFacts
<1>7. i = T[k] /\ k \in DOMAIN T
  OBVIOUS
<1> HIDE DEF T, E, F, i, next
<1>8. Flat(r)
  BY <1>1 DEF Flat
<1>9. DOMAIN m = DOMAIN E \ {k} /\ \A l \in DOMAIN m : m[l] = E[l]
  BY DEF Without, Restrict
<1>10. m \in Table(Id, EntryType)
  BY <1>5, WithoutType
<1> HIDE DEF m
<1>11. DOMAIN F = DOMAIN m
  BY <1>4, <1>5, <1>6, <1>9
<1>12. \A l \in DOMAIN F : F[l] = m[l]
  <2> SUFFICES ASSUME NEW l \in DOMAIN F PROVE F[l] = m[l]
    OBVIOUS
  <2>1. l \in DOMAIN T /\ l # k /\ l \in DOMAIN E /\ X[l] = T[l]
    BY <1>4, <1>5, <1>6
  <2>2. T[l] \in Used(r)
    BY <1>1, <1>3, <1>7, <2>1
  <2>3. QED  BY <1>1, <1>5, <1>6, <1>9, <1>11, <2>1, <2>2
<1>13. F = m
  BY <1>6, <1>10, <1>11, <1>12, SameMap
<1>14. QED  BY <1>1, <1>8, <1>13 DEF r, E, F, m

(* The entry of an id is changed, and no other.                            *)
LEMMA SetEntry ==
    ASSUME NEW d \in LibType, TableInv(d), Flat(d), NEW k \in DOMAIN d.open_files_idx \ {NoId},
           NEW e \in EntryType, e.key = k, e.hh_next = EntriesOf(d)[k].hh_next
    PROVE  LET r == [d EXCEPT !.open_files[d.open_files_idx[k]] = e]
           IN  /\ r \in LibType /\ TableInv(r) /\ Flat(r) /\ r.free_files = d.free_files
               /\ r.open_files_idx = d.open_files_idx
               /\ EntriesOf(r) = assigned(EntriesOf(d), k, e)
<1> DEFINE i == d.open_files_idx[k]
           r == [d EXCEPT !.open_files[i] = e]
           T == d.open_files_idx
           E == EntriesOf(d)
           F == EntriesOf(r)
           m == assigned(E, k, e)
<1>0. /\ DOMAIN E = DOMAIN T \ {NoId} /\ \A l \in DOMAIN E : E[l] = d.open_files[T[l]]
      /\ E \in Table(Id, EntryType) /\ k \in Id
  BY EntriesFacts
<1>1. /\ r \in LibType /\ TableInv(r) /\ i \in Used(d) /\ Used(r) = Used(d)
      /\ r.free_files = d.free_files
      /\ r.open_files[i] = e /\ \A j \in Used(d) \ {i} : r.open_files[j] = d.open_files[j]
      /\ r.open_files_idx = T
  BY <1>0, SetTable
<1>2. \A j, l \in DOMAIN T : T[j] \in Used(d) /\ (T[j] = T[l] => j = l)
  BY DEF TableInv, Indexed
<1>3. e.hh_next = d.open_files[i].hh_next /\ d.open_files[i].key = k
  BY <1>0 DEF TableInv, Indexed
<1> HIDE DEF r
<1>4. /\ DOMAIN F = DOMAIN T \ {NoId} /\ \A l \in DOMAIN F : F[l] = r.open_files[T[l]]
      /\ F \in Table(Id, EntryType)
  BY <1>1, EntriesFacts
<1>5. i = T[k] /\ k \in DOMAIN T
  OBVIOUS
<1> HIDE DEF T, E, F, i
<1>6. Flat(r)
  BY <1>1, <1>3 DEF Flat
<1>7. DOMAIN m = DOMAIN E \cup {k} /\ m[k] = e /\ \A l \in DOMAIN E : l # k => m[l] = E[l]
  BY DEF assigned
<1>8. m \in Table(Id, EntryType)
  BY <1>0, AssignedType
<1> HIDE DEF m
<1>9. DOMAIN F = DOMAIN m
  BY <1>0, <1>4, <1>7 DEF T
<1>10. \A l \in DOMAIN F : F[l] = m[l]
  <2> SUFFICES ASSUME NEW l \in DOMAIN F PROVE F[l] = m[l]
    OBVIOUS
  <2>1. CASE l = k
    BY <1>1, <1>4, <1>5, <1>7, <2>1
  <2>2. CASE l # k
    <3>1. T[l] \in Used(d) \ {i}
      BY <1>2, <1>4, <1>5, <2>2
    <3>2. QED  BY <1>0, <1>1, <1>4, <1>7, <2>2, <3>1
  <2>3. QED  BY <2>1, <2>2
<1>11. F = m
  BY <1>4, <1>8, <1>9, <1>10, SameMap
<1>12. QED  BY <1>1, <1>6, <1>11 DEF r, T, E, F, m, i

(* E is the map from ids to entries, h the handles, a the ids of the       *)
(* application.  An entry has a file of its own, or there are two for the  *)
(* file, the metadata file's and the real one's, that refer to each other, *)
(* and the application knows one of the ids.                               *)

Alone(E, h, a, k) ==
    /\ k \in DOMAIN a
    /\ h[E[k].fid] = [file |-> E[k].path,
                      kind |-> IF E[k].state = "OPEN" THEN "real" ELSE "meta"]
    /\ E[k].fid = k

Paired(E, h, a, k) ==
    /\ E[k].other # k /\ E[k].other \in DOMAIN E
    /\ E[E[k].other].other = k /\ E[E[k].other].path = E[k].path
    /\ k \in DOMAIN a <=> E[k].other \notin DOMAIN a
    /\ k \in DOMAIN a => E[k].state = "SIM" /\ E[k].fid = E[k].other
    /\ k \notin DOMAIN a => /\ E[k].state = "OPEN" /\ E[k].fid = k
                            /\ h[k] = [file |-> E[k].path, kind |-> "real"]

EntryOK(E, h, a, k) ==
    /\ k \in DOMAIN h /\ E[k].fid \in DOMAIN h
    /\ E[k].path \in ResultFile /\ E[k].state \in {"OPEN", "SIM"}
    /\ k \in DOMAIN a => a[k] = E[k].path
    /\ E[k].other = NoId => Alone(E, h, a, k)
    /\ E[k].other # NoId => Paired(E, h, a, k)

AllOK(E, h, a) ==
    /\ \A k \in DOMAIN E : EntryOK(E, h, a, k)
    /\ DOMAIN a \subseteq DOMAIN h
    /\ \A k \in DOMAIN a : a[k] # Other => k \in DOMAIN E

(* An entry stays in order while what it refers to does.                   *)
LEMMA EntryStays ==
    ASSUME NEW E, NEW h, NEW a, NEW E2, NEW h2, NEW a2, NEW k,
           EntryOK(E, h, a, k),
           E2[k] = E[k],
           E[k].other # NoId => E[k].other \in DOMAIN E2 /\ E2[E[k].other] = E[E[k].other],
           \A x \in {k, E[k].fid} : x \in DOMAIN h2 /\ h2[x] = h[x],
           \A x \in {k, E[k].fid, E[k].other} : x # NoId => (x \in DOMAIN a2 <=> x \in DOMAIN a),
           k # NoId, E[k].fid # NoId,
           k \in DOMAIN a2 => a2[k] = a[k]
    PROVE  EntryOK(E2, h2, a2, k)
<1>1. /\ k \in DOMAIN h2 /\ E2[k].fid \in DOMAIN h2
      /\ E2[k].path \in ResultFile /\ E2[k].state \in {"OPEN", "SIM"}
      /\ k \in DOMAIN a2 => a2[k] = E2[k].path
  BY DEF EntryOK
<1>2. E2[k].other = NoId => Alone(E2, h2, a2, k)
  BY DEF EntryOK, Alone
<1>3. E2[k].other # NoId => Paired(E2, h2, a2, k)
  BY DEF EntryOK, Paired
<1>4. QED  BY <1>1, <1>2, <1>3 DEF EntryOK

(* The ids an entry refers to are open handles.                            *)
LEMMA RefersToHandles ==
    ASSUME NEW E, NEW h \in Table(Id, HandleType), NEW a, AllOK(E, h, a),
           NEW k \in DOMAIN E
    PROVE  /\ k \in DOMAIN h /\ E[k].fid \in DOMAIN h /\ k # NoId /\ E[k].fid # NoId
           /\ E[k].other # NoId => E[k].other \in DOMAIN h /\ E[k].other \in DOMAIN E
<1>1. k \in DOMAIN h /\ E[k].fid \in DOMAIN h
  BY DEF AllOK, EntryOK
<1>2. E[k].other # NoId => E[k].other \in DOMAIN E
  BY DEF AllOK, EntryOK, Paired
<1>3. \A x \in DOMAIN h : x # NoId
  BY TableFacts, DVLibAssumption DEF NoId
<1>4. QED  BY <1>1, <1>2, <1>3 DEF AllOK, EntryOK

LEMMA PlainOpenKeeps ==
    ASSUME NEW E, NEW h \in Table(Id, HandleType), NEW a, AllOK(E, h, a),
           NEW id, id \notin DOMAIN h, NEW v
    PROVE  AllOK(E, assigned(h, id, v), assigned(a, id, Other))
<1> DEFINE h2 == assigned(h, id, v)
           a2 == assigned(a, id, Other)
<1>1. /\ DOMAIN h2 = DOMAIN h \cup {id} /\ \A x \in DOMAIN h : h2[x] = h[x]
      /\ DOMAIN a2 = DOMAIN a \cup {id} /\ a2[id] = Other
      /\ \A x \in DOMAIN a : x # id => a2[x] = a[x]
  BY DEF assigned
<1> HIDE DEF h2, a2
<1>2. DOMAIN a \subseteq DOMAIN h
  BY DEF AllOK
<1>3. ASSUME NEW k \in DOMAIN E PROVE EntryOK(E, h2, a2, k)
  <2>1. /\ k \in DOMAIN h /\ E[k].fid \in DOMAIN h /\ k # NoId /\ E[k].fid # NoId
        /\ E[k].other # NoId => E[k].other \in DOMAIN h /\ E[k].other \in DOMAIN E
    BY RefersToHandles
  <2>2. EntryOK(E, h, a, k)
    BY DEF AllOK
  <2>3. \A x \in {k, E[k].fid} : x \in DOMAIN h2 /\ h2[x] = h[x]
    BY <1>1, <2>1
  <2>4. \A x \in {k, E[k].fid, E[k].other} : x # NoId => (x \in DOMAIN a2 <=> x \in DOMAIN a)
    BY <1>1, <2>1
  <2>5. k \in DOMAIN a2 => a2[k] = a[k]
    BY <1>1, <2>1
  <2>6. QED  BY <2>1, <2>2, <2>3, <2>4, <2>5, EntryStays
<1>5. \A k \in DOMAIN a2 : a2[k] # Other => k \in DOMAIN E
  BY <1>1 DEF AllOK
<1>6. AllOK(E, h2, a2)
  BY <1>1, <1>2, <1>3, <1>5 DEF AllOK
<1>7. QED  BY <1>6 DEF h2, a2

LEMMA OpenKeeps ==
    ASSUME NEW E, NEW h \in Table(Id, HandleType), NEW a,
           AllOK(E, h, a),
           NEW id \in Id, id \notin DOMAIN h, NEW f \in ResultFile, NEW real \in BOOLEAN,
           NEW e, e.path = f, e.state = (IF real THEN "OPEN" ELSE "SIM"), e.fid = id, e.other = NoId
    PROVE  AllOK(assigned(E, id, e),
                 assigned(h, id, [file |-> f, kind |-> IF real THEN "real" ELSE "meta"]),
                 assigned(a, id, f))
<1> DEFINE v == [file |-> f, kind |-> IF real THEN "real" ELSE "meta"]
           E2 == assigned(E, id, e)
           h2 == assigned(h, id, v)
           a2 == assigned(a, id, f)
<1>1. /\ DOMAIN h2 = DOMAIN h \cup {id} /\ h2[id] = v /\ \A x \in DOMAIN h : h2[x] = h[x]
      /\ DOMAIN a2 = DOMAIN a \cup {id} /\ a2[id] = f /\ \A x \in DOMAIN a : x # id => a2[x] = a[x]
      /\ DOMAIN E2 = DOMAIN E \cup {id} /\ E2[id] = e /\ \A x \in DOMAIN E : x # id => E2[x] = E[x]
  BY DEF assigned
<1>2. DOMAIN a \subseteq DOMAIN h /\ \A k \in DOMAIN E : k \in DOMAIN h /\ E[k].fid \in DOMAIN h
  BY DEF AllOK, EntryOK
<1>3. id # NoId
  BY DVLibAssumption DEF NoId
<1> HIDE DEF h2, a2, E2
<1>4. ASSUME NEW k \in DOMAIN E PROVE EntryOK(E2, h2, a2, k)
  <2>1. /\ k \in DOMAIN h /\ E[k].fid \in DOMAIN h /\ k # NoId /\ E[k].fid # NoId
        /\ E[k].other # NoId => E[k].other \in DOMAIN h /\ E[k].other \in DOMAIN E
    BY RefersToHandles
  <2>2. EntryOK(E, h, a, k)
    BY DEF AllOK
  <2>3. \A x \in {k, E[k].fid} : x \in DOMAIN h2 /\ h2[x] = h[x]
    BY <1>1, <2>1
  <2>4. \A x \in {k, E[k].fid, E[k].other} : x # NoId => (x \in DOMAIN a2 <=> x \in DOMAIN a)
    BY <1>1, <2>1
  <2>5. k \in DOMAIN a2 => a2[k] = a[k]
    BY <1>1, <2>1
  <2>6. E2[k] = E[k]
    BY <1>1, <2>1
  <2>7. E[k].other # NoId => E[k].other \in DOMAIN E2 /\ E2[E[k].other] = E[E[k].other]
    BY <1>1, <2>1
  <2>8. QED  BY <2>1, <2>2, <2>3, <2>4, <2>5, <2>6, <2>7, EntryStays
<1>5. EntryOK(E2, h2, a2, id)
  <2>1. Alone(E2, h2, a2, id)
    BY <1>1 DEF Alone
  <2>2. /\ id \in DOMAIN h2 /\ E2[id].fid \in DOMAIN h2
        /\ E2[id].path \in ResultFile /\ E2[id].state \in {"OPEN", "SIM"}
        /\ id \in DOMAIN a2 => a2[id] = E2[id].path
    BY <1>1
  <2>4. E2[id].other = NoId
    BY <1>1
  <2>5. QED  BY <2>1, <2>2, <2>4 DEF EntryOK
<1>7. \A k \in DOMAIN a2 : a2[k] # Other => k \in DOMAIN E2
  BY <1>1 DEF AllOK
<1>9. AllOK(E2, h2, a2)
  BY <1>1, <1>2, <1>4, <1>5, <1>7 DEF AllOK
<1>10. QED  BY <1>9 DEF h2, a2, E2

(* HDF5: the real file has an entry of its own.                            *)
LEMMA ObjectOpenKeeps ==
    ASSUME NEW E \in Table(Id, EntryType), NEW h \in Table(Id, HandleType), NEW a,
           AllOK(E, h, a),
           NEW id \in Id, id \notin DOMAIN h, NEW k \in DOMAIN E, k \in DOMAIN a,
           E[k].state = "SIM", E[k].other = NoId,
           NEW e, e.path = E[k].path, e.state = "SIM", e.fid = id, e.other = id,
           NEW o, o.path = E[k].path, o.state = "OPEN", o.fid = id, o.other = k
    PROVE  AllOK(assigned(assigned(E, k, e), id, o),
                 assigned(h, id, [file |-> E[k].path, kind |-> "real"]), a)
<1> DEFINE v == [file |-> E[k].path, kind |-> "real"]
           E2 == assigned(assigned(E, k, e), id, o)
           h2 == assigned(h, id, v)
<1>1. DOMAIN a \subseteq DOMAIN h /\ \A l \in DOMAIN E : l \in DOMAIN h
  BY DEF AllOK, EntryOK
<1>2. k # id /\ id \notin DOMAIN E /\ id \notin DOMAIN a /\ k # NoId /\ id # NoId
  BY <1>1, DVLibAssumption, TableFacts DEF NoId
<1>3. /\ DOMAIN h2 = DOMAIN h \cup {id} /\ h2[id] = v /\ \A x \in DOMAIN h : h2[x] = h[x]
      /\ DOMAIN E2 = DOMAIN E \cup {id} /\ E2[id] = o /\ E2[k] = e
      /\ \A x \in DOMAIN E : x # k => E2[x] = E[x]
  BY <1>2 DEF assigned
<1> HIDE DEF h2, E2
<1>4. ASSUME NEW l \in DOMAIN E, l # k PROVE EntryOK(E2, h2, a, l)
  <2>1. /\ l \in DOMAIN h /\ E[l].fid \in DOMAIN h /\ l # NoId /\ E[l].fid # NoId
        /\ E[l].other # NoId => E[l].other \in DOMAIN h /\ E[l].other \in DOMAIN E
    BY RefersToHandles
  <2>2. EntryOK(E, h, a, l)
    BY DEF AllOK
  <2>3. \A x \in {l, E[l].fid} : x \in DOMAIN h2 /\ h2[x] = h[x]
    BY <1>3, <2>1
  <2>4. E2[l] = E[l]
    BY <1>3, <1>4
  <2>5. E[l].other # NoId => E[l].other \in DOMAIN E2 /\ E2[E[l].other] = E[E[l].other]
    <3> SUFFICES ASSUME E[l].other # NoId
                 PROVE  E[l].other \in DOMAIN E2 /\ E2[E[l].other] = E[E[l].other]
      OBVIOUS
    <3>1. E[E[l].other].other = l
      BY <2>2 DEF EntryOK, Paired
    <3>2. E[l].other # k
      BY <2>1, <3>1
    <3>3. QED  BY <1>3, <2>1, <3>2
  <2>6. QED  BY <2>1, <2>2, <2>3, <2>4, <2>5, EntryStays
<1>5. EntryOK(E, h, a, k)
  BY DEF AllOK
<1>6. EntryOK(E2, h2, a, k)
  <2>1. Paired(E2, h2, a, k)
    BY <1>2, <1>3 DEF Paired
  <2>2. k \in DOMAIN h2 /\ E2[k].fid \in DOMAIN h2 /\ E2[k].path \in ResultFile
    BY <1>1, <1>3, <1>5 DEF EntryOK
  <2>3. QED  BY <1>2, <1>3, <1>5, <2>1, <2>2 DEF EntryOK
<1>7. EntryOK(E2, h2, a, id)
  <2>1. Paired(E2, h2, a, id)
    BY <1>2, <1>3 DEF Paired
  <2>2. id \in DOMAIN h2 /\ E2[id].fid \in DOMAIN h2 /\ E2[id].path \in ResultFile
    BY <1>3, <1>5 DEF EntryOK
  <2>3. QED  BY <1>2, <1>3, <2>1, <2>2 DEF EntryOK
<1>8. \A x \in DOMAIN a : a[x] # Other => x \in DOMAIN E2
  BY <1>3 DEF AllOK
<1>9. AllOK(E2, h2, a)
  BY <1>1, <1>3, <1>4, <1>6, <1>7, <1>8 DEF AllOK
<1>10. QED  BY <1>9 DEF h2, E2

(* The close of a file DVLib does not track.                               *)
LEMMA PlainCloseKeeps ==
    ASSUME NEW E, NEW h \in Table(Id, HandleType), NEW a, AllOK(E, h, a),
           NEW k \in DOMAIN a, k \notin DOMAIN E
    PROVE  AllOK(E, Without(h, {k}), Without(a, {k}))
<1> DEFINE h2 == Without(h, {k})
           a2 == Without(a, {k})
<1>1. /\ DOMAIN h2 = DOMAIN h \ {k} /\ \A x \in DOMAIN h \ {k} : h2[x] = h[x]
      /\ DOMAIN a2 = DOMAIN a \ {k} /\ \A x \in DOMAIN a \ {k} : a2[x] = a[x]
  BY DEF Without, Restrict
<1> HIDE DEF h2, a2
<1>2. ASSUME NEW l \in DOMAIN E PROVE EntryOK(E, h2, a2, l) /\ E[l].fid # k
  <2>1. /\ l \in DOMAIN h /\ E[l].fid \in DOMAIN h /\ l # NoId /\ E[l].fid # NoId
        /\ E[l].other # NoId => E[l].other \in DOMAIN h /\ E[l].other \in DOMAIN E
    BY RefersToHandles
  <2>2. EntryOK(E, h, a, l)
    BY DEF AllOK
  <2>3. E[l].fid # k
    <3>1. CASE E[l].other = NoId
      BY <2>2, <3>1 DEF EntryOK, Alone
    <3>2. CASE E[l].other # NoId
      <4>1. E[l].fid \in {l, E[l].other}
        BY <2>2, <3>2 DEF EntryOK, Paired
      <4>2. QED  BY <2>1, <3>2, <4>1
    <3>3. QED  BY <3>1, <3>2
  <2>4. l # k /\ E[l].other # NoId => E[l].other # k
    BY <2>1
  <2>5. \A x \in {l, E[l].fid} : x \in DOMAIN h2 /\ h2[x] = h[x]
    BY <1>1, <2>1, <2>3
  <2>6. \A x \in {l, E[l].fid, E[l].other} : x # NoId => (x \in DOMAIN a2 <=> x \in DOMAIN a)
    BY <1>1, <2>1, <2>3, <2>4
  <2>7. l \in DOMAIN a2 => a2[l] = a[l]
    BY <1>1
  <2>8. EntryOK(E, h2, a2, l)
    BY <2>1, <2>2, <2>5, <2>6, <2>7, EntryStays
  <2>9. QED  BY <2>3, <2>8
<1>4. DOMAIN a2 \subseteq DOMAIN h2 /\ \A x \in DOMAIN a2 : a2[x] # Other => x \in DOMAIN E
  BY <1>1 DEF AllOK
<1>6. AllOK(E, h2, a2)
  BY <1>2, <1>4 DEF AllOK
<1>7. QED  BY <1>6 DEF h2, a2

(* HDF5: both entries of a file go, whichever of its ids is closed.        *)
LEMMA H5CloseKeeps ==
    ASSUME NEW E, NEW h \in Table(Id, HandleType), NEW a,
           AllOK(E, h, a), NEW k \in DOMAIN E,
           NEW ids, ids = {k} \cup ({E[k].other} \cap DOMAIN E)
    PROVE  /\ AllOK(Without(E, ids), Without(h, {k}), Without(a, ids))
           /\ \E i \in ids : ids \cap DOMAIN a = {i} /\ a[i] = E[k].path
<1> DEFINE E2 == Without(E, ids)
           h2 == Without(h, {k})
           a2 == Without(a, ids)
<1>1. /\ DOMAIN h2 = DOMAIN h \ {k} /\ \A x \in DOMAIN h \ {k} : h2[x] = h[x]
      /\ DOMAIN a2 = DOMAIN a \ ids /\ \A x \in DOMAIN a \ ids : a2[x] = a[x]
      /\ DOMAIN E2 = DOMAIN E \ ids /\ \A x \in DOMAIN E \ ids : E2[x] = E[x]
  BY DEF Without, Restrict
<1> HIDE DEF h2, a2, E2
<1>2. \A l \in DOMAIN E : EntryOK(E, h, a, l)
  BY DEF AllOK
<1>3. \A l \in DOMAIN E : /\ l \in DOMAIN h /\ E[l].fid \in DOMAIN h /\ l # NoId /\ E[l].fid # NoId
                          /\ E[l].other # NoId => E[l].other \in DOMAIN E
  BY RefersToHandles
<1>4. \A l \in DOMAIN E : E[l].fid = l \/ (E[l].other # NoId /\ E[l].fid = E[l].other)
  <2> SUFFICES ASSUME NEW l \in DOMAIN E
               PROVE  E[l].fid = l \/ (E[l].other # NoId /\ E[l].fid = E[l].other)
    OBVIOUS
  <2>1. CASE E[l].other = NoId
    BY <1>2, <2>1 DEF EntryOK, Alone
  <2>2. CASE E[l].other # NoId
    <3>1. Paired(E, h, a, l)
      BY <1>2, <2>2 DEF EntryOK
    <3>2. QED  BY <2>2, <3>1 DEF Paired
  <2>3. QED  BY <2>1, <2>2
<1>5. \A l \in DOMAIN E : E[l].other # NoId => E[E[l].other].other = l
  BY <1>2 DEF EntryOK, Paired
<1>6. ASSUME NEW l \in DOMAIN E, l \notin ids PROVE EntryOK(E2, h2, a2, l)
  <2>1. E[l].other # NoId => E[l].other \notin ids
    <3> SUFFICES ASSUME E[l].other # NoId, E[l].other \in ids PROVE FALSE
      OBVIOUS
    <3>1. E[l].other \in DOMAIN E /\ E[E[l].other].other = l
      BY <1>3, <1>5
    <3>2. CASE E[l].other = k
      BY <1>6, <3>1, <3>2
    <3>3. CASE E[l].other # k
      <4>1. E[l].other = E[k].other /\ E[k].other # NoId
        BY <3>3
      <4>2. E[E[k].other].other = k
        BY <1>5, <4>1
      <4>3. QED  BY <1>6, <3>1, <4>1, <4>2
    <3>4. QED  BY <3>2, <3>3
  <2>2. E[l].fid \notin ids
    BY <1>4, <1>6, <2>1
  <2>3. \A x \in {l, E[l].fid} : x \in DOMAIN h2 /\ h2[x] = h[x]
    BY <1>1, <1>3, <1>6, <2>2
  <2>4. \A x \in {l, E[l].fid, E[l].other} : x # NoId => (x \in DOMAIN a2 <=> x \in DOMAIN a)
    BY <1>1, <1>6, <2>1, <2>2
  <2>5. E2[l] = E[l] /\ (l \in DOMAIN a2 => a2[l] = a[l])
    BY <1>1, <1>6
  <2>6. E[l].other # NoId => E[l].other \in DOMAIN E2 /\ E2[E[l].other] = E[E[l].other]
    BY <1>1, <1>3, <2>1
  <2>7. EntryOK(E, h, a, l) /\ l # NoId /\ E[l].fid # NoId
    BY <1>2, <1>3
  <2>8. QED  BY <2>3, <2>4, <2>5, <2>6, <2>7, EntryStays
<1>7. DOMAIN a2 \subseteq DOMAIN h2 /\ \A x \in DOMAIN a2 : a2[x] # Other => x \in DOMAIN E2
  BY <1>1 DEF AllOK
<1>8. AllOK(E2, h2, a2)
  BY <1>1, <1>6, <1>7 DEF AllOK
<1>9. \E i \in ids : ids \cap DOMAIN a = {i} /\ a[i] = E[k].path
  <2>1. CASE E[k].other = NoId
    <3>1. ids = {k}
      BY <1>3, <2>1
    <3>2. k \in DOMAIN a /\ a[k] = E[k].path
      BY <1>2, <2>1 DEF EntryOK, Alone
    <3>3. QED  BY <3>1, <3>2
  <2>2. CASE E[k].other # NoId
    <3> DEFINE o == E[k].other
    <3>1. /\ o # k /\ o \in DOMAIN E /\ E[o].path = E[k].path
          /\ k \in DOMAIN a <=> o \notin DOMAIN a
      BY <1>2, <2>2 DEF EntryOK, Paired
    <3>2. ids = {k, o}
      BY <3>1
    <3>3. k \in DOMAIN a => a[k] = E[k].path
      BY <1>2 DEF EntryOK
    <3>4. o \in DOMAIN a => a[o] = E[k].path
      BY <1>2, <3>1 DEF EntryOK
    <3> HIDE DEF o
    <3>5. CASE k \in DOMAIN a
      BY <3>1, <3>2, <3>3, <3>5
    <3>6. CASE k \notin DOMAIN a
      BY <3>1, <3>2, <3>4, <3>6
    <3>7. QED  BY <3>5, <3>6
  <2>3. QED  BY <2>1, <2>2
<1>10. QED  BY <1>8, <1>9 DEF h2, a2, E2

-----------------------------------------------------------------------------
(* The netCDF bindings: b is the binding, U the entries in use of E, T the *)
(* index, h the handles, a the ids of the application and fl those that a  *)
(* call failed with.  An entry leads to the handle it is filed under, or   *)
(* that handle is one that the application has closed and the library not, *)
(* or the entry leads to the real data of its file under a handle of the   *)
(* library's own.                                                          *)

Gone(e, h, a) ==
    e.key \in DOMAIN h \ DOMAIN a /\ (h[e.key].kind = "meta" \/ h[e.key].file = Other)

Live(e, h, a) ==
    /\ e.state = "OPEN" /\ e.fid \in DOMAIN h \ DOMAIN a
    /\ h[e.fid] = [file |-> e.path, kind |-> "real"]

SlotOK(b, e, h, a) ==
    /\ e.path \in ResultFile /\ e.state \in {"OPEN", "SIM"} /\ e.other = NoId
    /\ e.state = "SIM" => e.fid = e.key
    /\ b = "netcdf" => e.meta \in {NoId, e.key}
    /\ b = "netcdf" /\ (e.state = "SIM" \/ e.fid # e.key) => e.meta = e.key /\ e.key # NoId
    /\ e.fid = e.key \/ Gone(e, h, a) \/ Live(e, h, a)

(* The entry that is found under an id of the application's for a result   *)
(* file is that of the file, unless a call failed with the id.             *)
TopOK(e, h, a, fl, k) ==
    /\ e.path = a[k] \/ (e.state = "OPEN" /\ e.fid = k /\ k \in fl)
    /\ e.state = "SIM" \/ e.fid # k => h[k].kind = "meta"
    /\ k \notin fl /\ e.state = "OPEN" /\ e.fid = k => h[k].kind = "real"

Distinct(U, E, h, a) ==
    \A i, j \in U : i # j /\ E[i].fid = E[j].fid =>
        \E l \in {i, j} : E[l].fid = E[l].key \/ Gone(E[l], h, a)

SlotsOK(b, U, E, T, h, a, fl) ==
    /\ \A i \in U : SlotOK(b, E[i], h, a)
    /\ Distinct(U, E, h, a)
    /\ DOMAIN a \subseteq DOMAIN h
    /\ \A k \in DOMAIN a :
          /\ h[k].file = a[k]
          /\ a[k] # Other => k \in DOMAIN T /\ TopOK(E[T[k]], h, a, fl, k)
    /\ b = "netcdf" => DOMAIN h \subseteq DOMAIN a \cup {E[i].fid : i \in U}

\* A handle that was not in use disturbs no entry, whoever gets it.
LEMMA NewHandleKeeps ==
    ASSUME NEW h, NEW a, NEW id, id \notin DOMAIN h, NEW h2, NEW a2,
           DOMAIN h2 = DOMAIN h \cup {id}, \A x \in DOMAIN h : h2[x] = h[x],
           DOMAIN a2 \in {DOMAIN a, DOMAIN a \cup {id}}, NEW e
    PROVE  /\ Gone(e, h, a) => Gone(e, h2, a2)
           /\ Live(e, h, a) => Live(e, h2, a2)
           /\ \A b : SlotOK(b, e, h, a) => SlotOK(b, e, h2, a2)
<1>1. Gone(e, h, a) => Gone(e, h2, a2)
  BY DEF Gone
<1>2. Live(e, h, a) => Live(e, h2, a2)
  BY DEF Live
<1>3. QED  BY <1>1, <1>2 DEF SlotOK

LEMMA NcPlainOpenKeeps ==
    ASSUME NEW b, NEW U, NEW E, NEW T, NEW h, NEW a, NEW fl,
           SlotsOK(b, U, E, T, h, a, fl), NEW id, id \notin DOMAIN h, NEW h2, NEW a2,
           DOMAIN h2 = DOMAIN h \cup {id}, \A x \in DOMAIN h : h2[x] = h[x],
           h2[id] = [file |-> Other, kind |-> "real"],
           DOMAIN a2 = DOMAIN a \cup {id}, a2[id] = Other,
           \A x \in DOMAIN a : x # id => a2[x] = a[x]
    PROVE  SlotsOK(b, U, E, T, h2, a2, fl)
<1>1. \A e : /\ Gone(e, h, a) => Gone(e, h2, a2)
             /\ SlotOK(b, e, h, a) => SlotOK(b, e, h2, a2)
  BY NewHandleKeeps
<1>2. \A i \in U : SlotOK(b, E[i], h2, a2)
  BY <1>1 DEF SlotsOK
<1>3. Distinct(U, E, h2, a2)
  BY <1>1 DEF SlotsOK, Distinct
<1>4. DOMAIN a \subseteq DOMAIN h /\ DOMAIN a2 \subseteq DOMAIN h2
  BY DEF SlotsOK
<1>5. \A k \in DOMAIN a2 :
          /\ h2[k].file = a2[k]
          /\ a2[k] # Other => k \in DOMAIN T /\ TopOK(E[T[k]], h2, a2, fl, k)
  <2> SUFFICES ASSUME NEW k \in DOMAIN a2
               PROVE  /\ h2[k].file = a2[k]
                      /\ a2[k] # Other => k \in DOMAIN T /\ TopOK(E[T[k]], h2, a2, fl, k)
    OBVIOUS
  <2>1. CASE k = id
    BY <2>1
  <2>2. CASE k # id
    <3>1. k \in DOMAIN a /\ a2[k] = a[k] /\ h2[k] = h[k]
      BY <1>4, <2>2
    <3>2. QED  BY <3>1 DEF SlotsOK, TopOK
  <2>3. QED  BY <2>1, <2>2
<1>6. b = "netcdf" => DOMAIN h2 \subseteq DOMAIN a2 \cup {E[i].fid : i \in U}
  BY DEF SlotsOK
<1>7. QED  BY <1>2, <1>3, <1>4, <1>5, <1>6 DEF SlotsOK

(* The open of f with the handle id: an entry i is filed under id.         *)
NcOpened(b, U, E, T, h, a, id, f, real, U2, E2, T2, h2, a2, i) ==
    /\ id \notin DOMAIN h /\ id # NoId /\ i \notin U
    /\ DOMAIN h2 = DOMAIN h \cup {id} /\ \A x \in DOMAIN h : h2[x] = h[x]
    /\ h2[id] = [file |-> f, kind |-> IF real THEN "real" ELSE "meta"]
    /\ DOMAIN a2 = DOMAIN a \cup {id} /\ a2[id] = f
    /\ \A x \in DOMAIN a : x # id => a2[x] = a[x]
    /\ U2 = U \cup {i} /\ \A j \in U : E2[j] = E[j]
    /\ E2[i].path = f /\ E2[i].state = (IF real THEN "OPEN" ELSE "SIM") /\ E2[i].key = id
    /\ E2[i].fid = id /\ E2[i].other = NoId
    /\ b = "netcdf" => E2[i].meta = IF real THEN NoId ELSE id
    /\ DOMAIN T2 = DOMAIN T \cup {id} /\ T2[id] = i
    /\ \A k \in DOMAIN T : k # id => T2[k] = T[k]

LEMMA NcOpenKeeps ==
    ASSUME NEW b, NEW U, NEW E, NEW T, NEW h, NEW a, NEW fl,
           SlotsOK(b, U, E, T, h, a, fl), Indexed(U, E, T), NEW id, NEW f \in ResultFile, NEW real \in BOOLEAN,
           NEW U2, NEW E2, NEW T2, NEW h2, NEW a2, NEW i,
           NcOpened(b, U, E, T, h, a, id, f, real, U2, E2, T2, h2, a2, i)
    PROVE  SlotsOK(b, U2, E2, T2, h2, a2, fl)
<1> USE DEF NcOpened
<1>1. \A e : /\ Gone(e, h, a) => Gone(e, h2, a2)
             /\ SlotOK(b, e, h, a) => SlotOK(b, e, h2, a2)
  BY NewHandleKeeps
<1>2. \A j \in U2 : SlotOK(b, E2[j], h2, a2)
  <2>1. \A j \in U : SlotOK(b, E2[j], h2, a2)
    BY <1>1 DEF SlotsOK
  <2>2. SlotOK(b, E2[i], h2, a2)
    BY DEF SlotOK
  <2>3. QED  BY <2>1, <2>2
<1>3. Distinct(U2, E2, h2, a2)
  <2>1. Distinct(U, E, h, a)
    BY DEF SlotsOK
  <2>2. E2[i].fid = E2[i].key
    OBVIOUS
  <2>3. QED  BY <1>1, <2>1, <2>2 DEF Distinct
<1>4. DOMAIN a \subseteq DOMAIN h /\ DOMAIN a2 \subseteq DOMAIN h2
  BY DEF SlotsOK
<1>5. \A k \in DOMAIN a2 :
          /\ h2[k].file = a2[k]
          /\ a2[k] # Other => k \in DOMAIN T2 /\ TopOK(E2[T2[k]], h2, a2, fl, k)
  <2> SUFFICES ASSUME NEW k \in DOMAIN a2
               PROVE  /\ h2[k].file = a2[k]
                      /\ a2[k] # Other => k \in DOMAIN T2 /\ TopOK(E2[T2[k]], h2, a2, fl, k)
    OBVIOUS
  <2>1. CASE k = id
    BY <2>1 DEF TopOK
  <2>2. CASE k # id
    <3>1. k \in DOMAIN a /\ a2[k] = a[k] /\ h2[k] = h[k]
      BY <1>4, <2>2
    <3>2. k \in DOMAIN T => T2[k] = T[k] /\ E2[T2[k]] = E[T[k]]
      BY <2>2 DEF Indexed
    <3>3. QED  BY <3>1, <3>2 DEF SlotsOK, TopOK
  <2>3. QED  BY <2>1, <2>2
<1>6. b = "netcdf" => DOMAIN h2 \subseteq DOMAIN a2 \cup {E2[j].fid : j \in U2}
  <2>1. {E[j].fid : j \in U} \subseteq {E2[j].fid : j \in U2}
    OBVIOUS
  <2>2. QED  BY <2>1 DEF SlotsOK
<1>7. QED  BY <1>2, <1>3, <1>4, <1>5, <1>6 DEF SlotsOK

(* An open of f that fails, with the id old in the variable.               *)
NcFiled(U, E, T, a, fl, f, old, U2, E2, T2, fl2, i) ==
    /\ i \notin U /\ U2 = U \cup {i} /\ \A j \in U : E2[j] = E[j]
    /\ E2[i].path = f /\ E2[i].state = "OPEN" /\ E2[i].key = old /\ E2[i].fid = old
    /\ E2[i].meta = NoId /\ E2[i].other = NoId
    /\ DOMAIN T2 = DOMAIN T \cup {old} /\ T2[old] = i
    /\ \A k \in DOMAIN T : k # old => T2[k] = T[k]
    /\ fl2 = fl \cup ({old} \cap DOMAIN a)

(* The entry of an open that failed hides what was found under the id.     *)
LEMMA NcOpenFailsKeeps ==
    ASSUME NEW b, NEW U, NEW E, NEW T, NEW h, NEW a, NEW fl,
           SlotsOK(b, U, E, T, h, a, fl), Indexed(U, E, T), NEW f \in ResultFile, NEW old, NEW U2, NEW E2, NEW T2,
           NEW fl2, NEW i,
           NcFiled(U, E, T, a, fl, f, old, U2, E2, T2, fl2, i)
    PROVE  SlotsOK(b, U2, E2, T2, h, a, fl2)
<1> USE DEF NcFiled
<1>1. \A j \in U2 : SlotOK(b, E2[j], h, a)
  <2>1. \A j \in U : SlotOK(b, E2[j], h, a)
    BY DEF SlotsOK
  <2>2. SlotOK(b, E2[i], h, a)
    BY DEF SlotOK
  <2>3. QED  BY <2>1, <2>2
<1>2. Distinct(U2, E2, h, a)
  <2>1. Distinct(U, E, h, a)
    BY DEF SlotsOK
  <2>2. E2[i].fid = E2[i].key
    OBVIOUS
  <2>3. QED  BY <2>1, <2>2 DEF Distinct
<1>3. \A k \in DOMAIN a :
          /\ h[k].file = a[k]
          /\ a[k] # Other => k \in DOMAIN T2 /\ TopOK(E2[T2[k]], h, a, fl2, k)
  <2> SUFFICES ASSUME NEW k \in DOMAIN a
               PROVE  /\ h[k].file = a[k]
                      /\ a[k] # Other => k \in DOMAIN T2 /\ TopOK(E2[T2[k]], h, a, fl2, k)
    OBVIOUS
  <2>1. h[k].file = a[k] /\ (a[k] # Other => k \in DOMAIN T /\ TopOK(E[T[k]], h, a, fl, k))
    BY DEF SlotsOK
  <2>2. CASE k = old
    BY <2>1, <2>2 DEF TopOK
  <2>3. CASE k # old
    <3>1. k \in DOMAIN T => T2[k] = T[k] /\ E2[T2[k]] = E[T[k]]
      BY <2>3 DEF Indexed
    <3>2. QED  BY <2>1, <3>1 DEF TopOK
  <2>4. QED  BY <2>2, <2>3
<1>4. b = "netcdf" => DOMAIN h \subseteq DOMAIN a \cup {E2[j].fid : j \in U2}
  <2>1. {E[j].fid : j \in U} \subseteq {E2[j].fid : j \in U2}
    OBVIOUS
  <2>2. QED  BY <2>1 DEF SlotsOK
<1>5. DOMAIN a \subseteq DOMAIN h
  BY DEF SlotsOK
<1>6. QED  BY <1>1, <1>2, <1>3, <1>4, <1>5 DEF SlotsOK

(* A get with the id k that has been waited for.                           *)
NcGot(U, E, T, h, k, fid, E2, h2) ==
    /\ k \in DOMAIN T /\ E[T[k]].state = "SIM"
    /\ \A j \in U \ {T[k]} : E2[j] = E[j]
    /\ E2[T[k]].path = E[T[k]].path /\ E2[T[k]].state = "OPEN"
    /\ E2[T[k]].key = E[T[k]].key /\ E2[T[k]].fid = fid
    /\ E2[T[k]].meta = E[T[k]].meta /\ E2[T[k]].other = E[T[k]].other
    /\ \A x \in DOMAIN h : h2[x] = h[x]

(* A get of a file that has been waited for opens the real file under a    *)
(* new handle.                                                             *)
LEMMA NcGetKeeps ==
    ASSUME NEW b, NEW U, NEW E, NEW T, NEW h, NEW a, NEW fl,
           SlotsOK(b, U, E, T, h, a, fl), Indexed(U, E, T), NEW id, id \notin DOMAIN h,
           NEW k \in DOMAIN a, NEW E2, NEW h2, NcGot(U, E, T, h, k, id, E2, h2),
           DOMAIN h2 = DOMAIN h \cup {id}, h2[id] = [file |-> E[T[k]].path, kind |-> "real"]
    PROVE  SlotsOK(b, U, E2, T, h2, a, fl)
<1> USE DEF NcGot
<1> DEFINE i == T[k]
<1>1. \A e : /\ Gone(e, h, a) => Gone(e, h2, a)
             /\ SlotOK(b, e, h, a) => SlotOK(b, e, h2, a)
  <2>1. \A e : Gone(e, h, a) => Gone(e, h2, a)
    BY DEF Gone
  <2>2. \A e : Live(e, h, a) => Live(e, h2, a)
    BY DEF Live
  <2>3. QED  BY <2>1, <2>2 DEF SlotOK
<1>2. i \in U /\ E[i].key = k /\ E[i].fid = k /\ SlotOK(b, E[i], h, a)
  BY DEF Indexed, SlotsOK, SlotOK
<1>3. DOMAIN a \subseteq DOMAIN h /\ id \notin DOMAIN a /\ k # id
  BY DEF SlotsOK
<1>4. \A j \in U : SlotOK(b, E2[j], h2, a)
  <2>1. \A j \in U \ {i} : SlotOK(b, E2[j], h2, a)
    BY <1>1 DEF SlotsOK
  <2>2. Live(E2[i], h2, a)
    BY <1>3 DEF Live
  <2>3. SlotOK(b, E2[i], h2, a)
    BY <1>2, <2>2 DEF SlotOK
  <2>4. QED  BY <2>1, <2>3
<1>5. Distinct(U, E2, h2, a)
  <2> SUFFICES ASSUME NEW j \in U, NEW l \in U, j # l, E2[j].fid = E2[l].fid
               PROVE  \E m \in {j, l} : E2[m].fid = E2[m].key \/ Gone(E2[m], h2, a)
    BY DEF Distinct
  <2>1. CASE j # i /\ l # i
    <3>1. \E m \in {j, l} : E[m].fid = E[m].key \/ Gone(E[m], h, a)
      BY <2>1 DEF SlotsOK, Distinct
    <3>2. QED  BY <1>1, <2>1, <3>1
  <2>2. ASSUME NEW m \in U \ {i}, E2[m].fid = id PROVE E2[m].fid = E2[m].key \/ Gone(E2[m], h2, a)
    <3>1. SlotOK(b, E[m], h, a) /\ E[m].fid = id /\ ~Live(E[m], h, a)
      BY <2>2 DEF SlotsOK, Live
    <3>2. E[m].fid = E[m].key \/ Gone(E[m], h, a)
      BY <3>1 DEF SlotOK
    <3>3. QED  BY <1>1, <3>2
  <2>3. QED  BY <2>1, <2>2
<1>6. \A x \in DOMAIN a :
          /\ h2[x].file = a[x]
          /\ a[x] # Other => x \in DOMAIN T /\ TopOK(E2[T[x]], h2, a, fl, x)
  <2> SUFFICES ASSUME NEW x \in DOMAIN a
               PROVE  /\ h2[x].file = a[x]
                      /\ a[x] # Other => x \in DOMAIN T /\ TopOK(E2[T[x]], h2, a, fl, x)
    OBVIOUS
  <2>1. /\ h[x].file = a[x] /\ h2[x] = h[x]
        /\ a[x] # Other => x \in DOMAIN T /\ TopOK(E[T[x]], h, a, fl, x)
    BY <1>3 DEF SlotsOK
  <2>2. CASE x = k
    BY <1>3, <2>1, <2>2 DEF TopOK
  <2>3. CASE x # k
    <3>1. x \in DOMAIN T => T[x] \in U \ {i}
      BY <1>2, <2>3 DEF Indexed
    <3>2. QED  BY <2>1, <3>1 DEF TopOK
  <2>4. QED  BY <2>2, <2>3
<1>7. b = "netcdf" => DOMAIN h2 \subseteq DOMAIN a \cup {E2[j].fid : j \in U}
  <2> SUFFICES ASSUME b = "netcdf", NEW x \in DOMAIN h2, x \notin DOMAIN a
               PROVE  \E j \in U : x = E2[j].fid
    OBVIOUS
  <2>1. CASE x = id
    BY <1>2, <2>1
  <2>2. CASE x # id
    <3>1. PICK j \in U : x = E[j].fid
      BY <2>2 DEF SlotsOK
    <3>2. j # i
      BY <1>2, <3>1
    <3>3. QED  BY <3>1, <3>2
  <2>3. QED  BY <2>1, <2>2
<1>8. QED  BY <1>3, <1>4, <1>5, <1>6, <1>7 DEF SlotsOK

(* The metadata file passes for the real one.                              *)
LEMMA NcGetFailsKeeps ==
    ASSUME NEW b, NEW U, NEW E, NEW T, NEW h, NEW a, NEW fl,
           SlotsOK(b, U, E, T, h, a, fl), Indexed(U, E, T), NEW k \in DOMAIN a, NEW E2,
           NcGot(U, E, T, h, k, E[T[k]].fid, E2, h), NEW fl2, fl2 = fl \cup {k}
    PROVE  SlotsOK(b, U, E2, T, h, a, fl2)
<1> USE DEF NcGot
<1> DEFINE i == T[k]
<1>1. i \in U /\ E[i].key = k /\ E[i].fid = k /\ SlotOK(b, E[i], h, a)
  BY DEF Indexed, SlotsOK, SlotOK
<1>2. \A j \in U : SlotOK(b, E2[j], h, a)
  <2>1. \A j \in U \ {i} : SlotOK(b, E2[j], h, a)
    BY DEF SlotsOK
  <2>2. SlotOK(b, E2[i], h, a)
    BY <1>1 DEF SlotOK
  <2>3. QED  BY <2>1, <2>2
<1>3. Distinct(U, E2, h, a)
  <2>1. Distinct(U, E, h, a)
    BY DEF SlotsOK
  <2>2. E2[i].fid = E2[i].key
    BY <1>1
  <2>3. QED  BY <2>1, <2>2 DEF Distinct
<1>4. \A x \in DOMAIN a :
          /\ h[x].file = a[x]
          /\ a[x] # Other => x \in DOMAIN T /\ TopOK(E2[T[x]], h, a, fl2, x)
  <2> SUFFICES ASSUME NEW x \in DOMAIN a
               PROVE  /\ h[x].file = a[x]
                      /\ a[x] # Other => x \in DOMAIN T /\ TopOK(E2[T[x]], h, a, fl2, x)
    OBVIOUS
  <2>1. /\ h[x].file = a[x]
        /\ a[x] # Other => x \in DOMAIN T /\ TopOK(E[T[x]], h, a, fl, x)
    BY DEF SlotsOK
  <2>2. CASE x = k
    BY <1>1, <2>1, <2>2 DEF TopOK
  <2>3. CASE x # k
    <3>1. x \in DOMAIN T => T[x] \in U \ {i}
      BY <1>1, <2>3 DEF Indexed
    <3>2. QED  BY <2>1, <2>3, <3>1 DEF TopOK
  <2>4. QED  BY <2>2, <2>3
<1>5. b = "netcdf" => DOMAIN h \subseteq DOMAIN a \cup {E2[j].fid : j \in U}
  <2>1. \A j \in U : E2[j].fid = E[j].fid
    BY <1>1
  <2>2. QED  BY <2>1 DEF SlotsOK
<1>6. DOMAIN a \subseteq DOMAIN h
  BY DEF SlotsOK
<1>7. QED  BY <1>2, <1>3, <1>4, <1>5, <1>6 DEF SlotsOK

(* The close of an id without an entry.                                    *)
LEMMA NcPlainCloseKeeps ==
    ASSUME NEW b, NEW U, NEW E, NEW T, NEW h, NEW a, NEW fl,
           SlotsOK(b, U, E, T, h, a, fl), NEW k \in DOMAIN a, k \notin DOMAIN T,
           NEW h2, NEW a2,
           DOMAIN h2 = DOMAIN h \ {k}, \A x \in DOMAIN h \ {k} : h2[x] = h[x],
           DOMAIN a2 = DOMAIN a \ {k}, \A x \in DOMAIN a \ {k} : a2[x] = a[x]
    PROVE  SlotsOK(b, U, E, T, h2, a2, fl)
<1>1. \A e : Gone(e, h, a) => Gone(e, h2, a2)
  BY DEF Gone
<1>2. \A e : Live(e, h, a) => Live(e, h2, a2)
  BY DEF Live
<1>3. \A i \in U : SlotOK(b, E[i], h2, a2)
  BY <1>1, <1>2 DEF SlotsOK, SlotOK
<1>4. Distinct(U, E, h2, a2)
  BY <1>1 DEF SlotsOK, Distinct
<1>5. \A x \in DOMAIN a2 :
          /\ h2[x].file = a2[x]
          /\ a2[x] # Other => x \in DOMAIN T /\ TopOK(E[T[x]], h2, a2, fl, x)
  <2> SUFFICES ASSUME NEW x \in DOMAIN a2
               PROVE  /\ h2[x].file = a2[x]
                      /\ a2[x] # Other => x \in DOMAIN T /\ TopOK(E[T[x]], h2, a2, fl, x)
    OBVIOUS
  <2>1. x \in DOMAIN a /\ a2[x] = a[x] /\ h2[x] = h[x]
    BY DEF SlotsOK
  <2>2. QED  BY <2>1 DEF SlotsOK, TopOK
<1>6. DOMAIN a2 \subseteq DOMAIN h2
  BY DEF SlotsOK
<1>7. b = "netcdf" => DOMAIN h2 \subseteq DOMAIN a2 \cup {E[i].fid : i \in U}
  BY DEF SlotsOK
<1>8. QED  BY <1>3, <1>4, <1>5, <1>6, <1>7 DEF SlotsOK

(* The close of k: C are the handles that the call closes, and the entry,  *)
(* given back or not, is the only one to change.                           *)
NcClosed(b, U, E, T, h, a, fl, k, C, U2, E2, T2, h2, a2, fl2) ==
    /\ k \in DOMAIN a /\ k \in DOMAIN T
    /\ C \subseteq {k, E[T[k]].fid} /\ E[T[k]].fid \in C
    /\ b = "netcdf" => k \in C
    /\ U2 \in {U, U \ {T[k]}}
    /\ T[k] \in U2 => (E[T[k]].fid = k \/ k \notin C)
    /\ \A j \in U2 : E2[j] = E[j]
    /\ \A x \in DOMAIN T \ {k} : x \in DOMAIN T2 /\ T2[x] = T[x]
    /\ DOMAIN h2 = DOMAIN h \ C /\ \A x \in DOMAIN h \ C : h2[x] = h[x]
    /\ DOMAIN a2 = DOMAIN a \ {k} /\ \A x \in DOMAIN a \ {k} : a2[x] = a[x]
    /\ fl2 = fl \ {k}

LEMMA NcCloseKeeps ==
    ASSUME NEW b, NEW U, NEW E, NEW T, NEW h, NEW a, NEW fl,
           SlotsOK(b, U, E, T, h, a, fl), Indexed(U, E, T), NEW k, NEW C,
           NEW U2, NEW E2, NEW T2, NEW h2, NEW a2, NEW fl2,
           NcClosed(b, U, E, T, h, a, fl, k, C, U2, E2, T2, h2, a2, fl2)
    PROVE  SlotsOK(b, U2, E2, T2, h2, a2, fl2)
<1> USE DEF NcClosed
<1> DEFINE i == T[k]
<1>1. /\ i \in U /\ E[i].key = k /\ SlotOK(b, E[i], h, a)
      /\ DOMAIN a \subseteq DOMAIN h /\ h[k].file = a[k]
      /\ a[k] # Other => TopOK(E[i], h, a, fl, k)
  BY DEF Indexed, SlotsOK
<1>2. ~Gone(E[i], h, a)
  BY <1>1 DEF Gone
<1>3. E[i].fid # k => E[i].fid \notin DOMAIN a /\ h[E[i].fid] = [file |-> E[i].path, kind |-> "real"]
  BY <1>1, <1>2 DEF SlotOK, Live
<1>4. \A e : Gone(e, h, a) => Gone(e, h2, a2)
  <2> SUFFICES ASSUME NEW e, Gone(e, h, a) PROVE Gone(e, h2, a2)
    OBVIOUS
  <2>1. e.key # k
    BY DEF Gone
  <2>2. e.key # E[i].fid
    <3>1. E[i].path # Other
      BY <1>1, DVLibAssumption DEF SlotOK
    <3>2. QED  BY <1>3, <2>1, <3>1 DEF Gone
  <2>3. e.key \notin C
    BY <2>1, <2>2
  <2>4. QED  BY <2>3 DEF Gone
<1>5. \A e : Live(e, h, a) /\ e.fid # E[i].fid => Live(e, h2, a2)
  BY DEF Live
<1>6. \A j \in U : j # i => SlotOK(b, E[j], h2, a2)
  <2> SUFFICES ASSUME NEW j \in U, j # i PROVE SlotOK(b, E[j], h2, a2)
    OBVIOUS
  <2>1. SlotOK(b, E[j], h, a)
    BY DEF SlotsOK
  <2>2. E[j].fid = E[j].key \/ Gone(E[j], h2, a2) \/ Live(E[j], h2, a2)
    <3> SUFFICES ASSUME E[j].fid # E[j].key, ~Gone(E[j], h, a), E[j].fid = E[i].fid PROVE FALSE
      BY <1>4, <1>5, <2>1 DEF SlotOK
    <3>1. Live(E[j], h, a)
      BY <2>1 DEF SlotOK
    <3>2. E[i].fid # k
      BY <3>1 DEF Live
    <3>3. \E l \in {i, j} : E[l].fid = E[l].key \/ Gone(E[l], h, a)
      BY <1>1 DEF SlotsOK, Distinct
    <3>4. QED  BY <1>1, <1>2, <3>2, <3>3
  <2>3. QED  BY <2>1, <2>2 DEF SlotOK
<1>7. i \in U2 => SlotOK(b, E[i], h2, a2) /\ (E[i].fid = k \/ Gone(E[i], h2, a2))
  <2> SUFFICES ASSUME i \in U2, E[i].fid # k PROVE Gone(E[i], h2, a2)
    BY <1>1 DEF SlotOK
  <2>1. k \notin C /\ k \in DOMAIN h2 /\ k \notin DOMAIN a2 /\ h2[k] = h[k]
    BY <1>1
  <2>2. h[k].kind = "meta" \/ h[k].file = Other
    BY <1>1 DEF TopOK
  <2>3. QED  BY <1>1, <2>1, <2>2 DEF Gone
<1>8. \A j \in U2 : SlotOK(b, E2[j], h2, a2)
  BY <1>6, <1>7
<1>9. Distinct(U2, E2, h2, a2)
  <2>1. Distinct(U, E, h, a) /\ U2 \subseteq U
    BY DEF SlotsOK
  <2>2. QED  BY <1>4, <2>1 DEF Distinct
<1>10. \A x \in DOMAIN a2 :
           /\ x \in DOMAIN h2 /\ h2[x].file = a2[x]
           /\ a2[x] # Other => x \in DOMAIN T2 /\ TopOK(E2[T2[x]], h2, a2, fl2, x)
  <2> SUFFICES ASSUME NEW x \in DOMAIN a2
               PROVE  /\ x \in DOMAIN h2 /\ h2[x].file = a2[x]
                      /\ a2[x] # Other => x \in DOMAIN T2 /\ TopOK(E2[T2[x]], h2, a2, fl2, x)
    OBVIOUS
  <2>1. x \in DOMAIN a /\ x # k /\ x \in DOMAIN h /\ a2[x] = a[x]
    BY <1>1
  <2>2. x \notin C
    BY <1>3, <2>1
  <2>3. h2[x] = h[x] /\ x \in DOMAIN h2
    BY <2>1, <2>2
  <2>4. x \in DOMAIN T => x \in DOMAIN T2 /\ T2[x] = T[x] /\ E2[T2[x]] = E[T[x]]
    BY <1>1, <2>1 DEF Indexed
  <2>5. h[x].file = a[x] /\ (a[x] # Other => x \in DOMAIN T /\ TopOK(E[T[x]], h, a, fl, x))
    BY <2>1 DEF SlotsOK
  <2>6. x \notin fl2 => x \notin fl
    BY <2>1
  <2>7. QED  BY <2>1, <2>3, <2>4, <2>5, <2>6 DEF TopOK
<1>11. b = "netcdf" => DOMAIN h2 \subseteq DOMAIN a2 \cup {E2[j].fid : j \in U2}
  <2> SUFFICES ASSUME b = "netcdf", NEW x \in DOMAIN h2, x \notin DOMAIN a2
               PROVE  \E j \in U2 : x = E2[j].fid
    OBVIOUS
  <2>1. x \in DOMAIN h /\ x \notin C /\ x # k /\ x \notin DOMAIN a
    OBVIOUS
  <2>2. PICK j \in U : x = E[j].fid
    BY <2>1 DEF SlotsOK
  <2>3. j # i
    BY <2>1, <2>2
  <2>4. QED  BY <2>2, <2>3
<1>12. QED  BY <1>8, <1>9, <1>10, <1>11 DEF SlotsOK

-----------------------------------------------------------------------------
(* The locks that a client of a netCDF binding can claim of a file: one    *)
(* for each entry of the file (with netCDF, that has a metadata file) and, *)
(* with netCDF, one for each of its ids that is the real file's handle.    *)

SlotClaims(b, U, E, f) == {i \in U : E[i].path = f /\ (b = "netcdf" => E[i].meta # NoId)}

IdClaims(b, h, a, f) ==
    {k \in DOMAIN a : b = "netcdf" /\ h[k] = [file |-> f, kind |-> "real"]}

Claimed(b, U, E, h, a, f) ==
    Cardinality(SlotClaims(b, U, E, f)) + Cardinality(IdClaims(b, h, a, f))

(* An id that is not the real file's handle has an entry of the file,      *)
(* whatever it is hidden by.                                               *)
Backed(b, U, E, h, a) ==
    \A k \in DOMAIN a : a[k] # Other /\ (b = "netcdf" => h[k].kind # "real") =>
        \E i \in U : /\ E[i].key = k /\ E[i].path = a[k]
                     /\ b = "netcdf" => E[i].meta # NoId

LEMMA SetAtMost ==
    ASSUME NEW S, IsFiniteSet(S), NEW R
    PROVE  /\ Cardinality(S) \in Nat
           /\ R \subseteq S => Cardinality(R) <= Cardinality(S) /\ Cardinality(R) \in Nat
           /\ \A x : R \subseteq S \cup {x} =>
                         Cardinality(R) <= Cardinality(S) + 1 /\ Cardinality(R) \in Nat
           /\ \A x \in S : R \subseteq S \ {x} =>
                         Cardinality(R) <= Cardinality(S) - 1 /\ Cardinality(R) \in Nat
<1>1. Cardinality(S) \in Nat
  BY FS_CardinalityType
<1>2. R \subseteq S => Cardinality(R) <= Cardinality(S) /\ Cardinality(R) \in Nat
  BY FS_Subset, FS_CardinalityType
<1>3. ASSUME NEW x, R \subseteq S \cup {x}
      PROVE  Cardinality(R) <= Cardinality(S) + 1 /\ Cardinality(R) \in Nat
  <2> DEFINE P == S \cup {x}
             c == Cardinality(S)
             p == Cardinality(P)
             r == Cardinality(R)
  <2>1. IsFiniteSet(P) /\ p = IF x \in S THEN c ELSE c + 1
    BY FS_AddElement
  <2>2. R \in SUBSET P
    BY <1>3
  <2> HIDE DEF P
  <2>3. IsFiniteSet(R) /\ r <= p
    BY <2>1, <2>2, FS_Subset
  <2>4. r \in Nat
    BY <2>3, FS_CardinalityType
  <2>5. c \in Nat
    BY <1>1
  <2> HIDE DEF c, p, r
  <2>6. r <= c + 1
    BY <2>1, <2>3, <2>4, <2>5
  <2>7. QED  BY <2>4, <2>6 DEF c, r
<1>4. ASSUME NEW x \in S, R \subseteq S \ {x}
      PROVE  Cardinality(R) <= Cardinality(S) - 1 /\ Cardinality(R) \in Nat
  <2> DEFINE P == S \ {x}
             p == Cardinality(P)
             r == Cardinality(R)
  <2>1. IsFiniteSet(P) /\ p = Cardinality(S) - 1
    BY FS_RemoveElement
  <2>2. R \in SUBSET P
    BY <1>4
  <2> HIDE DEF P
  <2>3. IsFiniteSet(R) /\ r <= p
    BY <2>1, <2>2, FS_Subset
  <2>4. r \in Nat
    BY <2>3, FS_CardinalityType
  <2>5. QED  BY <2>1, <2>3, <2>4
<1>5. QED  BY <1>1, <1>2, <1>3, <1>4

LEMMA ClaimsFinite ==
    ASSUME NEW b, NEW U \in SUBSET Slot, NEW E, NEW h, NEW a, IsFiniteSet(DOMAIN a), NEW f
    PROVE  /\ IsFiniteSet(SlotClaims(b, U, E, f)) /\ IsFiniteSet(IdClaims(b, h, a, f))
           /\ Cardinality(SlotClaims(b, U, E, f)) \in Nat
           /\ Cardinality(IdClaims(b, h, a, f)) \in Nat /\ Claimed(b, U, E, h, a, f) \in Nat
<1>1. IsFiniteSet(Slot)
  BY DVLibAssumption, FS_Interval DEF Slot
<1>2. SlotClaims(b, U, E, f) \in SUBSET Slot
  BY DEF SlotClaims
<1>3. IsFiniteSet(SlotClaims(b, U, E, f))
  BY <1>1, <1>2, FS_Subset
<1>4. IdClaims(b, h, a, f) \in SUBSET DOMAIN a
  BY DEF IdClaims
<1>5. IsFiniteSet(IdClaims(b, h, a, f))
  BY <1>4, FS_Subset
<1>6. Cardinality(SlotClaims(b, U, E, f)) \in Nat /\ Cardinality(IdClaims(b, h, a, f)) \in Nat
  BY <1>3, <1>5, FS_CardinalityType
<1>7. QED  BY <1>3, <1>5, <1>6 DEF Claimed

(* Claims change by what is added to, or taken from, one of the two sets.  *)
Within(R, S) == R \subseteq S
WithOne(R, S) == \E x : R \subseteq S \cup {x}
LessOne(R, S) == \E x \in S : R \subseteq S \ {x}

LEMMA ClaimsChange ==
    ASSUME NEW b, NEW U \in SUBSET Slot, NEW E, NEW h, NEW a, IsFiniteSet(DOMAIN a), NEW f,
           NEW U2, NEW E2, NEW h2, NEW a2
    PROVE  LET S == SlotClaims(b, U, E, f)
               S2 == SlotClaims(b, U2, E2, f)
               I == IdClaims(b, h, a, f)
               I2 == IdClaims(b, h2, a2, f)
               c == Claimed(b, U, E, h, a, f)
               c2 == Claimed(b, U2, E2, h2, a2, f)
           IN  /\ Within(S2, S) /\ Within(I2, I) => c2 <= c
               /\ WithOne(S2, S) /\ Within(I2, I) => c2 <= c + 1
               /\ Within(S2, S) /\ WithOne(I2, I) => c2 <= c + 1
               /\ LessOne(S2, S) /\ Within(I2, I) => c2 <= c - 1
               /\ Within(S2, S) /\ LessOne(I2, I) => c2 <= c - 1
<1> DEFINE S == SlotClaims(b, U, E, f)
           S2 == SlotClaims(b, U2, E2, f)
           I == IdClaims(b, h, a, f)
           I2 == IdClaims(b, h2, a2, f)
<1> DEFINE s == Cardinality(S)
           s2 == Cardinality(S2)
           i == Cardinality(I)
           i2 == Cardinality(I2)
<1>1. IsFiniteSet(S) /\ IsFiniteSet(I)
  BY ClaimsFinite
<1>2. Claimed(b, U, E, h, a, f) = s + i /\ Claimed(b, U2, E2, h2, a2, f) = s2 + i2
  BY DEF Claimed
<1> HIDE DEF S, S2, I, I2
<1>3. s \in Nat /\ i \in Nat
  BY <1>1, FS_CardinalityType
<1>4. /\ S2 \subseteq S => s2 <= s /\ s2 \in Nat
      /\ (\E x : S2 \subseteq S \cup {x}) => s2 <= s + 1 /\ s2 \in Nat
      /\ (\E x \in S : S2 \subseteq S \ {x}) => s2 <= s - 1 /\ s2 \in Nat
  BY <1>1, SetAtMost
<1>5. /\ I2 \subseteq I => i2 <= i /\ i2 \in Nat
      /\ (\E x : I2 \subseteq I \cup {x}) => i2 <= i + 1 /\ i2 \in Nat
      /\ (\E x \in I : I2 \subseteq I \ {x}) => i2 <= i - 1 /\ i2 \in Nat
  BY <1>1, SetAtMost
<1> DEFINE A0 == Within(S2, S)
           A1 == WithOne(S2, S)
           A2 == LessOne(S2, S)
           B0 == Within(I2, I)
           B1 == WithOne(I2, I)
           B2 == LessOne(I2, I)
<1> HIDE DEF s, s2, i, i2, A0, A1, A2, B0, B1, B2
<1>6. /\ A0 => s2 <= s /\ s2 \in Nat
      /\ A1 => s2 <= s + 1 /\ s2 \in Nat
      /\ A2 => s2 <= s - 1 /\ s2 \in Nat
      /\ B0 => i2 <= i /\ i2 \in Nat
      /\ B1 => i2 <= i + 1 /\ i2 \in Nat
      /\ B2 => i2 <= i - 1 /\ i2 \in Nat
  BY <1>4, <1>5 DEF A0, A1, A2, B0, B1, B2, Within, WithOne, LessOne
<1>7. /\ A0 /\ B0 => s2 + i2 <= s + i
      /\ A1 /\ B0 => s2 + i2 <= s + i + 1
      /\ A0 /\ B1 => s2 + i2 <= s + i + 1
      /\ A2 /\ B0 => s2 + i2 <= s + i - 1
      /\ A0 /\ B2 => s2 + i2 <= s + i - 1
  BY <1>3, <1>6
<1> DEFINE c == Claimed(b, U, E, h, a, f)
           c2 == Claimed(b, U2, E2, h2, a2, f)
<1>8. s + i = c /\ s2 + i2 = c2
  BY <1>2
<1> HIDE DEF c, c2
<1>9. ASSUME A0, B0 PROVE c2 <= c
  BY <1>7, <1>8, <1>9
<1>10. ASSUME A1, B0 PROVE c2 <= c + 1
  <2>1. s2 + i2 <= s + i + 1
    BY <1>7, <1>10
  <2>2. QED  BY <2>1, <1>8, Zenon
<1>11. ASSUME A0, B1 PROVE c2 <= c + 1
  <2>1. s2 + i2 <= s + i + 1
    BY <1>7, <1>11
  <2>2. QED  BY <2>1, <1>8, Zenon
<1>12. ASSUME A2, B0 PROVE c2 <= c - 1
  <2>1. s2 + i2 <= (s + i) - 1
    BY <1>3, <1>6, <1>12
  <2>2. QED  BY <2>1, <1>8, Zenon
<1>13. ASSUME A0, B2 PROVE c2 <= c - 1
  <2>1. s2 + i2 <= (s + i) - 1
    BY <1>3, <1>6, <1>13
  <2>2. QED  BY <2>1, <1>8, Zenon
<1>14. QED  BY <1>9, <1>10, <1>11, <1>12, <1>13 DEF A0, A1, A2, B0, B1, B2, c, c2, S, S2, I, I2

(* Every file is locked as often as it can be claimed.                     *)
LocksCover(b, U, E, h, a, l) ==
    /\ Backed(b, U, E, h, a)
    /\ \A f \in ResultFile : Claimed(b, U, E, h, a, f) <= l[f]

(* S and I become S2 and I2, with n locks for them that become n2.         *)
Fewer(S, S2, I, I2, n, n2) ==
    /\ Within(S2, S) /\ Within(I2, I)
    /\ \/ n2 >= n
       \/ n2 >= n - 1 /\ (LessOne(S2, S) \/ LessOne(I2, I))

(* The locks still cover the claims if none is added.                      *)
LEMMA FewerClaims ==
    ASSUME NEW b, NEW U \in SUBSET Slot, NEW E, NEW h, NEW a, IsFiniteSet(DOMAIN a),
           NEW l \in [File -> Nat],
           LocksCover(b, U, E, h, a, l), NEW U2 \in SUBSET Slot, NEW E2, NEW h2, NEW a2,
           IsFiniteSet(DOMAIN a2), NEW l2 \in [File -> Nat], Backed(b, U2, E2, h2, a2),
           \A f \in ResultFile : Fewer(SlotClaims(b, U, E, f), SlotClaims(b, U2, E2, f),
                                       IdClaims(b, h, a, f), IdClaims(b, h2, a2, f), l[f], l2[f])
    PROVE  LocksCover(b, U2, E2, h2, a2, l2)
<1> SUFFICES ASSUME NEW f \in ResultFile PROVE Claimed(b, U2, E2, h2, a2, f) <= l2[f]
  BY DEF LocksCover
<1> DEFINE c == Claimed(b, U, E, h, a, f)
           c2 == Claimed(b, U2, E2, h2, a2, f)
           n == l[f]
           n2 == l2[f]
<1>1. c <= n
  BY DEF LocksCover
<1>2. c \in Nat /\ c2 \in Nat
  BY ClaimsFinite
<1>3. n \in Nat /\ n2 \in Nat
  BY DEF File
<1>4. \/ n2 >= n /\ c2 <= c
      \/ n2 >= n - 1 /\ c2 <= c - 1
  BY ClaimsChange DEF Fewer
<1> HIDE DEF c, c2, n, n2
<1>5. c2 <= n2
  BY <1>1, <1>2, <1>3, <1>4
<1>6. QED  BY <1>5 DEF c2, n2

LEMMA PlainOpenClaims ==
    ASSUME NEW b, NEW U \in SUBSET Slot, NEW E, NEW h, NEW a, IsFiniteSet(DOMAIN a),
           NEW l \in [File -> Nat],
           LocksCover(b, U, E, h, a, l), DOMAIN a \subseteq DOMAIN h, NEW id, id \notin DOMAIN h,
           NEW h2, NEW a2, DOMAIN h2 = DOMAIN h \cup {id}, \A x \in DOMAIN h : h2[x] = h[x],
           h2[id] = [file |-> Other, kind |-> "real"],
           DOMAIN a2 = DOMAIN a \cup {id}, a2[id] = Other,
           \A x \in DOMAIN a : x # id => a2[x] = a[x]
    PROVE  LocksCover(b, U, E, h2, a2, l)
<1>1. Backed(b, U, E, h2, a2)
  BY DEF Backed, LocksCover
<1>2. IsFiniteSet(DOMAIN a2)
  BY FS_AddElement
<1>3. ASSUME NEW f \in ResultFile
      PROVE  IdClaims(b, h2, a2, f) \subseteq IdClaims(b, h, a, f)
  <2>1. f # Other
    BY DVLibAssumption
  <2>2. QED  BY <2>1 DEF IdClaims
<1>4. \A f \in ResultFile : l[f] >= l[f]
  BY DEF File
<1>5. ASSUME NEW f \in ResultFile
      PROVE  Fewer(SlotClaims(b, U, E, f), SlotClaims(b, U, E, f),
                   IdClaims(b, h, a, f), IdClaims(b, h2, a2, f), l[f], l[f])
  BY <1>3, <1>4 DEF Fewer, Within
<1>6. QED  BY <1>1, <1>2, <1>5, FewerClaims

\* One more lock of f.
OneMore(l, l2, f) == \A g \in ResultFile : l2[g] = IF g = f THEN l[g] + 1 ELSE l[g]

(* An entry and an id that are added claim the file once between them.     *)
LEMMA OpenClaims ==
    ASSUME NEW b, NEW U \in SUBSET Slot, NEW E, NEW T, NEW h, NEW a, IsFiniteSet(DOMAIN a),
           NEW l \in [File -> Nat], LocksCover(b, U, E, h, a, l), DOMAIN a \subseteq DOMAIN h,
           NEW id, NEW f \in ResultFile, NEW real \in BOOLEAN,
           NEW U2, NEW E2, NEW T2, NEW h2, NEW a2, NEW i \in Slot,
           NcOpened(b, U, E, T, h, a, id, f, real, U2, E2, T2, h2, a2, i),
           NEW l2, OneMore(l, l2, f)
    PROVE  LocksCover(b, U2, E2, h2, a2, l2)
<1> USE DEF NcOpened
<1>1. Backed(b, U2, E2, h2, a2)
  <2> SUFFICES ASSUME NEW k \in DOMAIN a2, a2[k] # Other, b = "netcdf" => h2[k].kind # "real"
               PROVE  \E j \in U2 : /\ E2[j].key = k /\ E2[j].path = a2[k]
                                    /\ b = "netcdf" => E2[j].meta # NoId
    BY DEF Backed
  <2>1. CASE k = id
    <3>1. b = "netcdf" => ~real
      BY <2>1
    <3>2. QED  BY <2>1, <3>1
  <2>2. CASE k # id
    BY <2>2 DEF Backed, LocksCover
  <2>3. QED  BY <2>1, <2>2
<1> SUFFICES ASSUME NEW g \in ResultFile
             PROVE  Claimed(b, U2, E2, h2, a2, g) <= l2[g]
  BY <1>1 DEF LocksCover
<1>2. Claimed(b, U, E, h, a, g) <= l[g]
  BY DEF LocksCover
<1>3. U2 \in SUBSET Slot /\ IsFiniteSet(DOMAIN a2)
  BY FS_AddElement
<1>4. Claimed(b, U, E, h, a, g) \in Nat /\ Claimed(b, U2, E2, h2, a2, g) \in Nat
  BY <1>3, ClaimsFinite
<1>5. l[g] \in Nat /\ g \in File /\ f \in File
  BY DEF File
<1>6. \/ /\ SlotClaims(b, U2, E2, g) \subseteq SlotClaims(b, U, E, g)
         /\ IdClaims(b, h2, a2, g) \subseteq IdClaims(b, h, a, g) \cup {id}
      \/ /\ SlotClaims(b, U2, E2, g) \subseteq SlotClaims(b, U, E, g) \cup {i}
         /\ IdClaims(b, h2, a2, g) \subseteq IdClaims(b, h, a, g)
  <2>1. CASE b = "netcdf" /\ real
    <3>1. SlotClaims(b, U2, E2, g) \subseteq SlotClaims(b, U, E, g)
      BY <2>1 DEF SlotClaims
    <3>2. IdClaims(b, h2, a2, g) \subseteq IdClaims(b, h, a, g) \cup {id}
      BY DEF IdClaims
    <3>3. QED  BY <3>1, <3>2
  <2>2. CASE ~(b = "netcdf" /\ real)
    <3>1. SlotClaims(b, U2, E2, g) \subseteq SlotClaims(b, U, E, g) \cup {i}
      BY DEF SlotClaims
    <3>2. IdClaims(b, h2, a2, g) \subseteq IdClaims(b, h, a, g)
      <4>1. b = "netcdf" => h2[id].kind # "real"
        BY <2>2
      <4>2. QED  BY <4>1 DEF IdClaims
    <3>3. QED  BY <3>1, <3>2
  <2>3. QED  BY <2>1, <2>2
<1>7. g # f => /\ SlotClaims(b, U2, E2, g) \subseteq SlotClaims(b, U, E, g)
               /\ IdClaims(b, h2, a2, g) \subseteq IdClaims(b, h, a, g)
  BY DEF SlotClaims, IdClaims
<1> DEFINE c == Claimed(b, U, E, h, a, g)
           c2 == Claimed(b, U2, E2, h2, a2, g)
           n == l[g]
           n2 == l2[g]
<1>8. c2 <= c + 1 /\ (g # f => c2 <= c)
  <2>1. \/ /\ Within(SlotClaims(b, U2, E2, g), SlotClaims(b, U, E, g))
           /\ WithOne(IdClaims(b, h2, a2, g), IdClaims(b, h, a, g))
        \/ /\ WithOne(SlotClaims(b, U2, E2, g), SlotClaims(b, U, E, g))
           /\ Within(IdClaims(b, h2, a2, g), IdClaims(b, h, a, g))
    BY <1>6 DEF Within, WithOne
  <2>2. c2 <= c + 1
    BY <2>1, ClaimsChange
  <2>3. g # f => /\ Within(SlotClaims(b, U2, E2, g), SlotClaims(b, U, E, g))
                 /\ Within(IdClaims(b, h2, a2, g), IdClaims(b, h, a, g))
    BY <1>7 DEF Within
  <2>4. g # f => c2 <= c
    BY <2>3, ClaimsChange
  <2>5. QED  BY <2>2, <2>4
<1>9. n2 = IF g = f THEN n + 1 ELSE n
  BY <1>5 DEF OneMore
<1>10. c \in Nat /\ c2 \in Nat /\ n \in Nat /\ c <= n
  BY <1>2, <1>4, <1>5
<1> HIDE DEF c, c2, n, n2
<1>11. c2 <= n2
  BY <1>8, <1>9, <1>10
<1>12. QED  BY <1>11 DEF c2, n2

(* The entry of an open that failed claims what no close will give back.   *)
LEMMA OpenFailsClaims ==
    ASSUME NEW b, NEW U \in SUBSET Slot, NEW E, NEW T, NEW h, NEW a, NEW fl,
           IsFiniteSet(DOMAIN a), NEW l \in [File -> Nat], LocksCover(b, U, E, h, a, l),
           NEW f \in ResultFile, NEW old, NEW U2, NEW E2, NEW T2,
           NEW fl2, NEW i \in Slot,
           NcFiled(U, E, T, a, fl, f, old, U2, E2, T2, fl2, i),
           NEW l2, OneMore(l, l2, f)
    PROVE  LocksCover(b, U2, E2, h, a, l2)
<1> USE DEF NcFiled
<1>1. Backed(b, U2, E2, h, a)
  BY DEF Backed, LocksCover
<1> SUFFICES ASSUME NEW g \in ResultFile
             PROVE  Claimed(b, U2, E2, h, a, g) <= l2[g]
  BY <1>1 DEF LocksCover
<1>2. Claimed(b, U, E, h, a, g) <= l[g]
  BY DEF LocksCover
<1>3. U2 \in SUBSET Slot
  OBVIOUS
<1>4. Claimed(b, U, E, h, a, g) \in Nat /\ Claimed(b, U2, E2, h, a, g) \in Nat
  BY <1>3, ClaimsFinite
<1>5. l[g] \in Nat /\ g \in File /\ f \in File
  BY DEF File
<1>6. /\ SlotClaims(b, U2, E2, g) \subseteq SlotClaims(b, U, E, g) \cup {i}
      /\ g # f => SlotClaims(b, U2, E2, g) \subseteq SlotClaims(b, U, E, g)
  BY DEF SlotClaims
<1> DEFINE c == Claimed(b, U, E, h, a, g)
           c2 == Claimed(b, U2, E2, h, a, g)
           n == l[g]
           n2 == l2[g]
<1>7. /\ WithOne(SlotClaims(b, U2, E2, g), SlotClaims(b, U, E, g))
      /\ g # f => Within(SlotClaims(b, U2, E2, g), SlotClaims(b, U, E, g))
      /\ Within(IdClaims(b, h, a, g), IdClaims(b, h, a, g))
  BY <1>6 DEF Within, WithOne
<1>8. c2 <= c + 1 /\ (g # f => c2 <= c)
  BY <1>7, ClaimsChange
<1>9. n2 = IF g = f THEN n + 1 ELSE n
  BY <1>5 DEF OneMore
<1>10. c \in Nat /\ c2 \in Nat /\ n \in Nat /\ c <= n
  BY <1>2, <1>4, <1>5
<1> HIDE DEF c, c2, n, n2
<1>11. c2 <= n2
  BY <1>8, <1>9, <1>10
<1>12. QED  BY <1>11 DEF c2, n2

(* A get changes no claim.                                                 *)
LEMMA GetClaims ==
    ASSUME NEW b, NEW U \in SUBSET Slot, NEW E, NEW T, NEW h, NEW a, IsFiniteSet(DOMAIN a),
           NEW l \in [File -> Nat], LocksCover(b, U, E, h, a, l), DOMAIN a \subseteq DOMAIN h,
           NEW k, NEW fid, NEW E2, NEW h2, NcGot(U, E, T, h, k, fid, E2, h2)
    PROVE  LocksCover(b, U, E2, h2, a, l)
<1>0. /\ \A x \in DOMAIN h : h2[x] = h[x]
      /\ \A j \in U : /\ E2[j].path = E[j].path /\ E2[j].meta = E[j].meta
                      /\ E2[j].key = E[j].key
  BY DEF NcGot
<1>1. Backed(b, U, E2, h2, a)
  BY <1>0 DEF Backed, LocksCover
<1>2. ASSUME NEW f \in ResultFile
      PROVE  /\ SlotClaims(b, U, E2, f) \subseteq SlotClaims(b, U, E, f)
             /\ IdClaims(b, h2, a, f) \subseteq IdClaims(b, h, a, f)
  BY <1>0 DEF SlotClaims, IdClaims
<1>3. \A f \in ResultFile : l[f] >= l[f]
  BY DEF File
<1>4. ASSUME NEW f \in ResultFile
      PROVE  Fewer(SlotClaims(b, U, E, f), SlotClaims(b, U, E2, f),
                   IdClaims(b, h, a, f), IdClaims(b, h2, a, f), l[f], l[f])
  BY <1>2, <1>3 DEF Fewer, Within
<1>5. QED  BY <1>1, <1>4, FewerClaims

(* The claim that a close gives up is the entry's or the id's.             *)
Released(b, U, E, T, h, a, k, U2, l, l2) ==
    \A g \in ResultFile :
        \/ l2[g] >= l[g]
        \/ /\ l2[g] >= l[g] - 1
           /\ \/ k \in IdClaims(b, h, a, g)
              \/ U2 = U \ {T[k]} /\ T[k] \in SlotClaims(b, U, E, g)

LEMMA CloseClaims ==
    ASSUME NEW b, NEW U \in SUBSET Slot, NEW E, NEW T, NEW h, NEW a, NEW fl,
           IsFiniteSet(DOMAIN a), NEW l \in [File -> Nat], NEW l2 \in [File -> Nat],
           LocksCover(b, U, E, h, a, l), SlotsOK(b, U, E, T, h, a, fl), Indexed(U, E, T),
           NEW k, NEW C, NEW U2, NEW E2, NEW T2, NEW h2, NEW a2, NEW fl2,
           NcClosed(b, U, E, T, h, a, fl, k, C, U2, E2, T2, h2, a2, fl2),
           Released(b, U, E, T, h, a, k, U2, l, l2)
    PROVE  LocksCover(b, U2, E2, h2, a2, l2)
<1> DEFINE i == T[k]
<1>0. /\ U2 \in SUBSET U /\ \A j \in U2 : E2[j] = E[j]
      /\ \A j \in U \ U2 : E[j].key = k
      /\ DOMAIN a2 = DOMAIN a \ {k} /\ \A x \in DOMAIN a \ {k} : a2[x] = a[x] /\ h2[x] = h[x]
  <2>1. k \in DOMAIN a /\ i \in U /\ E[i].key = k /\ SlotOK(b, E[i], h, a)
    BY DEF NcClosed, Indexed, SlotsOK
  <2>2. E[i].fid = k \/ E[i].fid \notin DOMAIN a
    BY <2>1 DEF SlotOK, Gone, Live
  <2>3. \A x \in DOMAIN a \ {k} : x \in DOMAIN h /\ x \notin C
    BY <2>2 DEF NcClosed, SlotsOK
  <2>4. QED  BY <2>1, <2>3 DEF NcClosed
<1>1. Backed(b, U2, E2, h2, a2)
  BY <1>0 DEF Backed, LocksCover
<1>2. IsFiniteSet(DOMAIN a2) /\ U2 \in SUBSET Slot
  BY <1>0, FS_RemoveElement
<1>3. ASSUME NEW g \in ResultFile
      PROVE  /\ SlotClaims(b, U2, E2, g) \subseteq SlotClaims(b, U, E, g)
             /\ IdClaims(b, h2, a2, g) \subseteq IdClaims(b, h, a, g)
             /\ k \in IdClaims(b, h, a, g) =>
                    IdClaims(b, h2, a2, g) \subseteq IdClaims(b, h, a, g) \ {k}
             /\ U2 = U \ {i} => SlotClaims(b, U2, E2, g) \subseteq SlotClaims(b, U, E, g) \ {i}
  BY <1>0 DEF SlotClaims, IdClaims
<1>4. ASSUME NEW f \in ResultFile
      PROVE  Fewer(SlotClaims(b, U, E, f), SlotClaims(b, U2, E2, f),
                   IdClaims(b, h, a, f), IdClaims(b, h2, a2, f), l[f], l2[f])
  BY <1>3 DEF Fewer, Within, LessOne, Released
<1>5. QED  BY <1>1, <1>2, <1>4, FewerClaims

-----------------------------------------------------------------------------
\* The files the application has open, counted.

Opens(a, f) == {k \in DOMAIN a : a[k] = f}

LEMMA OpensAssigned ==
    ASSUME NEW a, IsFiniteSet(DOMAIN a), NEW id, id \notin DOMAIN a, NEW v
    PROVE  /\ IsFiniteSet(DOMAIN assigned(a, id, v))
           /\ \A f : /\ Cardinality(Opens(a, f)) \in Nat
                     /\ Cardinality(Opens(assigned(a, id, v), f)) =
                            Cardinality(Opens(a, f)) + (IF f = v THEN 1 ELSE 0)
<1> DEFINE c == assigned(a, id, v)
<1>1. /\ DOMAIN c = DOMAIN a \cup {id} /\ c[id] = v
      /\ \A x \in DOMAIN a : x # id => c[x] = a[x]
  BY DEF assigned
<1> HIDE DEF c
<1>2. IsFiniteSet(DOMAIN c)
  BY <1>1, FS_AddElement
<1>3. ASSUME NEW f
      PROVE  /\ Cardinality(Opens(a, f)) \in Nat
             /\ Cardinality(Opens(c, f)) = Cardinality(Opens(a, f)) + (IF f = v THEN 1 ELSE 0)
  <2>1. IsFiniteSet(Opens(a, f)) /\ id \notin Opens(a, f)
    <3>1. Opens(a, f) \subseteq DOMAIN a
      BY DEF Opens
    <3>2. QED  BY <3>1, FS_Subset
  <2>2. Cardinality(Opens(a, f)) \in Nat
    BY <2>1, FS_CardinalityType
  <2>3. CASE f = v
    <3>1. Opens(c, f) = Opens(a, f) \cup {id}
      BY <1>1, <2>3 DEF Opens
    <3>2. Cardinality(Opens(a, f) \cup {id}) = Cardinality(Opens(a, f)) + 1
      BY <2>1, FS_AddElement
    <3>3. QED  BY <2>2, <2>3, <3>1, <3>2
  <2>4. CASE f # v
    <3>1. Opens(c, f) = Opens(a, f)
      BY <1>1, <2>4 DEF Opens
    <3>2. QED  BY <2>2, <2>4, <3>1
  <2>5. QED  BY <2>3, <2>4
<1>4. QED  BY <1>2, <1>3 DEF c

LEMMA OpensWithout ==
    ASSUME NEW a, IsFiniteSet(DOMAIN a), NEW S, NEW k \in DOMAIN a, S \cap DOMAIN a = {k}
    PROVE  /\ IsFiniteSet(DOMAIN Without(a, S))
           /\ \A f : /\ Cardinality(Opens(a, f)) \in Nat
                     /\ Cardinality(Opens(Without(a, S), f)) =
                            Cardinality(Opens(a, f)) - (IF f = a[k] THEN 1 ELSE 0)
<1> DEFINE c == Without(a, S)
<1>1. DOMAIN c = DOMAIN a \ {k} /\ \A x \in DOMAIN a \ {k} : c[x] = a[x]
  BY DEF Without, Restrict
<1> HIDE DEF c
<1>2. IsFiniteSet(DOMAIN c)
  BY <1>1, FS_RemoveElement
<1>3. ASSUME NEW f
      PROVE  /\ Cardinality(Opens(a, f)) \in Nat
             /\ Cardinality(Opens(c, f)) = Cardinality(Opens(a, f)) - (IF f = a[k] THEN 1 ELSE 0)
  <2>1. IsFiniteSet(Opens(a, f))
    <3>1. Opens(a, f) \subseteq DOMAIN a
      BY DEF Opens
    <3>2. QED  BY <3>1, FS_Subset
  <2>2. Cardinality(Opens(a, f)) \in Nat
    BY <2>1, FS_CardinalityType
  <2>3. CASE f = a[k]
    <3>1. Opens(c, f) = Opens(a, f) \ {k} /\ k \in Opens(a, f)
      BY <1>1, <2>3 DEF Opens
    <3>2. Cardinality(Opens(a, f) \ {k}) = Cardinality(Opens(a, f)) - 1
      BY <2>1, <3>1, FS_RemoveElement
    <3>3. QED  BY <2>2, <2>3, <3>1, <3>2
  <2>4. CASE f # a[k]
    <3>1. Opens(c, f) = Opens(a, f)
      BY <1>1, <2>4 DEF Opens
    <3>2. QED  BY <2>2, <2>4, <3>1
  <2>5. QED  BY <2>3, <2>4
<1>4. QED  BY <1>2, <1>3 DEF c

(* The files open are counted by the claims, and so by the locks.          *)
LEMMA ClaimsCountOpens ==
    ASSUME NEW b, NEW U \in SUBSET Slot, NEW E, NEW h, NEW a, IsFiniteSet(DOMAIN a),
           NEW l \in [File -> Nat], LocksCover(b, U, E, h, a, l),
           \A k \in DOMAIN a : h[k] \in HandleType /\ h[k].file = a[k],
           NEW f \in ResultFile
    PROVE  Cardinality(Opens(a, f)) <= l[f]
<1> DEFINE O == Opens(a, f)
           R == IdClaims(b, h, a, f)
           S == SlotClaims(b, U, E, f)
           X == O \ R
<1>1. IsFiniteSet(R) /\ IsFiniteSet(S)
  BY ClaimsFinite
<1>2. IsFiniteSet(X)
  <2>1. X \subseteq DOMAIN a
    BY DEF Opens
  <2>2. QED  BY <2>1, FS_Subset
<1>3. ASSUME NEW k \in X
      PROVE  \E i \in S : E[i].key = k
  <2>1. k \in DOMAIN a /\ a[k] = f /\ f # Other
    BY DVLibAssumption DEF Opens
  <2>2. b = "netcdf" => h[k].kind # "real"
    <3>1. h[k] = [file |-> a[k], kind |-> h[k].kind]
      BY <2>1 DEF HandleType
    <3>2. QED  BY <2>1, <3>1 DEF IdClaims
  <2>3. QED  BY <2>1, <2>2 DEF LocksCover, Backed, SlotClaims
<1> HIDE DEF O, R, S, X
<1>4. Cardinality(X) <= Cardinality(S)
  <2> DEFINE g == [k \in X |-> CHOOSE i \in S : E[i].key = k]
  <2>1. \A k \in X : g[k] \in S /\ E[g[k]].key = k
    BY <1>3
  <2>2. g \in [X -> S]
    BY <2>1
  <2>3. DOMAIN g = X
    OBVIOUS
  <2> HIDE DEF g
  <2>4. g \in Injection(X, S)
    BY <2>1, <2>2, <2>3 DEF Injection, IsInjective
  <2>5. QED  BY <1>1, <2>4, FS_Injection
<1>5. /\ IsFiniteSet(X \cup R) /\ Cardinality(X \cup R) = Cardinality(X) + Cardinality(R)
  <2>1. X \cap R = {}
    BY DEF X
  <2>2. /\ IsFiniteSet(X \cup R)
        /\ Cardinality(X \cup R) =
               Cardinality(X) + Cardinality(R) - Cardinality(X \cap R)
    BY <1>1, <1>2, FS_Union
  <2>3. Cardinality(X \cap R) = 0
    BY <2>1, FS_EmptySet
  <2>4. Cardinality(X) \in Nat /\ Cardinality(R) \in Nat
    BY <1>1, <1>2, FS_CardinalityType
  <2>5. QED  BY <2>2, <2>3, <2>4
<1>6. Cardinality(O) <= Cardinality(X \cup R) /\ IsFiniteSet(O)
  <2>1. O \in SUBSET (X \cup R)
    BY DEF X
  <2>2. QED  BY <1>5, <2>1, FS_Subset
<1>7. Cardinality(S) + Cardinality(R) <= l[f]
  BY DEF LocksCover, Claimed, S, R
<1>8. /\ Cardinality(O) \in Nat /\ Cardinality(X) \in Nat /\ Cardinality(R) \in Nat
      /\ Cardinality(S) \in Nat /\ Cardinality(X \cup R) \in Nat
  BY <1>1, <1>2, <1>5, <1>6, FS_CardinalityType
<1>9. l[f] \in Nat
  BY DEF File
<1> DEFINE o == Cardinality(O)
           x == Cardinality(X)
           r == Cardinality(R)
           s == Cardinality(S)
           u == Cardinality(X \cup R)
           n == l[f]
<1>10. o <= u /\ u = x + r /\ x <= s /\ s + r <= n
  BY <1>4, <1>5, <1>6, <1>7
<1>11. o \in Nat /\ x \in Nat /\ r \in Nat /\ s \in Nat /\ u \in Nat /\ n \in Nat
  BY <1>8, <1>9
<1> HIDE DEF o, x, r, s, u, n
<1>12. o <= n
  BY <1>10, <1>11
<1>13. QED  BY <1>12 DEF o, n, O

-----------------------------------------------------------------------------
\* What the messages make of the DV.

LEMMA ServerFields ==
    ASSUME NEW s \in ServerType
    PROVE  /\ s.locks \in [File -> Nat] /\ s.available \in SUBSET ResultFile
           /\ s.created \in [File -> Nat] /\ s.announced \in [File -> Nat]
           /\ s.failed \in SUBSET Id
BY DEF ServerType

LEMMA UnlockedFields ==
    ASSUME NEW s \in ServerType, NEW f \in File
    PROVE  LET r == Unlocked(s, f)
           IN  /\ r \in ServerType /\ r.failed = s.failed
               /\ r.locks[f] >= s.locks[f] - 1
               /\ \A g \in File : g # f => r.locks[g] = s.locks[g]
<1> DEFINE n == IF s.locks[f] > 0 THEN s.locks[f] - 1 ELSE s.locks[f]
<1>1. n \in Nat /\ n >= s.locks[f] - 1
  BY ServerFields
<1>2. [s.locks EXCEPT ![f] = n] \in [File -> Nat] /\ s.locks \in [File -> Nat]
  BY <1>1, ServerFields
<1>3. Unlocked(s, f) = [s EXCEPT !.locks[f] = n]
  BY DEF Unlocked
<1> HIDE DEF n
<1> DEFINE r == [s EXCEPT !.locks[f] = n]
<1>4. r \in ServerType /\ r.failed = s.failed /\ r.locks = [s.locks EXCEPT ![f] = n]
  BY <1>2 DEF ServerType
<1>5. Unlocked(s, f) = r
  BY <1>3
<1> HIDE DEF r
<1>6. QED  BY <1>1, <1>2, <1>4, <1>5

LEMMA FailedFields ==
    ASSUME NEW s \in ServerType, NEW k, DOMAIN app \subseteq Id
    PROVE  /\ Forget(s, k) \in ServerType /\ Failed(s, k) \in ServerType
           /\ Forget(s, k).locks = s.locks /\ Failed(s, k).locks = s.locks
           /\ Forget(s, k).failed = s.failed \ {k}
           /\ Failed(s, k).failed = s.failed \cup ({k} \cap DOMAIN app)
BY DEF Forget, Failed, ServerType

LEMMA OpenCountedFields ==
    ASSUME server \in ServerType, NEW f \in ResultFile, NEW real \in BOOLEAN
    PROVE  LET r == OpenCounted(f, real)
           IN  /\ r \in ServerType /\ r.failed = server.failed
               /\ r.locks = [server.locks EXCEPT ![f] = @ + 1]
               /\ OneMore(server.locks, r.locks, f)
<1> DEFINE n == server.locks[f] + 1
           X == IF real THEN server.available \cup {f} ELSE server.available
<1>1. n \in Nat /\ X \in SUBSET ResultFile /\ f \in File
  BY ServerFields DEF File
<1>2. OpenCounted(f, real) = [server EXCEPT !.locks[f] = n, !.available = X]
  BY DEF OpenCounted
<1>3. [server.locks EXCEPT ![f] = n] \in [File -> Nat]
  BY <1>1, ServerFields
<1>4. [server.locks EXCEPT ![f] = n] = [server.locks EXCEPT ![f] = @ + 1]
  OBVIOUS
<1> HIDE DEF n, X
<1> DEFINE r == [server EXCEPT !.locks[f] = n, !.available = X]
<1>5. /\ r \in ServerType /\ r.failed = server.failed
      /\ r.locks = [server.locks EXCEPT ![f] = n]
  BY <1>1, <1>3 DEF ServerType
<1>6. OneMore(server.locks, [server.locks EXCEPT ![f] = n], f)
  BY <1>1, ServerFields DEF OneMore, n, File
<1>7. OpenCounted(f, real) = r
  BY <1>2
<1> HIDE DEF r
<1>8. QED  BY <1>4, <1>5, <1>6, <1>7

(* The entry that an open makes.                                           *)
LEMMA FiledEntry ==
    ASSUME NEW f \in ResultFile, NEW id \in Id \cup {NoId}, NEW real \in BOOLEAN,
           NEW meta \in Id \cup {NoId}, Filed(f, id, real, meta)
    PROVE  /\ Len(dvl.free_files) > 1
           /\ \E e \in EntryType :
                 /\ dvl' = Track(dvl, SlotId(Head(dvl.free_files)), e)
                 /\ e.path = f /\ e.state = (IF real THEN "OPEN" ELSE "SIM") /\ e.key = id
                 /\ e.fid = id /\ e.meta = meta /\ e.other = NoId /\ e.hh_next = NoSlot
<1> DEFINE st == IF real THEN "OPEN" ELSE "SIM"
           e == [NoEntry EXCEPT !.path = f, !.state = st, !.key = id, !.fid = id, !.meta = meta]
<1>1. dvl' = Track(dvl, SlotId(Head(dvl.free_files)), e) /\ Len(dvl.free_files) > 1
  BY DEF Filed, HasFreeSlot, NextSlot
<1>2. st \in {"OPEN", "SIM"}
  OBVIOUS
<1> HIDE DEF st
<1>3. /\ e \in EntryType
      /\ e.path = f /\ e.state = st /\ e.key = id
      /\ e.fid = id /\ e.meta = meta /\ e.other = NoId /\ e.hh_next = NoSlot
  BY <1>2 DEF EntryType, File, NoEntry
<1> HIDE DEF e
<1>4. QED  BY <1>1, <1>3 DEF st

LEMMA TypedFacts ==
    ASSUME Typed
    PROVE  /\ DOMAIN handles \subseteq Id /\ DOMAIN app \subseteq Id
           /\ \A k \in DOMAIN app : app[k] \in File \cup {Other}
           /\ \A k \in DOMAIN handles : handles[k] \in HandleType
           /\ DOMAIN dvl.open_files_idx \subseteq Id \cup {NoId}
           /\ \A k \in DOMAIN dvl.open_files_idx :
                 dvl.open_files_idx[k] \in Slot /\ Entry(k) \in EntryType
           /\ EntriesOf(dvl) \in Table(Id, EntryType)
           /\ DOMAIN EntriesOf(dvl) = DOMAIN dvl.open_files_idx \ {NoId}
           /\ \A k \in DOMAIN EntriesOf(dvl) : Entry(k) = EntriesOf(dvl)[k]
<1>1. dvl \in LibType /\ handles \in Table(Id, HandleType) /\ app \in Table(Id, File \cup {Other})
  BY DEF Typed
<1>2. DOMAIN handles \subseteq Id /\ \A k \in DOMAIN handles : handles[k] \in HandleType
  BY <1>1, TableFacts
<1>3. DOMAIN app \subseteq Id /\ \A k \in DOMAIN app : app[k] \in File \cup {Other}
  BY <1>1, TableFacts
<1>4. /\ EntriesOf(dvl) \in Table(Id, EntryType)
      /\ DOMAIN EntriesOf(dvl) = DOMAIN dvl.open_files_idx \ {NoId}
      /\ \A k \in DOMAIN EntriesOf(dvl) : Entry(k) = EntriesOf(dvl)[k]
  BY <1>1, EntriesFacts DEF Entry
<1>5. /\ DOMAIN dvl.open_files_idx \subseteq Id \cup {NoId}
      /\ \A k \in DOMAIN dvl.open_files_idx : dvl.open_files_idx[k] \in Slot
  BY <1>1, IndexFacts
<1>6. \A k \in DOMAIN dvl.open_files_idx : Entry(k) \in EntryType
  BY <1>1, <1>5, LibFields DEF Entry
<1>7. QED  BY <1>2, <1>3, <1>4, <1>5, <1>6

-----------------------------------------------------------------------------
\* The calls of a client: HDF5.

LocksOK(s, a) == \A f \in ResultFile : Cardinality(Opens(a, f)) <= s.locks[f]

H5Inv ==
    /\ TableInv(dvl) /\ Flat(dvl)
    /\ AllOK(EntriesOf(dvl), handles, app) /\ LocksOK(server, app)

(* A close takes one of the opens away, and one lock at most.              *)
LEMMA CloseLocks ==
    ASSUME server \in ServerType, IsFiniteSet(DOMAIN app), LocksOK(server, app),
           NEW S, NEW i \in DOMAIN app, S \cap DOMAIN app = {i}, app[i] \in ResultFile,
           NEW s, s = server \/ s = Unlocked(server, app[i])
    PROVE  /\ s \in ServerType /\ LocksOK(s, Without(app, S))
           /\ IsFiniteSet(DOMAIN Without(app, S))
<1> DEFINE c == Without(app, S)
<1>1. /\ IsFiniteSet(DOMAIN c)
      /\ \A f : /\ Cardinality(Opens(app, f)) \in Nat
                /\ Cardinality(Opens(c, f)) =
                       Cardinality(Opens(app, f)) - (IF f = app[i] THEN 1 ELSE 0)
  BY OpensWithout
<1>2. app[i] \in File /\ ResultFile \subseteq File
  BY DEF File
<1>3. s \in ServerType
  BY <1>2, UnlockedFields
<1>4. \A f \in ResultFile :
          /\ server.locks[f] \in Nat /\ s.locks[f] \in Nat
          /\ s.locks[f] >= server.locks[f] - (IF f = app[i] THEN 1 ELSE 0)
  BY <1>2, <1>3, UnlockedFields, ServerFields
<1> HIDE DEF c
<1>5. ASSUME NEW f \in ResultFile PROVE Cardinality(Opens(c, f)) <= s.locks[f]
  <2> DEFINE n == Cardinality(Opens(app, f))
             m == Cardinality(Opens(c, f))
  <2>1. n \in Nat /\ m = n - (IF f = app[i] THEN 1 ELSE 0) /\ n <= server.locks[f]
    BY <1>1 DEF LocksOK
  <2> HIDE DEF n, m
  <2>2. m <= s.locks[f]
    BY <1>4, <2>1
  <2>3. QED  BY <2>2 DEF m
<1>6. LocksOK(s, c)
  BY <1>5 DEF LocksOK
<1>7. QED  BY <1>1, <1>3, <1>6 DEF c

LEMMA H5OpenStep ==
    ASSUME Typed, H5Inv, UNCHANGED settings,
           NEW f \in ResultFile, NEW id \in Id, id \notin DOMAIN handles, NEW real \in BOOLEAN,
           NEW meta \in Id \cup {NoId}, ClientOpen(f, id, real, meta)
    PROVE  Typed' /\ H5Inv'
<1> DEFINE v == [file |-> f, kind |-> IF real THEN "real" ELSE "meta"]
           E == EntriesOf(dvl)
           i == SlotId(Head(dvl.free_files))
<1>1. /\ dvl \in LibType /\ server \in ServerType
      /\ handles \in Table(Id, HandleType) /\ app \in Table(Id, File \cup {Other})
      /\ IsFiniteSet(DOMAIN app) /\ f \in File
  BY DEF Typed, File
<1>2. TableInv(dvl) /\ Flat(dvl) /\ AllOK(E, handles, app) /\ LocksOK(server, app)
  BY DEF H5Inv
<1>3. v \in HandleType
  BY <1>1 DEF HandleType
<1>4. id \notin DOMAIN app /\ id \notin DOMAIN E
  BY <1>2 DEF AllOK, EntryOK
<1>5. /\ Filed(f, id, real, meta)
      /\ handles' = assigned(handles, id, v) /\ app' = assigned(app, id, f)
      /\ server' = OpenCounted(f, real)
  BY DEF ClientOpen, NewHandle
<1>6. Len(dvl.free_files) > 1
  BY <1>5, FiledEntry
<1>7. PICK e \in EntryType :
          /\ dvl' = Track(dvl, i, e)
          /\ e.path = f /\ e.state = (IF real THEN "OPEN" ELSE "SIM") /\ e.key = id
          /\ e.fid = id /\ e.meta = meta /\ e.other = NoId /\ e.hh_next = NoSlot
  BY <1>5, FiledEntry
<1>8. AllOK(assigned(E, id, e), assigned(handles, id, v), assigned(app, id, f))
  BY <1>1, <1>2, <1>7, OpenKeeps
<1>9. id # NoId /\ e.key \notin DOMAIN dvl.open_files_idx \ {NoId}
  BY <1>1, <1>4, <1>7, IndexFacts, TypedFacts DEF E
<1> HIDE DEF v, E
<1>10. /\ dvl' \in LibType /\ TableInv(dvl') /\ Flat(dvl')
       /\ EntriesOf(dvl') = assigned(E, id, e)
  BY <1>1, <1>2, <1>6, <1>7, <1>9, TrackEntry DEF E
<1>11. handles' \in Table(Id, HandleType) /\ app' \in Table(Id, File \cup {Other})
  BY <1>1, <1>3, <1>5, AssignedType
<1>12. /\ IsFiniteSet(DOMAIN app')
       /\ \A g : /\ Cardinality(Opens(app, g)) \in Nat
                 /\ Cardinality(Opens(app', g)) =
                        Cardinality(Opens(app, g)) + (IF g = f THEN 1 ELSE 0)
  BY <1>1, <1>4, <1>5, OpensAssigned
<1>13. server' \in ServerType /\ server'.locks = [server.locks EXCEPT ![f] = @ + 1]
  BY <1>1, <1>5, OpenCountedFields
<1>14. LocksOK(server', app')
  <2> SUFFICES ASSUME NEW g \in ResultFile
               PROVE  Cardinality(Opens(app', g)) <= server'.locks[g]
    BY DEF LocksOK
  <2>1. Cardinality(Opens(app, g)) <= server.locks[g] /\ server.locks[g] \in Nat /\ g \in File
    BY <1>1, <1>2, ServerFields DEF LocksOK, File
  <2>2. server'.locks[g] = server.locks[g] + (IF g = f THEN 1 ELSE 0)
    BY <1>1, <1>13, <2>1, ServerFields
  <2>3. QED  BY <1>12, <2>1, <2>2
<1>15. AllOK(EntriesOf(dvl)', handles', app')
  BY <1>5, <1>8, <1>10
<1>16. Typed'
  BY <1>1, <1>10, <1>11, <1>12, <1>13 DEF Typed, settings
<1>17. QED  BY <1>10, <1>14, <1>15, <1>16 DEF H5Inv

(* The entry of an open that failed is found under no id.                  *)
LEMMA H5OpenFailsStep ==
    ASSUME Typed, H5Inv, UNCHANGED settings, NEW f \in ResultFile, ClientOpenFails(f, NoId)
    PROVE  Typed' /\ H5Inv'
<1> DEFINE i == SlotId(Head(dvl.free_files))
           s == OpenCounted(f, TRUE)
<1>1. /\ dvl \in LibType /\ server \in ServerType /\ f \in File /\ DOMAIN app \subseteq Id
  BY TypedFacts DEF Typed, File
<1>2. /\ TableInv(dvl) /\ Flat(dvl)
      /\ AllOK(EntriesOf(dvl), handles, app) /\ LocksOK(server, app)
  BY DEF H5Inv
<1>3. Filed(f, NoId, TRUE, NoId) /\ server' = Failed(s, NoId) /\ UNCHANGED <<handles, app>>
  BY DEF ClientOpenFails
<1>4. Len(dvl.free_files) > 1 /\ \E e \in EntryType :
          /\ dvl' = Track(dvl, i, e) /\ e.key = NoId /\ e.hh_next = NoSlot
  <2>1. ASSUME NEW id \in Id \cup {NoId}, NEW real \in BOOLEAN, NEW meta \in Id \cup {NoId},
               Filed(f, id, real, meta)
        PROVE  Len(dvl.free_files) > 1 /\ \E e \in EntryType :
                   /\ dvl' = Track(dvl, i, e) /\ e.key = id /\ e.hh_next = NoSlot
    BY <2>1, FiledEntry
  <2>2. QED  BY <1>3, <2>1
<1>5. /\ dvl' \in LibType /\ TableInv(dvl') /\ Flat(dvl')
      /\ EntriesOf(dvl') = EntriesOf(dvl)
  BY <1>1, <1>2, <1>4, TrackEntry
<1>6. s \in ServerType /\ s.locks = [server.locks EXCEPT ![f] = @ + 1]
  BY <1>1, OpenCountedFields
<1> HIDE DEF s
<1>7. server' \in ServerType /\ server'.locks = [server.locks EXCEPT ![f] = @ + 1]
  BY <1>1, <1>3, <1>6, FailedFields
<1>8. LocksOK(server', app)
  <2> SUFFICES ASSUME NEW g \in ResultFile
               PROVE  Cardinality(Opens(app, g)) <= server'.locks[g]
    BY DEF LocksOK
  <2>1. Cardinality(Opens(app, g)) <= server.locks[g] /\ server.locks[g] \in Nat /\ g \in File
    BY <1>1, <1>2, ServerFields DEF LocksOK, File
  <2>2. server'.locks[g] = server.locks[g] + (IF g = f THEN 1 ELSE 0)
    BY <1>1, <1>7, <2>1, ServerFields
  <2>3. Cardinality(Opens(app, g)) \in Nat
    <3>1. IsFiniteSet(Opens(app, g))
      <4>1. Opens(app, g) \subseteq DOMAIN app
        BY DEF Opens
      <4>2. QED  BY <4>1, FS_Subset DEF Typed
    <3>2. QED  BY <3>1, FS_CardinalityType
  <2>4. QED  BY <2>1, <2>2, <2>3
<1>9. LocksOK(server, app)' /\ AllOK(EntriesOf(dvl), handles, app)'
  BY <1>2, <1>3, <1>5, <1>8
<1>10. Typed'
  BY <1>3, <1>5, <1>7 DEF Typed, settings
<1>11. QED  BY <1>5, <1>9, <1>10 DEF H5Inv

LEMMA H5PlainOpenStep ==
    ASSUME Typed, H5Inv, UNCHANGED settings,
           NEW id \in Id, id \notin DOMAIN handles, PlainOpen(id)
    PROVE  Typed' /\ H5Inv'
<1> DEFINE v == [file |-> Other, kind |-> "real"]
           E == EntriesOf(dvl)
<1>1. /\ handles \in Table(Id, HandleType) /\ app \in Table(Id, File \cup {Other})
      /\ IsFiniteSet(DOMAIN app)
  BY DEF Typed
<1>2. TableInv(dvl) /\ Flat(dvl) /\ AllOK(E, handles, app) /\ LocksOK(server, app)
  BY DEF H5Inv
<1>3. /\ handles' = assigned(handles, id, v) /\ app' = assigned(app, id, Other)
      /\ dvl' = dvl /\ server' = server
  BY DEF PlainOpen, NewHandle
<1>4. v \in HandleType /\ Other \notin ResultFile
  BY DVLibAssumption DEF HandleType
<1> HIDE DEF v, E
<1>5. AllOK(E, handles', app')
  BY <1>1, <1>2, <1>3, PlainOpenKeeps
<1>6. handles' \in Table(Id, HandleType) /\ app' \in Table(Id, File \cup {Other})
  BY <1>1, <1>3, <1>4, AssignedType
<1>7. id \notin DOMAIN app
  BY <1>2 DEF AllOK
<1>8. /\ IsFiniteSet(DOMAIN app')
      /\ \A g : /\ Cardinality(Opens(app, g)) \in Nat
                /\ Cardinality(Opens(app', g)) =
                       Cardinality(Opens(app, g)) + (IF g = Other THEN 1 ELSE 0)
  BY <1>1, <1>3, <1>7, OpensAssigned
<1>9. LocksOK(server', app')
  BY <1>2, <1>3, <1>4, <1>8 DEF LocksOK
<1>10. Typed'
  BY <1>3, <1>6, <1>8 DEF Typed, settings
<1>11. AllOK(EntriesOf(dvl), handles, app)'
  BY <1>3, <1>5 DEF E
<1>12. QED  BY <1>2, <1>3, <1>9, <1>10, <1>11 DEF H5Inv

\* What the open of an object does not touch.
LEMMA H5SameApp ==
    ASSUME Typed, H5Inv, UNCHANGED <<settings, app, server>>,
           dvl' \in LibType, TableInv(dvl'), Flat(dvl'), handles' \in Table(Id, HandleType),
           AllOK(EntriesOf(dvl'), handles', app)
    PROVE  Typed' /\ H5Inv'
<1>1. Typed'
  BY DEF Typed, settings
<1>2. LocksOK(server, app)' /\ TableInv(dvl)' /\ Flat(dvl)'
  BY DEF H5Inv
<1>3. AllOK(EntriesOf(dvl), handles, app)'
  OBVIOUS
<1>4. QED  BY <1>1, <1>2, <1>3 DEF H5Inv

LEMMA ObjectOpenStep ==
    ASSUME Typed, H5Inv, UNCHANGED settings,
           NEW id \in Id, id \notin DOMAIN handles, NEW k \in DOMAIN app, Tracked(k),
           H5Oopen(k, id)
    PROVE  Typed' /\ H5Inv'
<1> DEFINE E == EntriesOf(dvl)
           e == [E[k] EXCEPT !.other = id, !.fid = id]
           o == [NoEntry EXCEPT !.path = E[k].path, !.state = "OPEN", !.key = id, !.fid = id,
                                !.other = k]
           v == [file |-> E[k].path, kind |-> "real"]
           d == [dvl EXCEPT !.open_files[dvl.open_files_idx[k]] = e]
<1>1. /\ dvl \in LibType /\ server \in ServerType
      /\ handles \in Table(Id, HandleType) /\ app \in Table(Id, File \cup {Other})
  BY DEF Typed
<1>2. TableInv(dvl) /\ Flat(dvl) /\ AllOK(E, handles, app)
  BY DEF H5Inv
<1>3. /\ k \in DOMAIN dvl.open_files_idx \ {NoId} /\ k \in DOMAIN E /\ k \in Id
      /\ E[k] = dvl.open_files[dvl.open_files_idx[k]]
      /\ Entry(k) = E[k] /\ E[k] \in EntryType /\ E \in Table(Id, EntryType)
      /\ dvl.open_files_idx[k] \in Slot /\ E[k].key = k
  <2>1. k \in Id /\ k # NoId
    BY <1>1, TypedFacts, IndexFacts
  <2>2. k \in DOMAIN dvl.open_files_idx \ {NoId} /\ dvl.open_files_idx[k] \in Slot
    BY <1>1, <2>1, IndexFacts DEF Tracked
  <2>3. E[k] = dvl.open_files[dvl.open_files_idx[k]] /\ k \in DOMAIN E /\ E[k] \in EntryType
    BY <1>1, <2>2, EntriesFacts
  <2>4. dvl.open_files[dvl.open_files_idx[k]].key = k
    BY <1>2, <2>2 DEF TableInv, Indexed
  <2>5. Entry(k) = E[k] /\ E \in Table(Id, EntryType)
    BY <1>1, <2>3, EntriesFacts DEF Entry
  <2>6. QED  BY <2>1, <2>2, <2>3, <2>4, <2>5
<1>4. /\ e \in EntryType /\ e.path = E[k].path /\ e.state = E[k].state /\ e.fid = id
      /\ e.other = id /\ e.key = k /\ e.hh_next = E[k].hh_next
  <2> DEFINE x == E[k]
  <2>1. x \in EntryType /\ x.key = k
    BY <1>3
  <2> HIDE DEF x
  <2> DEFINE y == [x EXCEPT !.other = id, !.fid = id]
  <2>2. /\ y \in EntryType /\ y.path = x.path /\ y.state = x.state /\ y.fid = id
        /\ y.other = id /\ y.key = k /\ y.hh_next = x.hh_next
    BY <2>1 DEF EntryType
  <2>3. e = y
    BY DEF x
  <2> HIDE DEF y
  <2>4. QED  BY <2>2, <2>3 DEF x
<1>5. /\ o \in EntryType /\ v \in HandleType /\ o.path = E[k].path /\ o.state = "OPEN"
      /\ o.key = id /\ o.fid = id /\ o.other = k /\ o.hh_next = NoSlot
  <2> DEFINE p == E[k].path
  <2>1. p \in File \cup {Other}
    BY <1>3 DEF EntryType
  <2> HIDE DEF p
  <2>2. /\ [NoEntry EXCEPT !.path = p, !.state = "OPEN", !.key = id, !.fid = id, !.other = k]
               \in EntryType
        /\ [file |-> p, kind |-> "real"] \in HandleType
    BY <1>3, <2>1 DEF EntryType, NoEntry, HandleType
  <2>3. o \in EntryType /\ v \in HandleType
    BY <2>2 DEF p
  <2>4. QED  BY <2>3 DEF NoEntry
<1>6. /\ E[k].state = "SIM" /\ E[k].other = NoId /\ Len(dvl.free_files) > 1
      /\ handles' = assigned(handles, id, v) /\ UNCHANGED <<app, server>>
  BY <1>3 DEF H5Oopen, NewHandle, HasFreeSlot
<1>7. dvl' = Track(d, SlotId(Head(dvl.free_files)), o)
  <2>1. d = [dvl EXCEPT !.open_files[dvl.open_files_idx[k]] = [@ EXCEPT !.other = id, !.fid = id]]
    BY <1>1, <1>3, LibFields
  <2> HIDE DEF d
  <2>2. QED  BY <1>3, <2>1 DEF H5Oopen, NextSlot
<1> HIDE DEF e, o
<1>8. AllOK(assigned(assigned(E, k, e), id, o), assigned(handles, id, v), app)
  BY <1>1, <1>2, <1>3, <1>4, <1>5, <1>6, ObjectOpenKeeps
<1>9. id \notin DOMAIN E /\ id # NoId
  BY <1>1, <1>2, IndexFacts DEF AllOK, EntryOK
<1>10. id \notin DOMAIN dvl.open_files_idx
  BY <1>9, TypedFacts DEF E
<1> HIDE DEF v
<1>11. e.hh_next = EntriesOf(dvl)[k].hh_next
  BY <1>4 DEF E
<1> HIDE DEF E
<1>12. /\ d \in LibType /\ TableInv(d) /\ Flat(d) /\ EntriesOf(d) = assigned(E, k, e)
       /\ d.free_files = dvl.free_files /\ d.open_files_idx = dvl.open_files_idx
  BY <1>1, <1>2, <1>3, <1>4, <1>11, SetEntry DEF E
<1> HIDE DEF d
<1>13. /\ dvl' \in LibType /\ TableInv(dvl') /\ Flat(dvl')
       /\ EntriesOf(dvl') = assigned(assigned(E, k, e), id, o)
  <2>1. Len(d.free_files) > 1 /\ o.key \notin DOMAIN d.open_files_idx \ {NoId}
    BY <1>5, <1>6, <1>10, <1>12
  <2>2. dvl' = Track(d, SlotId(Head(d.free_files)), o)
    BY <1>7, <1>12
  <2>3. QED  BY <1>5, <1>9, <1>12, <2>1, <2>2, TrackEntry
<1>14. handles' \in Table(Id, HandleType)
  BY <1>1, <1>5, <1>6, AssignedType
<1>15. AllOK(EntriesOf(dvl'), handles', app)
  BY <1>6, <1>8, <1>13
<1>16. QED  BY <1>6, <1>13, <1>14, <1>15, H5SameApp

(* The close of one of the ids in S, of which the application has i.       *)
LEMMA H5ClosedApp ==
    ASSUME Typed, H5Inv, UNCHANGED settings,
           NEW S, NEW i \in DOMAIN app, S \cap DOMAIN app = {i}, app[i] \in ResultFile,
           NEW C, handles' = Without(handles, C), app' = Without(app, S),
           server' = server \/ server' = Unlocked(server, app[i]),
           dvl' \in LibType, TableInv(dvl'), Flat(dvl'),
           AllOK(EntriesOf(dvl'), Without(handles, C), Without(app, S))
    PROVE  Typed' /\ H5Inv'
<1>1. /\ server \in ServerType /\ IsFiniteSet(DOMAIN app)
      /\ handles \in Table(Id, HandleType) /\ app \in Table(Id, File \cup {Other})
  BY DEF Typed
<1>2. LocksOK(server, app)
  BY DEF H5Inv
<1>3. server' \in ServerType /\ LocksOK(server', app') /\ IsFiniteSet(DOMAIN app')
  BY <1>1, <1>2, CloseLocks
<1>4. handles' \in Table(Id, HandleType) /\ app' \in Table(Id, File \cup {Other})
  BY <1>1, WithoutType
<1>5. Typed'
  BY <1>3, <1>4 DEF Typed, settings
<1>6. AllOK(EntriesOf(dvl)', handles', app')
  OBVIOUS
<1>7. QED  BY <1>3, <1>5, <1>6 DEF H5Inv

LEMMA H5PlainCloseStep ==
    ASSUME Typed, H5Inv, UNCHANGED settings, NEW k \in DOMAIN app, PlainClose(k)
    PROVE  Typed' /\ H5Inv'
<1>1. /\ server \in ServerType /\ IsFiniteSet(DOMAIN app)
      /\ handles \in Table(Id, HandleType) /\ app \in Table(Id, File \cup {Other})
  BY DEF Typed
<1>2. /\ handles' = Without(handles, {k}) /\ app' = Without(app, {k})
      /\ dvl' = dvl /\ server' = server /\ k \notin DOMAIN EntriesOf(dvl)
  BY TypedFacts DEF PlainClose, Closed, Tracked
<1>3. /\ AllOK(EntriesOf(dvl), handles, app) /\ LocksOK(server, app)
      /\ TableInv(dvl) /\ Flat(dvl)
  BY DEF H5Inv
<1>4. AllOK(EntriesOf(dvl), handles', app')
  BY <1>1, <1>2, <1>3, PlainCloseKeeps
<1>5. handles' \in Table(Id, HandleType) /\ app' \in Table(Id, File \cup {Other})
  BY <1>1, <1>2, WithoutType
<1>6. /\ IsFiniteSet(DOMAIN app')
      /\ \A g : /\ Cardinality(Opens(app, g)) \in Nat
                /\ Cardinality(Opens(app', g)) =
                       Cardinality(Opens(app, g)) - (IF g = app[k] THEN 1 ELSE 0)
  <2>1. {k} \cap DOMAIN app = {k}
    OBVIOUS
  <2>2. QED  BY <1>1, <1>2, <2>1, OpensWithout
<1>7. LocksOK(server', app')
  <2> SUFFICES ASSUME NEW g \in ResultFile
               PROVE  Cardinality(Opens(app', g)) <= server'.locks[g]
    BY DEF LocksOK
  <2>1. Cardinality(Opens(app, g)) <= server.locks[g] /\ server.locks[g] \in Nat
    BY <1>1, <1>3, ServerFields DEF LocksOK, File
  <2>2. QED  BY <1>2, <1>6, <2>1
<1>8. Typed'
  BY <1>2, <1>5, <1>6 DEF Typed, settings
<1>9. AllOK(EntriesOf(dvl), handles, app)'
  BY <1>2, <1>4
<1>10. QED  BY <1>2, <1>3, <1>7, <1>8, <1>9 DEF H5Inv

(* One id after the other is taken out.                                    *)
LEMMA UntrackBoth ==
    ASSUME Typed, TableInv(dvl), Flat(dvl), NEW k \in DOMAIN EntriesOf(dvl),
           NEW o \in DOMAIN EntriesOf(dvl), o # k
    PROVE  LET r == Untrack(Untrack(dvl, k), o)
           IN  /\ r \in LibType /\ TableInv(r) /\ Flat(r)
               /\ EntriesOf(r) = Without(EntriesOf(dvl), {k, o})
<1> DEFINE d == Untrack(dvl, k)
           E == EntriesOf(dvl)
<1>1. dvl \in LibType /\ DOMAIN E = DOMAIN dvl.open_files_idx \ {NoId}
  BY TypedFacts DEF Typed
<1>2. d \in LibType /\ TableInv(d) /\ Flat(d) /\ EntriesOf(d) = Without(E, {k})
  BY <1>1, UntrackEntry
<1> HIDE DEF d, E
<1>3. DOMAIN d.open_files_idx \ {NoId} = DOMAIN E \ {k}
  BY <1>2, EntriesFacts DEF Without, Restrict
<1>4. o \in DOMAIN d.open_files_idx \ {NoId}
  BY <1>3 DEF E
<1>5. /\ Untrack(d, o) \in LibType /\ TableInv(Untrack(d, o)) /\ Flat(Untrack(d, o))
      /\ EntriesOf(Untrack(d, o)) = Without(Without(E, {k}), {o})
  BY <1>2, <1>4, UntrackEntry
<1>6. Without(Without(E, {k}), {o}) = Without(E, {k, o})
  BY DEF Without, Restrict
<1>7. QED  BY <1>5, <1>6 DEF d, E

LEMMA H5CloseStep ==
    ASSUME Typed, H5Inv, UNCHANGED settings,
           NEW k \in DOMAIN EntriesOf(dvl), client_H5Fclose(k)
    PROVE  Typed' /\ H5Inv'
<1> DEFINE E == EntriesOf(dvl)
           ids == {k} \cup ({E[k].other} \cap DOMAIN E)
<1>1. dvl \in LibType /\ handles \in Table(Id, HandleType)
  BY DEF Typed
<1>2. TableInv(dvl) /\ Flat(dvl) /\ AllOK(E, handles, app)
  BY DEF H5Inv
<1>3. /\ k \in DOMAIN dvl.open_files_idx \ {NoId} /\ DOMAIN E = DOMAIN dvl.open_files_idx \ {NoId}
      /\ Entry(k) = E[k]
  BY TypedFacts
<1>4. ids = Both(k)
  BY <1>3 DEF Both
<1>5. /\ handles' = Without(handles, {k}) /\ app' = Without(app, ids)
      /\ dvl' = IF Cardinality(ids) = 1 THEN Untrack(dvl, k)
                ELSE Untrack(Untrack(dvl, k), E[k].other)
      /\ server' = server \/ server' = Unlocked(server, E[k].path)
  <2> HIDE DEF ids, E
  <2>1. QED  BY <1>3, <1>4 DEF client_H5Fclose, Closed
<1>6. EntryOK(E, handles, app, k)
  BY <1>2, <1>3 DEF AllOK
<1>7. dvl' \in LibType /\ TableInv(dvl') /\ Flat(dvl') /\ EntriesOf(dvl') = Without(E, ids)
  <2>1. CASE E[k].other \notin DOMAIN E
    <3>1. ids = {k} /\ Cardinality({k}) = 1
      BY <2>1, FS_Singleton
    <3>2. dvl' = Untrack(dvl, k)
      BY <1>5, <3>1
    <3>3. QED  BY <1>1, <1>2, <1>3, <3>1, <3>2, UntrackEntry
  <2>2. CASE E[k].other \in DOMAIN E
    <3>1. E[k].other # k
      <4>1. E[k].other # NoId
        BY <1>3, <2>2
      <4>2. QED  BY <1>6, <4>1 DEF EntryOK, Paired
    <3>2. ids = {k, E[k].other}
      BY <2>2
    <3>3. Cardinality(ids) # 1
      <4>1. Cardinality({k, E[k].other}) = 2
        <5>1. IsFiniteSet({k}) /\ Cardinality({k}) = 1 /\ E[k].other \notin {k}
          BY <3>1, FS_Singleton
        <5>2. Cardinality({k} \cup {E[k].other}) = 1 + 1
          BY <5>1, FS_AddElement
        <5>3. {k} \cup {E[k].other} = {k, E[k].other}
          OBVIOUS
        <5>4. QED  BY <5>2, <5>3
      <4>2. QED  BY <3>2, <4>1
    <3>4. dvl' = Untrack(Untrack(dvl, k), E[k].other)
      BY <1>5, <3>3
    <3>5. QED  BY <1>2, <2>2, <3>1, <3>2, <3>4, UntrackBoth
  <2>3. QED  BY <2>1, <2>2
<1>8. ids = {k} \cup ({E[k].other} \cap DOMAIN E)
  OBVIOUS
<1> HIDE DEF ids
<1>9. /\ AllOK(Without(E, ids), Without(handles, {k}), Without(app, ids))
      /\ \E i \in ids : ids \cap DOMAIN app = {i} /\ app[i] = E[k].path
  BY <1>1, <1>2, <1>8, H5CloseKeeps
<1>10. PICK i \in ids : ids \cap DOMAIN app = {i} /\ app[i] = E[k].path
  BY <1>9
<1>11. i \in DOMAIN app /\ app[i] \in ResultFile
  BY <1>6, <1>10 DEF EntryOK
<1>12. AllOK(EntriesOf(dvl'), Without(handles, {k}), Without(app, ids))
  BY <1>7, <1>9
<1>13. server' = server \/ server' = Unlocked(server, app[i])
  BY <1>5, <1>10
<1>14. QED  BY <1>5, <1>7, <1>10, <1>11, <1>12, <1>13, H5ClosedApp

-----------------------------------------------------------------------------
\* The calls of a client: the two netCDF bindings.

NcInv ==
    /\ TableInv(dvl)
    /\ SlotsOK(binding, Used(dvl), dvl.open_files, dvl.open_files_idx, handles, app,
               server.failed)
    /\ LocksCover(binding, Used(dvl), dvl.open_files, handles, app, server.locks)

LEMMA NcFacts ==
    ASSUME Typed, NcInv
    PROVE  /\ dvl \in LibType /\ server \in ServerType
           /\ handles \in Table(Id, HandleType) /\ app \in Table(Id, File \cup {Other})
           /\ IsFiniteSet(DOMAIN app) /\ DOMAIN app \subseteq DOMAIN handles /\ NoId \notin Id
           /\ DOMAIN app \subseteq Id /\ DOMAIN handles \subseteq Id
           /\ TableInv(dvl) /\ Used(dvl) \in SUBSET Slot
           /\ Indexed(Used(dvl), dvl.open_files, dvl.open_files_idx)
           /\ SlotsOK(binding, Used(dvl), dvl.open_files, dvl.open_files_idx, handles, app,
                      server.failed)
           /\ LocksCover(binding, Used(dvl), dvl.open_files, handles, app, server.locks)
           /\ server.locks \in [File -> Nat]
<1>1. /\ dvl \in LibType /\ server \in ServerType
      /\ handles \in Table(Id, HandleType) /\ app \in Table(Id, File \cup {Other})
      /\ IsFiniteSet(DOMAIN app)
  BY DEF Typed
<1>2. DOMAIN app \subseteq Id /\ DOMAIN handles \subseteq Id
  BY TypedFacts
<1>3. NoId \notin Id /\ server.locks \in [File -> Nat]
  BY <1>1, IndexFacts, ServerFields
<1>4. Used(dvl) \in SUBSET Slot
  BY DEF Used
<1>5. /\ TableInv(dvl)
      /\ SlotsOK(binding, Used(dvl), dvl.open_files, dvl.open_files_idx, handles, app,
                 server.failed)
      /\ LocksCover(binding, Used(dvl), dvl.open_files, handles, app, server.locks)
  BY DEF NcInv
<1>6. /\ Indexed(Used(dvl), dvl.open_files, dvl.open_files_idx)
      /\ DOMAIN app \subseteq DOMAIN handles
  BY <1>5 DEF TableInv, SlotsOK
<1>7. QED  BY <1>1, <1>2, <1>3, <1>4, <1>5, <1>6

LEMMA NcKeeps ==
    ASSUME Typed, UNCHANGED settings, dvl' \in LibType, server' \in ServerType,
           handles' \in Table(Id, HandleType), app' \in Table(Id, File \cup {Other}),
           IsFiniteSet(DOMAIN app'), TableInv(dvl'),
           SlotsOK(binding, Used(dvl'), dvl'.open_files, dvl'.open_files_idx, handles', app',
                   server'.failed),
           LocksCover(binding, Used(dvl'), dvl'.open_files, handles', app', server'.locks)
    PROVE  Typed' /\ NcInv'
<1>1. Typed'
  BY DEF Typed, settings
<1>2. binding' = binding
  BY DEF settings
<1>3. /\ SlotsOK(binding', Used(dvl)', dvl'.open_files, dvl'.open_files_idx, handles', app',
                 server'.failed)
      /\ LocksCover(binding', Used(dvl)', dvl'.open_files, handles', app', server'.locks)
  BY <1>2
<1>4. QED  BY <1>1, <1>3 DEF NcInv

LEMMA NcOpenStep ==
    ASSUME Typed, NcInv, UNCHANGED settings,
           NEW f \in ResultFile, NEW id \in Id, id \notin DOMAIN handles, NEW real \in BOOLEAN,
           NEW meta \in Id \cup {NoId}, binding = "netcdf" => meta = IF real THEN NoId ELSE id,
           ClientOpen(f, id, real, meta)
    PROVE  Typed' /\ NcInv'
<1> DEFINE v == [file |-> f, kind |-> IF real THEN "real" ELSE "meta"]
           i == SlotId(Head(dvl.free_files))
           U == Used(dvl)
           E == dvl.open_files
           T == dvl.open_files_idx
           U2 == Used(dvl')
           E2 == dvl'.open_files
           T2 == dvl'.open_files_idx
           fl == server.failed
           l == server.locks
<1>1. /\ dvl \in LibType /\ server \in ServerType
      /\ handles \in Table(Id, HandleType) /\ app \in Table(Id, File \cup {Other})
      /\ IsFiniteSet(DOMAIN app) /\ DOMAIN app \subseteq DOMAIN handles /\ NoId \notin Id
      /\ TableInv(dvl) /\ U \in SUBSET Slot /\ Indexed(U, E, T) /\ f \in File
      /\ l \in [File -> Nat]
  BY NcFacts DEF File
<1>2. /\ SlotsOK(binding, U, E, T, handles, app, fl)
      /\ LocksCover(binding, U, E, handles, app, l)
  BY NcFacts
<1>3. v \in HandleType
  BY <1>1 DEF HandleType
<1>4. /\ Filed(f, id, real, meta)
      /\ handles' = assigned(handles, id, v) /\ app' = assigned(app, id, f)
      /\ server' = OpenCounted(f, real)
  BY DEF ClientOpen, NewHandle
<1>5. Len(dvl.free_files) > 1
  BY <1>4, FiledEntry
<1>6. PICK e \in EntryType :
          /\ dvl' = Track(dvl, i, e)
          /\ e.path = f /\ e.state = (IF real THEN "OPEN" ELSE "SIM") /\ e.key = id
          /\ e.fid = id /\ e.meta = meta /\ e.other = NoId /\ e.hh_next = NoSlot
  BY <1>4, FiledEntry
<1>7. /\ dvl' \in LibType /\ TableInv(dvl')
      /\ i \in Slot /\ i \notin U /\ U2 = U \cup {i}
      /\ E2[i] = [e EXCEPT !.hh_next = Found(dvl, e.key)]
      /\ \A j \in U : E2[j] = E[j]
      /\ T2 = assigned(T, e.key, i)
  BY <1>1, <1>5, <1>6, TrackTable
<1>8. /\ E2[i].path = f /\ E2[i].state = (IF real THEN "OPEN" ELSE "SIM")
      /\ E2[i].key = id /\ E2[i].fid = id /\ E2[i].other = NoId
      /\ binding = "netcdf" => E2[i].meta = IF real THEN NoId ELSE id
  BY <1>6, <1>7 DEF EntryType
<1> HIDE DEF i, U, E, T, U2, E2, T2, fl, l, v
<1>9. DOMAIN T2 = DOMAIN T \cup {id} /\ T2[id] = i /\ \A k \in DOMAIN T : k # id => T2[k] = T[k]
  <2>1. T2 = assigned(T, id, i)
    BY <1>6, <1>7
  <2>2. QED  BY <2>1 DEF assigned
<1>10. /\ DOMAIN handles' = DOMAIN handles \cup {id} /\ handles'[id] = v
       /\ \A x \in DOMAIN handles : handles'[x] = handles[x]
  <2>1. handles' = assigned(handles, id, v)
    BY <1>4
  <2>2. QED  BY <2>1 DEF assigned
<1>11. /\ DOMAIN app' = DOMAIN app \cup {id} /\ app'[id] = f
       /\ \A x \in DOMAIN app : x # id => app'[x] = app[x]
  <2>1. app' = assigned(app, id, f)
    BY <1>4
  <2>2. QED  BY <2>1 DEF assigned
<1>12. /\ server' \in ServerType /\ server'.failed = fl
       /\ OneMore(l, server'.locks, f)
  BY <1>1, <1>4, OpenCountedFields DEF fl, l
<1>13. handles' \in Table(Id, HandleType) /\ app' \in Table(Id, File \cup {Other})
  BY <1>1, <1>3, <1>4, AssignedType
<1>14. IsFiniteSet(DOMAIN app')
  BY <1>1, <1>11, FS_AddElement
<1>15. id # NoId /\ i \notin U
  BY <1>1, <1>7
<1>16. NcOpened(binding, U, E, T, handles, app, id, f, real, U2, E2, T2, handles', app', i)
  BY <1>7, <1>8, <1>9, <1>10, <1>11, <1>15 DEF NcOpened, v
<1>17. /\ SlotsOK(binding, U2, E2, T2, handles', app', fl)
       /\ LocksCover(binding, U2, E2, handles', app', server'.locks)
  <2>1. SlotsOK(binding, U2, E2, T2, handles', app', fl)
    BY <1>1, <1>2, <1>16, NcOpenKeeps
  <2>2. LocksCover(binding, U2, E2, handles', app', server'.locks)
    <3> DEFINE l2 == server'.locks
    <3>1. /\ U \in SUBSET Slot /\ IsFiniteSet(DOMAIN app) /\ l \in [File -> Nat]
          /\ LocksCover(binding, U, E, handles, app, l) /\ DOMAIN app \subseteq DOMAIN handles
          /\ i \in Slot /\ OneMore(l, l2, f)
      BY <1>1, <1>2, <1>7, <1>12
    <3> HIDE DEF l2
    <3>2. LocksCover(binding, U2, E2, handles', app', l2)
      BY <1>16, <3>1, OpenClaims
    <3>3. QED  BY <3>2 DEF l2
  <2>3. QED  BY <2>1, <2>2
<1>18. /\ SlotsOK(binding, Used(dvl'), dvl'.open_files, dvl'.open_files_idx, handles', app',
                  server'.failed)
       /\ LocksCover(binding, Used(dvl'), dvl'.open_files, handles', app', server'.locks)
  BY <1>12, <1>17 DEF U2, E2, T2
<1>19. QED  BY <1>7, <1>12, <1>13, <1>14, <1>18, NcKeeps

LEMMA NcOpenFailsStep ==
    ASSUME Typed, NcInv, UNCHANGED settings,
           NEW f \in ResultFile, NEW old \in Id \cup {NoId}, ClientOpenFails(f, old)
    PROVE  Typed' /\ NcInv'
<1> DEFINE i == SlotId(Head(dvl.free_files))
           s == OpenCounted(f, TRUE)
           U == Used(dvl)
           E == dvl.open_files
           T == dvl.open_files_idx
           U2 == Used(dvl')
           E2 == dvl'.open_files
           T2 == dvl'.open_files_idx
           fl == server.failed
           fl2 == server'.failed
           l == server.locks
           l2 == server'.locks
<1>1. /\ dvl \in LibType /\ server \in ServerType
      /\ handles \in Table(Id, HandleType) /\ app \in Table(Id, File \cup {Other})
      /\ IsFiniteSet(DOMAIN app) /\ DOMAIN app \subseteq Id
      /\ TableInv(dvl) /\ U \in SUBSET Slot /\ Indexed(U, E, T)
      /\ l \in [File -> Nat]
  BY NcFacts
<1>2. /\ SlotsOK(binding, U, E, T, handles, app, fl)
      /\ LocksCover(binding, U, E, handles, app, l)
  BY NcFacts
<1>3. Filed(f, old, TRUE, NoId) /\ server' = Failed(s, old) /\ handles' = handles /\ app' = app
  BY DEF ClientOpenFails
<1>4. /\ Len(dvl.free_files) > 1
      /\ \E e \in EntryType :
            /\ dvl' = Track(dvl, i, e) /\ e.path = f /\ e.state = "OPEN" /\ e.key = old
            /\ e.fid = old /\ e.meta = NoId /\ e.other = NoId
  <2>1. ASSUME NEW real \in BOOLEAN, NEW meta \in Id \cup {NoId}, Filed(f, old, real, meta)
        PROVE  /\ Len(dvl.free_files) > 1
               /\ \E e \in EntryType :
                     /\ dvl' = Track(dvl, i, e) /\ e.path = f
                     /\ e.state = (IF real THEN "OPEN" ELSE "SIM") /\ e.key = old
                     /\ e.fid = old /\ e.meta = meta /\ e.other = NoId
    BY <2>1, FiledEntry
  <2>2. QED  BY <1>3, <2>1
<1>5. PICK e \in EntryType :
            /\ dvl' = Track(dvl, i, e) /\ e.path = f /\ e.state = "OPEN" /\ e.key = old
            /\ e.fid = old /\ e.meta = NoId /\ e.other = NoId
  BY <1>4
<1>6. /\ dvl' \in LibType /\ TableInv(dvl')
      /\ i \in Slot /\ i \notin U /\ U2 = U \cup {i}
      /\ E2[i] = [e EXCEPT !.hh_next = Found(dvl, e.key)]
      /\ \A j \in U : E2[j] = E[j]
      /\ T2 = assigned(T, e.key, i)
  BY <1>1, <1>4, <1>5, TrackTable
<1>7. /\ E2[i].path = f /\ E2[i].state = "OPEN" /\ E2[i].key = old /\ E2[i].fid = old
      /\ E2[i].meta = NoId /\ E2[i].other = NoId
  BY <1>5, <1>6 DEF EntryType
<1>8. /\ s \in ServerType /\ s.failed = fl /\ OneMore(l, s.locks, f)
  BY <1>1, OpenCountedFields
<1> HIDE DEF s
<1>9. /\ server' \in ServerType /\ fl2 = fl \cup ({old} \cap DOMAIN app) /\ OneMore(l, l2, f)
  BY <1>1, <1>3, <1>8, FailedFields
<1> HIDE DEF i, U, E, T, U2, E2, T2, fl, fl2, l, l2
<1>10. DOMAIN T2 = DOMAIN T \cup {old} /\ T2[old] = i /\ \A k \in DOMAIN T : k # old => T2[k] = T[k]
  <2>1. T2 = assigned(T, old, i)
    BY <1>5, <1>6
  <2>2. QED  BY <2>1 DEF assigned
<1>11. NcFiled(U, E, T, app, fl, f, old, U2, E2, T2, fl2, i)
  BY <1>6, <1>7, <1>9, <1>10 DEF NcFiled
<1>12. SlotsOK(binding, U2, E2, T2, handles', app', fl2)
  BY <1>1, <1>2, <1>3, <1>11, NcOpenFailsKeeps
<1>13. LocksCover(binding, U2, E2, handles', app', l2)
  BY <1>1, <1>2, <1>3, <1>6, <1>9, <1>11, OpenFailsClaims
<1>14. /\ SlotsOK(binding, Used(dvl'), dvl'.open_files, dvl'.open_files_idx, handles', app',
                  server'.failed)
       /\ LocksCover(binding, Used(dvl'), dvl'.open_files, handles', app', server'.locks)
  BY <1>12, <1>13 DEF U2, E2, T2, l2, fl2
<1>15. /\ handles' \in Table(Id, HandleType) /\ app' \in Table(Id, File \cup {Other})
       /\ IsFiniteSet(DOMAIN app')
  BY <1>1, <1>3
<1>16. QED  BY <1>6, <1>9, <1>14, <1>15, NcKeeps

LEMMA NcPlainOpenStep ==
    ASSUME Typed, NcInv, UNCHANGED settings,
           NEW id \in Id, id \notin DOMAIN handles, PlainOpen(id)
    PROVE  Typed' /\ NcInv'
<1> DEFINE v == [file |-> Other, kind |-> "real"]
           U == Used(dvl)
           E == dvl.open_files
           T == dvl.open_files_idx
           fl == server.failed
           l == server.locks
<1>1. /\ dvl \in LibType /\ server \in ServerType
      /\ handles \in Table(Id, HandleType) /\ app \in Table(Id, File \cup {Other})
      /\ IsFiniteSet(DOMAIN app) /\ DOMAIN app \subseteq DOMAIN handles
      /\ TableInv(dvl) /\ U \in SUBSET Slot /\ l \in [File -> Nat]
  BY NcFacts
<1>2. /\ SlotsOK(binding, U, E, T, handles, app, fl)
      /\ LocksCover(binding, U, E, handles, app, l)
  BY NcFacts
<1>3. /\ handles' = assigned(handles, id, v) /\ app' = assigned(app, id, Other)
      /\ dvl' = dvl /\ server' = server
  BY DEF PlainOpen, NewHandle
<1>4. v \in HandleType
  BY DEF HandleType
<1> HIDE DEF U, E, T, fl, l, v
<1>5. /\ DOMAIN handles' = DOMAIN handles \cup {id} /\ handles'[id] = v
      /\ \A x \in DOMAIN handles : handles'[x] = handles[x]
  BY <1>3 DEF assigned
<1>6. /\ DOMAIN app' = DOMAIN app \cup {id} /\ app'[id] = Other
      /\ \A x \in DOMAIN app : x # id => app'[x] = app[x]
  BY <1>3 DEF assigned
<1>7. handles' \in Table(Id, HandleType) /\ app' \in Table(Id, File \cup {Other})
  BY <1>1, <1>3, <1>4, AssignedType
<1>8. IsFiniteSet(DOMAIN app')
  BY <1>1, <1>6, FS_AddElement
<1>9. handles'[id] = [file |-> Other, kind |-> "real"]
  BY <1>5 DEF v
<1>10. SlotsOK(binding, U, E, T, handles', app', fl)
  BY <1>2, <1>5, <1>6, <1>9, NcPlainOpenKeeps
<1>11. LocksCover(binding, U, E, handles', app', l)
  BY <1>1, <1>2, <1>5, <1>6, <1>9, PlainOpenClaims
<1>12. /\ SlotsOK(binding, Used(dvl'), dvl'.open_files, dvl'.open_files_idx, handles', app',
                  server'.failed)
       /\ LocksCover(binding, Used(dvl'), dvl'.open_files, handles', app', server'.locks)
  BY <1>3, <1>10, <1>11 DEF U, E, T, l, fl
<1>13. dvl' \in LibType /\ server' \in ServerType /\ TableInv(dvl')
  BY <1>1, <1>3
<1>14. QED  BY <1>7, <1>8, <1>12, <1>13, NcKeeps

(* What a get makes of the table: fid is the handle it goes on with.       *)
LEMMA GotFacts ==
    ASSUME Typed, NcInv, NEW k \in DOMAIN app, Tracked(k), NEW fid \in Id \cup {NoId},
           Got(k, fid), NEW h2, \A x \in DOMAIN handles : h2[x] = handles[x]
    PROVE  /\ dvl' \in LibType /\ TableInv(dvl') /\ app' = app
           /\ Used(dvl') = Used(dvl) /\ dvl'.open_files_idx = dvl.open_files_idx
           /\ NcGot(Used(dvl), dvl.open_files, dvl.open_files_idx, handles, k, fid,
                    dvl'.open_files, h2)
           /\ Entry(k) = dvl.open_files[dvl.open_files_idx[k]] /\ Entry(k) \in EntryType
           /\ Entry(k).path \in File \cup {Other} /\ Entry(k).fid \in Id \cup {NoId}
<1> DEFINE i == dvl.open_files_idx[k]
           x == dvl.open_files[i]
           e == [x EXCEPT !.state = "OPEN", !.fid = fid]
<1>1. dvl \in LibType /\ TableInv(dvl) /\ Indexed(Used(dvl), dvl.open_files, dvl.open_files_idx)
  BY NcFacts
<1>2. k \in DOMAIN dvl.open_files_idx /\ i \in Slot /\ Entry(k) = x /\ x \in EntryType
  BY <1>1, TypedFacts DEF Tracked, Entry
<1>3. x.key = k
  BY <1>1, <1>2 DEF Indexed
<1>4. x.state = "SIM" /\ app' = app
  BY <1>2 DEF Got
<1>5. dvl' = [dvl EXCEPT !.open_files[i] = e]
  BY <1>1, <1>2, LibFields DEF Got
<1> HIDE DEF x
<1>6. /\ e \in EntryType /\ e.path = x.path /\ e.state = "OPEN" /\ e.key = k /\ e.fid = fid
      /\ e.meta = x.meta /\ e.other = x.other /\ e.hh_next = x.hh_next
  BY <1>2, <1>3 DEF EntryType
<1> HIDE DEF e
<1>7. e.hh_next = dvl.open_files[dvl.open_files_idx[k]].hh_next
  BY <1>6 DEF x
<1>8. /\ dvl' \in LibType /\ TableInv(dvl') /\ Used(dvl') = Used(dvl)
      /\ dvl'.open_files[i] = e
      /\ \A j \in Used(dvl) \ {i} : dvl'.open_files[j] = dvl.open_files[j]
      /\ dvl'.open_files_idx = dvl.open_files_idx
  BY <1>1, <1>2, <1>5, <1>6, <1>7, SetTable
<1>9. NcGot(Used(dvl), dvl.open_files, dvl.open_files_idx, handles, k, fid,
            dvl'.open_files, h2)
  BY <1>2, <1>3, <1>4, <1>6, <1>8 DEF NcGot, x
<1>10. x.path \in File \cup {Other} /\ x.fid \in Id \cup {NoId}
  BY <1>2 DEF EntryType
<1>11. QED  BY <1>2, <1>4, <1>8, <1>9, <1>10 DEF x

LEMMA GetStep ==
    ASSUME Typed, NcInv, UNCHANGED settings,
           NEW id \in Id, id \notin DOMAIN handles, NEW k \in DOMAIN app, Tracked(k),
           dvl_nc_get(k, id)
    PROVE  Typed' /\ NcInv'
<1> DEFINE v == [file |-> Entry(k).path, kind |-> "real"]
           U == Used(dvl)
           E == dvl.open_files
           T == dvl.open_files_idx
           E2 == dvl'.open_files
           fl == server.failed
           l == server.locks
<1>1. /\ server \in ServerType
      /\ handles \in Table(Id, HandleType) /\ app \in Table(Id, File \cup {Other})
      /\ IsFiniteSet(DOMAIN app) /\ DOMAIN app \subseteq DOMAIN handles
      /\ U \in SUBSET Slot /\ l \in [File -> Nat] /\ Indexed(U, E, T)
  BY NcFacts
<1>2. /\ SlotsOK(binding, U, E, T, handles, app, fl)
      /\ LocksCover(binding, U, E, handles, app, l)
  BY NcFacts
<1>3. Got(k, id) /\ handles' = assigned(handles, id, v) /\ server' = server
  BY DEF dvl_nc_get, NewHandle
<1> HIDE DEF v
<1>4. /\ DOMAIN handles' = DOMAIN handles \cup {id} /\ handles'[id] = v
      /\ \A x \in DOMAIN handles : handles'[x] = handles[x]
  BY <1>3 DEF assigned
<1>5. /\ dvl' \in LibType /\ TableInv(dvl') /\ app' = app
      /\ Used(dvl') = U /\ dvl'.open_files_idx = T
      /\ NcGot(U, E, T, handles, k, id, E2, handles')
      /\ Entry(k) = E[T[k]] /\ Entry(k).path \in File \cup {Other}
  BY <1>3, <1>4, GotFacts
<1>6. v \in HandleType /\ v = [file |-> E[T[k]].path, kind |-> "real"]
  BY <1>5 DEF HandleType, v
<1> HIDE DEF U, E, T, E2, fl, l
<1>7. SlotsOK(binding, U, E2, T, handles', app, fl)
  BY <1>1, <1>2, <1>4, <1>5, <1>6, NcGetKeeps
<1>8. LocksCover(binding, U, E2, handles', app, l)
  BY <1>1, <1>2, <1>5, GetClaims
<1>9. handles' \in Table(Id, HandleType)
  BY <1>1, <1>3, <1>6, AssignedType
<1>10. /\ SlotsOK(binding, Used(dvl'), dvl'.open_files, dvl'.open_files_idx, handles', app',
                  server'.failed)
       /\ LocksCover(binding, Used(dvl'), dvl'.open_files, handles', app', server'.locks)
  BY <1>3, <1>5, <1>7, <1>8 DEF E2, l, fl
<1>11. /\ server' \in ServerType /\ app' \in Table(Id, File \cup {Other})
       /\ IsFiniteSet(DOMAIN app')
  BY <1>1, <1>3, <1>5
<1>12. QED  BY <1>5, <1>9, <1>10, <1>11, NcKeeps

LEMMA GetFailsStep ==
    ASSUME Typed, NcInv, UNCHANGED settings, NEW k \in DOMAIN app, Tracked(k),
           dvl_nc_get_fails(k)
    PROVE  Typed' /\ NcInv'
<1> DEFINE U == Used(dvl)
           E == dvl.open_files
           T == dvl.open_files_idx
           E2 == dvl'.open_files
           fl == server.failed
           fl2 == server'.failed
           l == server.locks
<1>1. /\ server \in ServerType
      /\ handles \in Table(Id, HandleType) /\ app \in Table(Id, File \cup {Other})
      /\ IsFiniteSet(DOMAIN app) /\ DOMAIN app \subseteq DOMAIN handles /\ DOMAIN app \subseteq Id
      /\ U \in SUBSET Slot /\ l \in [File -> Nat] /\ Indexed(U, E, T)
  BY NcFacts
<1>2. /\ SlotsOK(binding, U, E, T, handles, app, fl)
      /\ LocksCover(binding, U, E, handles, app, l)
  BY NcFacts
<1>3. /\ Got(k, Entry(k).fid) /\ handles' = handles /\ server' = Failed(server, k)
      /\ Entry(k).fid \in Id \cup {NoId} /\ Entry(k) = E[T[k]]
  <2>1. Entry(k) \in EntryType
    BY TypedFacts DEF Tracked
  <2>2. QED  BY <2>1 DEF dvl_nc_get_fails, EntryType, Entry
<1>4. /\ dvl' \in LibType /\ TableInv(dvl') /\ app' = app
      /\ Used(dvl') = U /\ dvl'.open_files_idx = T
      /\ NcGot(U, E, T, handles, k, E[T[k]].fid, E2, handles)
  BY <1>3, GotFacts
<1>5. server' \in ServerType /\ server'.locks = l /\ fl2 = fl \cup {k}
  BY <1>1, <1>3, FailedFields
<1> HIDE DEF U, E, T, E2, fl, fl2, l
<1>6. SlotsOK(binding, U, E2, T, handles, app, fl2)
  BY <1>1, <1>2, <1>4, <1>5, NcGetFailsKeeps
<1>7. LocksCover(binding, U, E2, handles, app, l)
  BY <1>1, <1>2, <1>4, GetClaims
<1>8. /\ SlotsOK(binding, Used(dvl'), dvl'.open_files, dvl'.open_files_idx, handles', app',
                 server'.failed)
      /\ LocksCover(binding, Used(dvl'), dvl'.open_files, handles', app', server'.locks)
  BY <1>3, <1>4, <1>5, <1>6, <1>7 DEF E2, fl2
<1>9. /\ handles' \in Table(Id, HandleType) /\ app' \in Table(Id, File \cup {Other})
      /\ IsFiniteSet(DOMAIN app')
  BY <1>1, <1>3, <1>4
<1>10. QED  BY <1>4, <1>5, <1>8, <1>9, NcKeeps

LEMMA NcPlainCloseStep ==
    ASSUME Typed, NcInv, UNCHANGED settings, NEW k \in DOMAIN app, PlainClose(k)
    PROVE  Typed' /\ NcInv'
<1> DEFINE U == Used(dvl)
           E == dvl.open_files
           T == dvl.open_files_idx
           fl == server.failed
           l == server.locks
<1>1. /\ dvl \in LibType /\ TableInv(dvl) /\ server \in ServerType
      /\ handles \in Table(Id, HandleType) /\ app \in Table(Id, File \cup {Other})
      /\ IsFiniteSet(DOMAIN app) /\ DOMAIN app \subseteq DOMAIN handles
      /\ U \in SUBSET Slot /\ l \in [File -> Nat]
  BY NcFacts
<1>2. /\ SlotsOK(binding, U, E, T, handles, app, fl)
      /\ LocksCover(binding, U, E, handles, app, l)
  BY NcFacts
<1>3. /\ k \notin DOMAIN T /\ handles' = Without(handles, {k}) /\ app' = Without(app, {k})
      /\ dvl' = dvl /\ server' = server
  BY DEF PlainClose, Closed, Tracked
<1> HIDE DEF U, E, T, fl, l
<1>4. /\ DOMAIN handles' = DOMAIN handles \ {k}
      /\ \A x \in DOMAIN handles \ {k} : handles'[x] = handles[x]
  BY <1>3 DEF Without, Restrict
<1>5. DOMAIN app' = DOMAIN app \ {k} /\ \A x \in DOMAIN app \ {k} : app'[x] = app[x]
  BY <1>3 DEF Without, Restrict
<1>6. SlotsOK(binding, U, E, T, handles', app', fl)
  BY <1>2, <1>3, <1>4, <1>5, NcPlainCloseKeeps
<1>7. IsFiniteSet(DOMAIN app')
  BY <1>1, <1>5, FS_RemoveElement
<1>8. LocksCover(binding, U, E, handles', app', l)
  <2>1. \A x \in DOMAIN app \ {k} : app'[x] = app[x] /\ handles'[x] = handles[x]
    BY <1>1, <1>4, <1>5
  <2>2. Backed(binding, U, E, handles', app')
    BY <1>2, <1>5, <2>1 DEF Backed, LocksCover
  <2>3. ASSUME NEW f \in ResultFile
        PROVE  Fewer(SlotClaims(binding, U, E, f), SlotClaims(binding, U, E, f),
                     IdClaims(binding, handles, app, f), IdClaims(binding, handles', app', f),
                     l[f], l[f])
    <3>1. IdClaims(binding, handles', app', f) \subseteq IdClaims(binding, handles, app, f)
      BY <1>5, <2>1 DEF IdClaims
    <3>2. l[f] >= l[f]
      BY <1>1 DEF File
    <3>3. QED  BY <3>1, <3>2 DEF Fewer, Within
  <2>4. QED  BY <1>1, <1>2, <1>7, <2>2, <2>3, FewerClaims
<1>9. handles' \in Table(Id, HandleType) /\ app' \in Table(Id, File \cup {Other})
  BY <1>1, <1>3, WithoutType
<1>10. /\ SlotsOK(binding, Used(dvl'), dvl'.open_files, dvl'.open_files_idx, handles', app',
                  server'.failed)
       /\ LocksCover(binding, Used(dvl'), dvl'.open_files, handles', app', server'.locks)
  BY <1>3, <1>6, <1>8 DEF U, E, T, l, fl
<1>11. dvl' \in LibType /\ server' \in ServerType /\ TableInv(dvl')
  BY <1>1, <1>3
<1>12. QED  BY <1>7, <1>9, <1>10, <1>11, NcKeeps

LEMMA OneLess ==
    ASSUME NEW d \in LibType, TableInv(d), NEW k \in DOMAIN d.open_files_idx
    PROVE  LET r == Untrack(d, k)
               T == d.open_files_idx
           IN  /\ r \in LibType /\ TableInv(r) /\ Used(r) = Used(d) \ {T[k]}
               /\ \A j \in Used(r) : r.open_files[j] = d.open_files[j]
               /\ \A x \in DOMAIN T \ {k} :
                     x \in DOMAIN r.open_files_idx /\ r.open_files_idx[x] = T[x]
<1> DEFINE T == d.open_files_idx
           i == T[k]
           next == d.open_files[i].hh_next
           r == Untrack(d, k)
           T2 == r.open_files_idx
<1>1. /\ r \in LibType /\ TableInv(r) /\ Used(r) = Used(d) \ {i}
      /\ \A j \in Used(r) : r.open_files[j] = d.open_files[j]
      /\ T2 = IF next = NoSlot THEN Without(T, {k}) ELSE assigned(T, k, next)
  BY UntrackTable
<1> HIDE DEF T, T2, next, r, i
<1>2. \A x \in DOMAIN T \ {k} : x \in DOMAIN T2 /\ T2[x] = T[x]
  <2>1. CASE next = NoSlot
    <3>1. T2 = Without(T, {k})
      BY <1>1, <2>1
    <3>2. QED  BY <3>1 DEF Without, Restrict
  <2>2. CASE next # NoSlot
    <3>1. T2 = assigned(T, k, next)
      BY <1>1, <2>2
    <3>2. QED  BY <3>1 DEF assigned
  <2>3. QED  BY <2>1, <2>2
<1>3. QED  BY <1>1, <1>2 DEF T, T2, r, i

(* A close of k: C is what the call closes, and the entry is given back or *)
(* not.                                                                    *)
LEMMA EntryCloseStep ==
    ASSUME Typed, NcInv, UNCHANGED settings, NEW k \in DOMAIN app, Tracked(k),
           NEW C \in SUBSET {k, Entry(k).fid}, Entry(k).fid \in C, binding = "netcdf" => k \in C,
           handles' = Without(handles, C), app' = Without(app, {k}),
           dvl' = Untrack(dvl, k) \/ (dvl' = dvl /\ (Entry(k).fid = k \/ k \notin C)),
           server' \in ServerType, server'.failed = server.failed \ {k},
           Released(binding, Used(dvl), dvl.open_files, dvl.open_files_idx, handles, app, k,
                    Used(dvl'), server.locks, server'.locks)
    PROVE  Typed' /\ NcInv'
<1> DEFINE U == Used(dvl)
           E == dvl.open_files
           T == dvl.open_files_idx
           U2 == Used(dvl')
           E2 == dvl'.open_files
           T2 == dvl'.open_files_idx
           fl == server.failed
           fl2 == server'.failed
           l == server.locks
           l2 == server'.locks
<1>1. /\ dvl \in LibType /\ TableInv(dvl) /\ server \in ServerType
      /\ handles \in Table(Id, HandleType) /\ app \in Table(Id, File \cup {Other})
      /\ IsFiniteSet(DOMAIN app) /\ Indexed(U, E, T)
      /\ U \in SUBSET Slot /\ l \in [File -> Nat]
  BY NcFacts
<1>2. /\ SlotsOK(binding, U, E, T, handles, app, fl)
      /\ LocksCover(binding, U, E, handles, app, l)
  BY NcFacts
<1>3. k \in DOMAIN T /\ Entry(k) = E[T[k]] /\ l2 \in [File -> Nat]
  BY ServerFields DEF Tracked, Entry
<1>4. /\ dvl' \in LibType /\ TableInv(dvl')
      /\ U2 \in {U, U \ {T[k]}}
      /\ T[k] \in U2 => (E[T[k]].fid = k \/ k \notin C)
      /\ \A j \in U2 : E2[j] = E[j]
      /\ \A x \in DOMAIN T \ {k} : x \in DOMAIN T2 /\ T2[x] = T[x]
  <2>1. CASE dvl' = Untrack(dvl, k)
    <3> DEFINE r == Untrack(dvl, k)
    <3>1. /\ r \in LibType /\ TableInv(r) /\ Used(r) = U \ {T[k]}
          /\ \A j \in Used(r) : r.open_files[j] = E[j]
          /\ \A x \in DOMAIN T \ {k} : x \in DOMAIN r.open_files_idx /\ r.open_files_idx[x] = T[x]
      <4>1. dvl \in LibType /\ TableInv(dvl) /\ k \in DOMAIN dvl.open_files_idx
        BY <1>1, <1>3
      <4>2. QED  BY <4>1, OneLess
    <3> HIDE DEF r
    <3>2. dvl' = r
      BY <2>1 DEF r
    <3>3. QED  BY <3>1, <3>2
  <2>2. CASE dvl' = dvl /\ (Entry(k).fid = k \/ k \notin C)
    BY <1>1, <1>3, <2>2
  <2>3. QED  BY <2>1, <2>2
<1>5. fl2 = fl \ {k} /\ Released(binding, U, E, T, handles, app, k, U2, l, l2)
  OBVIOUS
<1> HIDE DEF U, E, T, U2, E2, T2, fl, fl2, l, l2
<1>6. /\ DOMAIN handles' = DOMAIN handles \ C
      /\ \A x \in DOMAIN handles \ C : handles'[x] = handles[x]
  BY DEF Without, Restrict
<1>7. DOMAIN app' = DOMAIN app \ {k} /\ \A x \in DOMAIN app \ {k} : app'[x] = app[x]
  BY DEF Without, Restrict
<1>8. C \subseteq {k, E[T[k]].fid} /\ E[T[k]].fid \in C
  BY <1>3
<1>9. NcClosed(binding, U, E, T, handles, app, fl, k, C, U2, E2, T2, handles', app', fl2)
  <2>1. binding = "netcdf" => k \in C
    OBVIOUS
  <2>2. QED  BY <1>3, <1>4, <1>5, <1>6, <1>7, <1>8, <2>1 DEF NcClosed
<1>10. SlotsOK(binding, U2, E2, T2, handles', app', fl2)
  BY <1>1, <1>2, <1>9, NcCloseKeeps
<1>11. LocksCover(binding, U2, E2, handles', app', l2)
  BY <1>1, <1>2, <1>3, <1>5, <1>9, CloseClaims
<1>12. handles' \in Table(Id, HandleType) /\ app' \in Table(Id, File \cup {Other})
  BY <1>1, WithoutType
<1>13. IsFiniteSet(DOMAIN app')
  BY <1>1, <1>7, FS_RemoveElement
<1>14. /\ SlotsOK(binding, Used(dvl'), dvl'.open_files, dvl'.open_files_idx, handles', app',
                  server'.failed)
       /\ LocksCover(binding, Used(dvl'), dvl'.open_files, handles', app', server'.locks)
  BY <1>10, <1>11 DEF U2, E2, T2, l2, fl2
<1>15. QED  BY <1>4, <1>12, <1>13, <1>14, NcKeeps

(* The entry found under an id of the application's, before a close.       *)
LEMMA CloseFacts ==
    ASSUME Typed, NcInv, NEW k \in DOMAIN app, Tracked(k)
    PROVE  LET i == dvl.open_files_idx[k]
               e == dvl.open_files[i]
           IN  /\ i \in Used(dvl) /\ Entry(k) = e /\ e.key = k /\ k # NoId
               /\ e.path \in ResultFile /\ e.path \in File
               /\ SlotOK(binding, e, handles, app)
               /\ e.fid = k \/ Live(e, handles, app)
               /\ e.fid \in DOMAIN handles /\ handles[e.fid] \in HandleType
               /\ ToClose(k) = e.fid
<1> DEFINE i == dvl.open_files_idx[k]
           e == dvl.open_files[i]
<1>1. /\ Indexed(Used(dvl), dvl.open_files, dvl.open_files_idx) /\ k \in DOMAIN handles
      /\ SlotsOK(binding, Used(dvl), dvl.open_files, dvl.open_files_idx, handles, app,
                 server.failed)
      /\ k # NoId
  BY NcFacts
<1>2. i \in Used(dvl) /\ e.key = k /\ Entry(k) = e
  BY <1>1 DEF Indexed, Tracked, Entry
<1>3. SlotOK(binding, e, handles, app)
  BY <1>1, <1>2 DEF SlotsOK
<1> HIDE DEF e, i
<1>4. e.path \in ResultFile /\ e.path \in File /\ (e.state = "SIM" => e.fid = k)
  BY <1>2, <1>3 DEF SlotOK, File
<1>5. e.fid = k \/ Live(e, handles, app)
  BY <1>2, <1>3 DEF SlotOK, Gone
<1>6. e.fid \in DOMAIN handles
  BY <1>1, <1>5 DEF Live
<1>7. handles[e.fid] \in HandleType
  BY <1>6, TypedFacts
<1>8. ToClose(k) = e.fid
  BY <1>2, <1>4 DEF ToClose
<1>9. QED  BY <1>1, <1>2, <1>3, <1>4, <1>5, <1>6, <1>7, <1>8 DEF e, i

LEMMA NcCloseStep ==
    ASSUME Typed, NcInv, UNCHANGED settings, binding = "netcdf",
           NEW k \in DOMAIN app, Tracked(k), client_nc_close(k)
    PROVE  Typed' /\ NcInv'
<1> DEFINE i == dvl.open_files_idx[k]
           e == dvl.open_files[i]
           closed == handles[e.fid]
           l == server.locks
           s == Forget(server, k)
<1>1. /\ i \in Used(dvl) /\ Entry(k) = e /\ e.key = k /\ k # NoId
      /\ e.path \in ResultFile /\ e.path \in File
      /\ SlotOK(binding, e, handles, app)
      /\ e.fid = k \/ Live(e, handles, app)
      /\ e.fid \in DOMAIN handles /\ closed \in HandleType
      /\ ToClose(k) = e.fid
  BY CloseFacts
<1>2. server \in ServerType /\ l \in [File -> Nat] /\ DOMAIN app \subseteq Id
  BY NcFacts
<1>3. s \in ServerType /\ s.locks = l /\ s.failed = server.failed \ {k}
  BY <1>2, FailedFields
<1>4. \A g \in ResultFile : l[g] >= l[g]
  BY <1>2 DEF File
<1>5. app' = Without(app, {k}) /\ Entry(k).fid = e.fid
  BY <1>1 DEF client_nc_close
<1> HIDE DEF s, l, i, e, closed
<1>6. CASE closed.file = Other
  <2>1. handles' = Without(handles, {e.fid}) /\ dvl' = dvl /\ server' = s
    BY <1>1, <1>6 DEF client_nc_close, Closed, closed, s
  <2>2. e.fid = k
    <3>1. Other \notin ResultFile
      BY DVLibAssumption
    <3>2. QED  BY <1>1, <1>6, <3>1 DEF Live, closed
  <2>3. server' \in ServerType /\ server'.failed = server.failed \ {k}
    BY <1>3, <2>1
  <2>4. Released(binding, Used(dvl), dvl.open_files, dvl.open_files_idx, handles, app, k,
                 Used(dvl'), server.locks, server'.locks)
    BY <1>3, <1>4, <2>1 DEF Released, l
  <2>5. {e.fid} \in SUBSET {k, Entry(k).fid} /\ Entry(k).fid \in {e.fid} /\ k \in {e.fid}
    BY <1>5, <2>2
  <2>6. QED  BY <1>5, <2>1, <2>2, <2>3, <2>4, <2>5, EntryCloseStep
<1>7. CASE closed.file # Other
  <2> DEFINE C == {e.fid} \cup (IF e.state = "OPEN" THEN ClosedWith(e) ELSE {})
             u == Unlocked(s, closed.file)
  <2>1. /\ handles' = Without(handles, C) /\ dvl' = Untrack(dvl, k)
        /\ server' = IF e.state = "OPEN" /\ closed.kind = "real" THEN u ELSE s
    BY <1>1, <1>7 DEF client_nc_close, Closed, closed, s
  <2>2. C = {k, e.fid}
    <3>1. CASE e.state = "SIM"
      <4>1. e.fid = k
        BY <1>1, <3>1 DEF SlotOK
      <4>2. QED  BY <3>1, <4>1
    <3>2. CASE e.state = "OPEN" /\ e.fid = k
      <4>1. e.meta \in {NoId, k}
        BY <1>1 DEF SlotOK
      <4>2. ClosedWith(e) \subseteq {k}
        BY <4>1 DEF ClosedWith
      <4>3. QED  BY <3>2, <4>2
    <3>3. CASE e.state = "OPEN" /\ e.fid # k
      <4>1. e.meta = k
        BY <1>1, <3>3 DEF SlotOK
      <4>2. ClosedWith(e) = {k}
        BY <1>1, <4>1 DEF ClosedWith
      <4>3. QED  BY <3>3, <4>2
    <3>4. e.state \in {"OPEN", "SIM"}
      BY <1>1 DEF SlotOK
    <3>5. QED  BY <3>1, <3>2, <3>3, <3>4
  <2>3. C \in SUBSET {k, Entry(k).fid} /\ Entry(k).fid \in C /\ k \in C
    BY <1>5, <2>2
  <2>4. closed.file \in File
    BY <1>1, <1>7 DEF HandleType
  <2>5. /\ u \in ServerType /\ u.failed = s.failed /\ u.locks[closed.file] >= l[closed.file] - 1
        /\ \A g \in File : g # closed.file => u.locks[g] = l[g]
    BY <1>3, <2>4, UnlockedFields
  <2> HIDE DEF C, u
  <2>6. server' \in ServerType /\ server'.failed = server.failed \ {k}
    BY <1>3, <2>1, <2>5
  <2>7. Used(dvl') = Used(dvl) \ {i}
    <3>1. dvl \in LibType /\ TableInv(dvl) /\ k \in DOMAIN dvl.open_files_idx
      BY NcFacts DEF Tracked
    <3>2. Used(Untrack(dvl, k)) = Used(dvl) \ {dvl.open_files_idx[k]}
      BY <3>1, OneLess
    <3>3. QED  BY <2>1, <3>2 DEF i
  <2>8. ASSUME e.state = "OPEN", closed.kind = "real", closed.file \in ResultFile
        PROVE  \/ k \in IdClaims(binding, handles, app, closed.file)
               \/ i \in SlotClaims(binding, Used(dvl), dvl.open_files, closed.file)
    <3>1. CASE e.fid = k
      <4>1. closed = [file |-> closed.file, kind |-> "real"]
        BY <1>1, <2>8 DEF HandleType
      <4>2. QED  BY <3>1, <4>1 DEF IdClaims, closed
    <3>2. CASE e.fid # k
      <4>1. e.path = closed.file /\ e.meta = k
        BY <1>1, <2>8, <3>2 DEF Live, closed, SlotOK
      <4>2. QED  BY <1>1, <4>1 DEF SlotClaims, e
    <3>3. QED  BY <3>1, <3>2
  <2>9. Released(binding, Used(dvl), dvl.open_files, dvl.open_files_idx, handles, app, k,
                 Used(dvl'), l, server'.locks)
    <3> SUFFICES ASSUME NEW g \in ResultFile
                 PROVE  \/ server'.locks[g] >= l[g]
                        \/ /\ server'.locks[g] >= l[g] - 1
                           /\ \/ k \in IdClaims(binding, handles, app, g)
                              \/ /\ Used(dvl') = Used(dvl) \ {dvl.open_files_idx[k]}
                                 /\ dvl.open_files_idx[k]
                                        \in SlotClaims(binding, Used(dvl), dvl.open_files, g)
      BY DEF Released
    <3>1. CASE e.state = "OPEN" /\ closed.kind = "real" /\ g = closed.file
      BY <2>1, <2>5, <2>7, <2>8, <3>1 DEF i
    <3>2. CASE e.state = "OPEN" /\ closed.kind = "real" /\ g # closed.file
      <4>1. g \in File
        BY DEF File
      <4>2. server'.locks[g] = l[g]
        BY <2>1, <2>5, <3>2, <4>1
      <4>3. QED  BY <1>4, <4>2
    <3>3. CASE ~(e.state = "OPEN" /\ closed.kind = "real")
      <4>1. server'.locks[g] = l[g]
        BY <1>3, <2>1, <3>3
      <4>2. QED  BY <1>4, <4>1
    <3>4. QED  BY <3>1, <3>2, <3>3
  <2>10. QED  BY <1>5, <2>1, <2>3, <2>6, <2>9, EntryCloseStep DEF l
<1>8. QED  BY <1>6, <1>7

LEMMA NcmpiCloseStep ==
    ASSUME Typed, NcInv, UNCHANGED settings, binding = "pnetcdf",
           NEW k \in DOMAIN app, Tracked(k), client_ncmpi_close(k)
    PROVE  Typed' /\ NcInv'
<1> DEFINE i == dvl.open_files_idx[k]
           e == dvl.open_files[i]
           l == server.locks
           s == Forget(server, k)
           u == Unlocked(s, e.path)
           C == {e.fid}
<1>1. /\ i \in Used(dvl) /\ Entry(k) = e /\ e.key = k /\ k # NoId
      /\ e.path \in ResultFile /\ e.path \in File
      /\ e.fid = k \/ Live(e, handles, app)
  BY CloseFacts
<1>2. server \in ServerType /\ l \in [File -> Nat] /\ DOMAIN app \subseteq Id
  BY NcFacts
<1>3. s \in ServerType /\ s.locks = l /\ s.failed = server.failed \ {k}
  BY <1>2, FailedFields
<1>4. \A g \in ResultFile : l[g] >= l[g] /\ g \in File
  BY <1>2 DEF File
<1>5. /\ u \in ServerType /\ u.failed = s.failed /\ u.locks[e.path] >= l[e.path] - 1
      /\ \A g \in File : g # e.path => u.locks[g] = l[g]
  BY <1>1, <1>3, UnlockedFields
<1>6. ToClose(k) = e.fid
  BY CloseFacts
<1> HIDE DEF s, l, i, e, u
<1>7. /\ app' = Without(app, {k}) /\ handles' = Without(handles, C)
      /\ dvl' = IF in_result_dir THEN Untrack(dvl, k) ELSE dvl
      /\ server' = IF in_result_dir /\ e.state = "OPEN" THEN u ELSE s
  BY <1>1, <1>6 DEF client_ncmpi_close, Closed, u, s
<1>8. C \in SUBSET {k, Entry(k).fid} /\ Entry(k).fid \in C /\ (Entry(k).fid = k \/ k \notin C)
  BY <1>1
<1>9. server' \in ServerType /\ server'.failed = server.failed \ {k}
  BY <1>3, <1>5, <1>7
<1>10. in_result_dir => Used(dvl') = Used(dvl) \ {i}
  <2>1. dvl \in LibType /\ TableInv(dvl) /\ k \in DOMAIN dvl.open_files_idx
    BY NcFacts DEF Tracked
  <2>2. Used(Untrack(dvl, k)) = Used(dvl) \ {dvl.open_files_idx[k]}
    BY <2>1, OneLess
  <2>3. QED  BY <1>7, <2>2 DEF i
<1>11. i \in SlotClaims(binding, Used(dvl), dvl.open_files, e.path)
  BY <1>1 DEF SlotClaims, e
<1>12. Released(binding, Used(dvl), dvl.open_files, dvl.open_files_idx, handles, app, k,
                Used(dvl'), l, server'.locks)
  <2> SUFFICES ASSUME NEW g \in ResultFile
               PROVE  \/ server'.locks[g] >= l[g]
                      \/ /\ server'.locks[g] >= l[g] - 1
                         /\ Used(dvl') = Used(dvl) \ {dvl.open_files_idx[k]}
                         /\ dvl.open_files_idx[k]
                                \in SlotClaims(binding, Used(dvl), dvl.open_files, g)
    BY DEF Released
  <2>1. CASE in_result_dir /\ e.state = "OPEN" /\ g = e.path
    BY <1>5, <1>7, <1>10, <1>11, <2>1 DEF i
  <2>2. CASE in_result_dir /\ e.state = "OPEN" /\ g # e.path
    <3>1. server'.locks[g] = l[g]
      BY <1>4, <1>5, <1>7, <2>2
    <3>2. QED  BY <1>4, <3>1
  <2>3. CASE ~(in_result_dir /\ e.state = "OPEN")
    <3>1. server'.locks[g] = l[g]
      BY <1>3, <1>7, <2>3
    <3>2. QED  BY <1>4, <3>1
  <2>4. QED  BY <2>1, <2>2, <2>3
<1>13. dvl' = Untrack(dvl, k) \/ (dvl' = dvl /\ (Entry(k).fid = k \/ k \notin C))
  BY <1>7, <1>8
<1> HIDE DEF C
<1>14. QED  BY <1>7, <1>8, <1>9, <1>12, <1>13, EntryCloseStep DEF l

-----------------------------------------------------------------------------
\* Every call of a client.

ClientInv == IF binding = "hdf5" THEN H5Inv ELSE NcInv

(* Where the DV evicts a file, nobody has locked it.                       *)
LEMMA ServerTyped ==
    ASSUME Typed, UNCHANGED settings, Server
    PROVE  /\ Typed' /\ UNCHANGED <<dvl, handles, app>> /\ server'.locks = server.locks
           /\ server'.failed = server.failed
<1>1. server \in ServerType
  BY DEF Typed
<1>2. PICK X \in SUBSET ResultFile : server' = [server EXCEPT !.available = X]
  BY <1>1, ServerFields DEF Server
<1>3. server' \in ServerType /\ server'.locks = server.locks /\ server'.failed = server.failed
  BY <1>1, <1>2 DEF ServerType
<1>4. QED  BY <1>3 DEF Typed, Server, settings

LEMMA H5Step ==
    ASSUME Typed, H5Inv, UNCHANGED settings, binding = "hdf5",
           \/ \E id \in Id \ DOMAIN handles : Client(id)
           \/ ClientFails
           \/ ClientClose
           \/ Server
    PROVE  Typed' /\ H5Inv'
<1>1. ASSUME NEW id \in Id, id \notin DOMAIN handles, Client(id)
      PROVE  Typed' /\ H5Inv'
  <2>1. CASE PlainOpen(id)
    BY <1>1, <2>1, H5PlainOpenStep
  <2>2. ASSUME NEW f \in ResultFile, H5Fopen(f, id) PROVE Typed' /\ H5Inv'
    <3> DEFINE real == f \in server.available
               meta == IF real THEN NoId ELSE id
    <3>1. real \in BOOLEAN /\ meta \in Id \cup {NoId} /\ ClientOpen(f, id, real, meta)
      BY <1>1, <2>2 DEF H5Fopen
    <3> HIDE DEF real, meta
    <3>2. QED  BY <1>1, <3>1, H5OpenStep
  <2>3. ASSUME NEW k \in DOMAIN app, Tracked(k), H5Oopen(k, id) PROVE Typed' /\ H5Inv'
    BY <1>1, <2>3, ObjectOpenStep
  <2>4. QED  BY <1>1, <2>1, <2>2, <2>3 DEF Client
<1>2. CASE ClientFails
  <2>1. PICK f \in ResultFile : H5Fopen_fails(f)
    BY <1>2 DEF ClientFails
  <2>2. ClientOpenFails(f, NoId)
    BY <2>1 DEF H5Fopen_fails
  <2>3. QED  BY <2>2, H5OpenFailsStep
<1>3. CASE ClientClose
  <2>1. ASSUME NEW k \in DOMAIN app, PlainClose(k) PROVE Typed' /\ H5Inv'
    BY <2>1, H5PlainCloseStep
  <2>2. ASSUME NEW k \in DOMAIN app, Tracked(k)
        PROVE  k \in DOMAIN EntriesOf(dvl) /\ Entry(k) = EntriesOf(dvl)[k]
    <3>1. k \in Id /\ k # NoId
      BY TypedFacts, IndexFacts DEF Typed
    <3>2. QED  BY <2>2, <3>1, TypedFacts DEF Tracked
  <2>3. ASSUME NEW k \in DOMAIN app, Tracked(k), client_H5Fclose(k) PROVE Typed' /\ H5Inv'
    BY <2>2, <2>3, H5CloseStep
  <2>4. ASSUME NEW k \in DOMAIN app, Tracked(k), Both(k) # {k}, client_H5Fclose(Entry(k).other)
        PROVE  Typed' /\ H5Inv'
    <3>1. Entry(k).other \in DOMAIN EntriesOf(dvl)
      BY <2>4, TypedFacts DEF Both
    <3>2. QED  BY <2>4, <3>1, H5CloseStep
  <2>5. QED  BY <1>3, <2>1, <2>3, <2>4 DEF ClientClose
<1>4. CASE Server
  <2>1. Typed' /\ UNCHANGED <<dvl, handles, app>> /\ server'.locks = server.locks
    BY <1>4, ServerTyped
  <2>2. LocksOK(server, app)' /\ AllOK(EntriesOf(dvl), handles, app)'
    BY <2>1 DEF H5Inv, LocksOK
  <2>3. QED  BY <2>1, <2>2 DEF H5Inv
<1>5. QED  BY <1>1, <1>2, <1>3, <1>4

LEMMA NcStep ==
    ASSUME Typed, NcInv, UNCHANGED settings, binding \in {"netcdf", "pnetcdf"},
           \/ \E id \in Id \ DOMAIN handles : Client(id)
           \/ ClientFails
           \/ ClientClose
           \/ Server
    PROVE  Typed' /\ NcInv'
<1>1. ASSUME NEW id \in Id, id \notin DOMAIN handles, Client(id)
      PROVE  Typed' /\ NcInv'
  <2>1. CASE PlainOpen(id)
    BY <1>1, <2>1, NcPlainOpenStep
  <2>2. ASSUME NEW f \in ResultFile, binding = "netcdf", dvl_nc_open(f, id)
        PROVE  Typed' /\ NcInv'
    <3>1. PICK has_meta \in BOOLEAN :
              LET real == f \in server.available \/ ~has_meta
              IN  ClientOpen(f, id, real, IF real THEN NoId ELSE id)
      BY <2>2 DEF dvl_nc_open
    <3> DEFINE real == f \in server.available \/ ~has_meta
               meta == IF real THEN NoId ELSE id
    <3>2. real \in BOOLEAN /\ meta \in Id \cup {NoId} /\ ClientOpen(f, id, real, meta)
      BY <1>1, <3>1
    <3>3. meta = IF real THEN NoId ELSE id
      OBVIOUS
    <3> HIDE DEF real, meta
    <3>4. QED  BY <1>1, <3>2, <3>3, NcOpenStep
  <2>3. ASSUME NEW f \in ResultFile, binding = "pnetcdf", dvl_ncmpi_open(f, id)
        PROVE  Typed' /\ NcInv'
    <3> DEFINE real == f \in server.available
    <3>1. real \in BOOLEAN /\ ClientOpen(f, id, real, NoId)
      BY <2>3 DEF dvl_ncmpi_open
    <3> HIDE DEF real
    <3>2. NoId \in Id \cup {NoId} /\ binding # "netcdf"
      BY <2>3
    <3>3. QED  BY <1>1, <3>1, <3>2, NcOpenStep
  <2>4. ASSUME NEW k \in DOMAIN app, Tracked(k), dvl_nc_get(k, id) PROVE Typed' /\ NcInv'
    BY <1>1, <2>4, GetStep
  <2>5. QED  BY <1>1, <2>1, <2>2, <2>3, <2>4 DEF Client, dvl_ncmpi_get
<1>2. CASE ClientFails
  <2>1. ASSUME NEW f \in ResultFile, dvl_nc_open_fails(f) PROVE Typed' /\ NcInv'
    BY <2>1, NcOpenFailsStep DEF dvl_nc_open_fails
  <2>2. ASSUME NEW k \in DOMAIN app, Tracked(k), dvl_nc_get_fails(k) PROVE Typed' /\ NcInv'
    BY <2>2, GetFailsStep
  <2>3. QED  BY <1>2, <2>1, <2>2 DEF ClientFails, dvl_ncmpi_open_fails, dvl_ncmpi_get_fails
<1>3. CASE ClientClose
  <2>1. ASSUME NEW k \in DOMAIN app, PlainClose(k) PROVE Typed' /\ NcInv'
    BY <2>1, NcPlainCloseStep
  <2>2. ASSUME NEW k \in DOMAIN app, Tracked(k), binding = "netcdf", client_nc_close(k)
        PROVE  Typed' /\ NcInv'
    BY <2>2, NcCloseStep
  <2>3. ASSUME NEW k \in DOMAIN app, Tracked(k), binding = "pnetcdf", client_ncmpi_close(k)
        PROVE  Typed' /\ NcInv'
    BY <2>3, NcmpiCloseStep
  <2>4. QED  BY <1>3, <2>1, <2>2, <2>3 DEF ClientClose
<1>4. CASE Server
  <2>1. /\ Typed' /\ UNCHANGED <<dvl, handles, app>> /\ server'.locks = server.locks
        /\ server'.failed = server.failed
    BY <1>4, ServerTyped
  <2>2. binding' = binding
    BY DEF settings
  <2>3. /\ SlotsOK(binding, Used(dvl), dvl.open_files, dvl.open_files_idx, handles, app,
                   server.failed)'
        /\ LocksCover(binding, Used(dvl), dvl.open_files, handles, app, server.locks)'
    BY <2>1, <2>2 DEF NcInv
  <2>4. QED  BY <2>1, <2>3 DEF NcInv
<1>5. QED  BY <1>1, <1>2, <1>3, <1>4

LEMMA ClientStep ==
    ASSUME Typed, ClientInv, UNCHANGED settings,
           \/ \E id \in Id \ DOMAIN handles : Client(id)
           \/ ClientFails
           \/ ClientClose
           \/ Server
    PROVE  Typed' /\ ClientInv'
<1>1. binding \in {"netcdf", "hdf5", "pnetcdf"} /\ binding' = binding
  BY DEF Typed, settings
<1>2. CASE binding = "hdf5"
  BY <1>1, <1>2, H5Step DEF ClientInv
<1>3. CASE binding # "hdf5"
  BY <1>1, <1>3, NcStep DEF ClientInv
<1>4. QED  BY <1>2, <1>3

-----------------------------------------------------------------------------
(* A simulator, in the bindings that announce what it closes: the handle   *)
(* of each file the application has is that of the file, and the files in  *)
(* the redirect folder are found as such; what was created is announced or *)
(* still open.                                                             *)
SimulatorInv ==
    /\ DOMAIN app \subseteq DOMAIN handles
    /\ DOMAIN dvl.open_redirected_files_idx \subseteq DOMAIN app
    /\ \A k \in DOMAIN app :
          /\ handles[k].file = app[k]
          /\ k \in DOMAIN dvl.open_redirected_files_idx =>
                dvl.open_redirected_files_idx[k] = app[k]
          /\ k \notin DOMAIN dvl.open_redirected_files_idx => handles[k].kind # "redirected"
    /\ \A f \in ResultFile :
          server.created[f] = server.announced[f] + Cardinality(Opens(app, f))

\* A file is open under an id that was not in use, and counted as created.
NewFile(f, id, kind) ==
    /\ handles' \in Table(Id, HandleType) /\ app' \in Table(Id, File \cup {Other})
    /\ server' \in ServerType /\ IsFiniteSet(DOMAIN app')
    /\ server'.announced = server.announced
    /\ server'.created = [server.created EXCEPT ![f] = @ + 1]
    /\ \A g : /\ Cardinality(Opens(app, g)) \in Nat
              /\ Cardinality(Opens(app', g)) =
                     Cardinality(Opens(app, g)) + (IF g = f THEN 1 ELSE 0)
    /\ DOMAIN handles' = DOMAIN handles \cup {id} /\ handles'[id] = [file |-> f, kind |-> kind]
    /\ \A x \in DOMAIN handles : x # id => handles'[x] = handles[x]
    /\ DOMAIN app' = DOMAIN app \cup {id} /\ app'[id] = f
    /\ \A x \in DOMAIN app : x # id => app'[x] = app[x]

LEMMA CreateHandleTyped ==
    ASSUME Typed, NEW f \in File, NEW id \in Id, id \notin DOMAIN app,
           NEW kind \in {"real", "redirected"}, CreateHandle(f, id, kind)
    PROVE  NewFile(f, id, kind)
<1> DEFINE v == [file |-> f, kind |-> kind]
           n == server.created[f] + 1
<1>1. /\ server \in ServerType /\ IsFiniteSet(DOMAIN app)
      /\ handles \in Table(Id, HandleType) /\ app \in Table(Id, File \cup {Other})
  BY DEF Typed
<1>2. /\ handles' = assigned(handles, id, v) /\ app' = assigned(app, id, f)
      /\ server' = [server EXCEPT !.created[f] = n]
  BY DEF CreateHandle, NewHandle
<1>3. v \in HandleType /\ n \in Nat
  BY <1>1, ServerFields DEF HandleType
<1>4. handles' \in Table(Id, HandleType) /\ app' \in Table(Id, File \cup {Other})
  <2> HIDE DEF v
  <2>1. QED  BY <1>1, <1>2, <1>3, AssignedType
<1>5. [server.created EXCEPT ![f] = n] \in [File -> Nat]
  BY <1>1, <1>3, ServerFields
<1>6. /\ server' \in ServerType /\ server'.announced = server.announced
      /\ server'.created = [server.created EXCEPT ![f] = n]
  BY <1>1, <1>2, <1>5, ServerFields DEF ServerType
<1>7. /\ IsFiniteSet(DOMAIN app')
      /\ \A g : /\ Cardinality(Opens(app, g)) \in Nat
                /\ Cardinality(Opens(app', g)) =
                       Cardinality(Opens(app, g)) + (IF g = f THEN 1 ELSE 0)
  BY <1>1, <1>2, OpensAssigned
<1>8. /\ DOMAIN handles' = DOMAIN handles \cup {id} /\ handles'[id] = v
      /\ \A x \in DOMAIN handles : x # id => handles'[x] = handles[x]
      /\ DOMAIN app' = DOMAIN app \cup {id} /\ app'[id] = f
      /\ \A x \in DOMAIN app : x # id => app'[x] = app[x]
  BY <1>2 DEF assigned
<1>9. QED  BY <1>4, <1>6, <1>7, <1>8 DEF NewFile

(* What the reply to a create does to the library.                         *)
LEMMA RepliedFields ==
    ASSUME dvl \in LibType, NEW reply
    PROVE  /\ Replied(reply) \in LibType
           /\ Replied(reply).open_redirected_files_idx = dvl.open_redirected_files_idx
<1>1. CASE reply = "KILL"
  <2>1. Replied(reply) = [dvl EXCEPT !.to_terminate = TRUE]
    BY <1>1 DEF Replied
  <2>2. QED  BY <2>1 DEF LibType
<1>2. CASE reply # "KILL"
  <2> DEFINE c == dvl.open_files_count + 1
  <2>1. Replied(reply) = [dvl EXCEPT !.open_files_count = c]
    BY <1>2 DEF Replied
  <2>2. c \in Int
    BY LibFields
  <2> HIDE DEF c
  <2>3. QED  BY <2>1, <2>2 DEF LibType
<1>3. QED  BY <1>1, <1>2

LEMMA CreateStep ==
    ASSUME Typed, is_simulator, SimulatorInv, UNCHANGED settings,
           NEW f \in File, NEW id \in Id, id \notin DOMAIN handles,
           NEW reply \in {"OPEN", "REDIRECT", "KILL"}, dvl_nc_create(f, id, reply)
    PROVE  Typed' /\ SimulatorInv'
<1> DEFINE d == Replied(reply)
           R == dvl.open_redirected_files_idx
<1>1. /\ dvl \in LibType /\ server \in ServerType /\ R \in Table(Id, File)
      /\ IsFiniteSet(DOMAIN app)
  BY LibFields DEF Typed
<1>2. d \in LibType /\ d.open_redirected_files_idx = R
  BY <1>1, RepliedFields
<1>3. id \notin DOMAIN app /\ id \notin DOMAIN R
  BY DEF SimulatorInv
<1>4. ASSUME dvl' = [dvl EXCEPT !.to_terminate = TRUE, !.finalized = TRUE],
             UNCHANGED <<handles, app, server>>
      PROVE  Typed' /\ SimulatorInv'
  <2>1. dvl' \in LibType /\ dvl'.open_redirected_files_idx = R
    BY <1>1, <1>4 DEF LibType
  <2>2. Typed'
    BY <1>4, <2>1 DEF Typed, settings
  <2>3. QED  BY <1>4, <2>1, <2>2 DEF SimulatorInv
<1>5. ASSUME NEW kind \in {"real", "redirected"}, CreateHandle(f, id, kind),
             dvl' \in LibType,
             dvl'.open_redirected_files_idx =
                 IF kind = "redirected" THEN assigned(R, id, f) ELSE R
      PROVE  Typed' /\ SimulatorInv'
  <2> HIDE DEF d, R
  <2>0. NewFile(f, id, kind)
    BY <1>3, <1>5, CreateHandleTyped
  <2>1. /\ handles' \in Table(Id, HandleType) /\ app' \in Table(Id, File \cup {Other})
        /\ server' \in ServerType /\ IsFiniteSet(DOMAIN app')
        /\ server'.announced = server.announced
        /\ server'.created = [server.created EXCEPT ![f] = @ + 1]
        /\ \A g : /\ Cardinality(Opens(app, g)) \in Nat
                  /\ Cardinality(Opens(app', g)) =
                         Cardinality(Opens(app, g)) + (IF g = f THEN 1 ELSE 0)
        /\ DOMAIN handles' = DOMAIN handles \cup {id} /\ handles'[id] = [file |-> f, kind |-> kind]
        /\ \A x \in DOMAIN handles : x # id => handles'[x] = handles[x]
        /\ DOMAIN app' = DOMAIN app \cup {id} /\ app'[id] = f
        /\ \A x \in DOMAIN app : x # id => app'[x] = app[x]
    BY <2>0 DEF NewFile
  <2>2. Typed'
    BY <1>5, <2>1 DEF Typed, settings
  <2> DEFINE S == dvl'.open_redirected_files_idx
  <2> USE DEF R
  <2>3. /\ DOMAIN S = IF kind = "redirected" THEN DOMAIN R \cup {id} ELSE DOMAIN R
        /\ kind = "redirected" => S[id] = f
        /\ \A x \in DOMAIN R : x # id => S[x] = R[x]
    BY <1>5 DEF assigned
  <2>4. /\ DOMAIN app \subseteq DOMAIN handles /\ DOMAIN R \subseteq DOMAIN app
        /\ \A k \in DOMAIN app :
              /\ handles[k].file = app[k]
              /\ k \in DOMAIN R => R[k] = app[k]
              /\ k \notin DOMAIN R => handles[k].kind # "redirected"
    BY DEF SimulatorInv
  <2> HIDE DEF S, R
  <2>5. DOMAIN app' \subseteq DOMAIN handles' /\ DOMAIN S \subseteq DOMAIN app'
    BY <2>1, <2>3, <2>4
  <2>6. ASSUME NEW k \in DOMAIN app'
        PROVE  /\ handles'[k].file = app'[k]
               /\ k \in DOMAIN S => S[k] = app'[k]
               /\ k \notin DOMAIN S => handles'[k].kind # "redirected"
    <3>1. CASE k = id
      BY <1>3, <2>1, <2>3, <3>1
    <3>2. CASE k # id
      <4>1. k \in DOMAIN app /\ k \in DOMAIN handles /\ (k \in DOMAIN S <=> k \in DOMAIN R)
        BY <2>1, <2>3, <2>4, <3>2
      <4>2. QED  BY <2>1, <2>3, <2>4, <3>2, <4>1
    <3>3. QED  BY <3>1, <3>2
  <2>7. ASSUME NEW g \in ResultFile
        PROVE  server'.created[g] = server'.announced[g] + Cardinality(Opens(app', g))
    <3>1. /\ server.created[g] = server.announced[g] + Cardinality(Opens(app, g))
          /\ server.created[g] \in Nat /\ server.announced[g] \in Nat /\ g \in File
      BY <1>1, ServerFields DEF SimulatorInv, File
    <3>2. server'.created[g] = server.created[g] + (IF g = f THEN 1 ELSE 0)
      BY <1>1, <2>1, <3>1, ServerFields
    <3>3. QED  BY <2>1, <3>1, <3>2
  <2>8. SimulatorInv'
    BY <2>5, <2>6, <2>7 DEF SimulatorInv, S
  <2>9. QED  BY <2>2, <2>8
<1>6. ASSUME reply # "REDIRECT", dvl' = d, CreateHandle(f, id, "real")
      PROVE  Typed' /\ SimulatorInv'
  <2> HIDE DEF d, R
  <2>1. dvl' \in LibType /\ dvl'.open_redirected_files_idx = R
    BY <1>2, <1>6
  <2>2. QED  BY <1>5, <1>6, <2>1
<1>7. ASSUME dvl' = [d EXCEPT !.open_redirected_files_idx = assigned(@, id, f)],
             CreateHandle(f, id, "redirected")
      PROVE  Typed' /\ SimulatorInv'
  <2> HIDE DEF d, R
  <2>1. assigned(R, id, f) \in Table(Id, File)
    BY <1>1, AssignedType
  <2>2. dvl' = [d EXCEPT !.open_redirected_files_idx = assigned(R, id, f)]
    BY <1>2, <1>7
  <2>3. dvl' \in LibType /\ dvl'.open_redirected_files_idx = assigned(R, id, f)
    BY <1>2, <2>1, <2>2 DEF LibType
  <2>4. QED  BY <1>5, <1>7, <2>3
<1>8. QED  BY <1>4, <1>6, <1>7 DEF dvl_nc_create

LEMMA CreateFailsStep ==
    ASSUME Typed, SimulatorInv, UNCHANGED settings, NEW reply, dvl_nc_create_fails(reply)
    PROVE  Typed' /\ SimulatorInv'
<1>1. dvl' = Replied(reply) /\ UNCHANGED <<handles, app, server>>
  BY DEF dvl_nc_create_fails
<1>2. /\ dvl' \in LibType
      /\ dvl'.open_redirected_files_idx = dvl.open_redirected_files_idx
  BY <1>1, RepliedFields DEF Typed
<1>3. Typed'
  BY <1>1, <1>2 DEF Typed, settings
<1>4. SimulatorInv'
  BY <1>1, <1>2 DEF SimulatorInv
<1>5. QED  BY <1>3, <1>4

(* A file that is neither a result nor a checkpoint file.                  *)
LEMMA PlainOpenTyped ==
    ASSUME Typed, UNCHANGED settings,
           NEW id \in Id, id \notin DOMAIN app, PlainOpen(id)
    PROVE  /\ Typed' /\ dvl' = dvl /\ server' = server
           /\ DOMAIN handles' = DOMAIN handles \cup {id}
           /\ handles'[id] = [file |-> Other, kind |-> "real"]
           /\ \A x \in DOMAIN handles : x # id => handles'[x] = handles[x]
           /\ DOMAIN app' = DOMAIN app \cup {id} /\ app'[id] = Other
           /\ \A x \in DOMAIN app : x # id => app'[x] = app[x]
           /\ \A f \in ResultFile : Cardinality(Opens(app', f)) = Cardinality(Opens(app, f))
<1> DEFINE v == [file |-> Other, kind |-> "real"]
<1>1. /\ IsFiniteSet(DOMAIN app)
      /\ handles \in Table(Id, HandleType) /\ app \in Table(Id, File \cup {Other})
  BY DEF Typed
<1>2. /\ handles' = assigned(handles, id, v) /\ app' = assigned(app, id, Other)
      /\ dvl' = dvl /\ server' = server
  BY DEF PlainOpen, NewHandle
<1>3. v \in HandleType /\ Other \in File \cup {Other}
  BY DEF HandleType
<1>4. handles' \in Table(Id, HandleType) /\ app' \in Table(Id, File \cup {Other})
  <2> HIDE DEF v
  <2>1. QED  BY <1>1, <1>2, <1>3, AssignedType
<1>5. /\ IsFiniteSet(DOMAIN app')
      /\ \A g : /\ Cardinality(Opens(app, g)) \in Nat
                /\ Cardinality(Opens(app', g)) =
                       Cardinality(Opens(app, g)) + (IF g = Other THEN 1 ELSE 0)
  BY <1>1, <1>2, OpensAssigned
<1>6. \A f \in ResultFile : f # Other
  BY DVLibAssumption
<1>7. \A f \in ResultFile : Cardinality(Opens(app', f)) = Cardinality(Opens(app, f))
  BY <1>5, <1>6
<1>8. /\ DOMAIN handles' = DOMAIN handles \cup {id} /\ handles'[id] = v
      /\ \A x \in DOMAIN handles : x # id => handles'[x] = handles[x]
      /\ DOMAIN app' = DOMAIN app \cup {id} /\ app'[id] = Other
      /\ \A x \in DOMAIN app : x # id => app'[x] = app[x]
  BY <1>2 DEF assigned
<1>9. Typed'
  BY <1>2, <1>4, <1>5 DEF Typed, settings
<1>10. QED  BY <1>2, <1>7, <1>8, <1>9

LEMMA SimulatorPlainOpenStep ==
    ASSUME Typed, SimulatorInv, UNCHANGED settings,
           NEW id \in Id, id \notin DOMAIN handles, PlainOpen(id)
    PROVE  SimulatorInv'
<1> DEFINE R == dvl.open_redirected_files_idx
<1>1. /\ DOMAIN app \subseteq DOMAIN handles /\ DOMAIN R \subseteq DOMAIN app
      /\ \A k \in DOMAIN app :
            /\ handles[k].file = app[k]
            /\ k \in DOMAIN R => R[k] = app[k]
            /\ k \notin DOMAIN R => handles[k].kind # "redirected"
      /\ \A f \in ResultFile :
            server.created[f] = server.announced[f] + Cardinality(Opens(app, f))
  BY DEF SimulatorInv
<1>2. /\ dvl' = dvl /\ server' = server
      /\ DOMAIN handles' = DOMAIN handles \cup {id}
      /\ handles'[id] = [file |-> Other, kind |-> "real"]
      /\ \A x \in DOMAIN handles : x # id => handles'[x] = handles[x]
      /\ DOMAIN app' = DOMAIN app \cup {id} /\ app'[id] = Other
      /\ \A x \in DOMAIN app : x # id => app'[x] = app[x]
      /\ \A f \in ResultFile : Cardinality(Opens(app', f)) = Cardinality(Opens(app, f))
  BY <1>1, PlainOpenTyped
<1>3. dvl'.open_redirected_files_idx = R
  BY <1>2
<1> HIDE DEF R
<1>4. DOMAIN app' \subseteq DOMAIN handles' /\ DOMAIN R \subseteq DOMAIN app'
  BY <1>1, <1>2
<1>5. ASSUME NEW k \in DOMAIN app'
      PROVE  /\ handles'[k].file = app'[k]
             /\ k \in DOMAIN R => R[k] = app'[k]
             /\ k \notin DOMAIN R => handles'[k].kind # "redirected"
  <2>1. CASE k = id
    BY <1>1, <1>2, <2>1
  <2>2. CASE k # id
    <3>1. k \in DOMAIN app /\ k \in DOMAIN handles
      BY <1>1, <1>2, <2>2
    <3>2. QED  BY <1>1, <1>2, <2>2, <3>1
  <2>3. QED  BY <2>1, <2>2
<1>6. \A f \in ResultFile :
          server'.created[f] = server'.announced[f] + Cardinality(Opens(app', f))
  BY <1>1, <1>2
<1>7. QED  BY <1>3, <1>4, <1>5, <1>6 DEF SimulatorInv

-----------------------------------------------------------------------------
\* What is closed is announced.

LEMMA AnnouncedFields ==
    ASSUME server \in ServerType, NEW f
    PROVE  /\ Announced(f) \in ServerType /\ Announced(f).created = server.created
           /\ \A g \in ResultFile : Announced(f).announced[g] =
                  server.announced[g] + (IF g = f THEN 1 ELSE 0)
<1>1. CASE f \in ResultFile
  <2> DEFINE n == server.announced[f] + 1
  <2>1. Announced(f) = [server EXCEPT !.announced[f] = n]
    BY <1>1 DEF Announced
  <2>2. f \in File /\ n \in Nat
    BY <1>1, ServerFields DEF File
  <2>3. [server.announced EXCEPT ![f] = n] \in [File -> Nat]
    BY <2>2, ServerFields
  <2>4. /\ Announced(f) \in ServerType /\ Announced(f).created = server.created
        /\ Announced(f).announced = [server.announced EXCEPT ![f] = n]
    <3> HIDE DEF n
    <3>1. QED  BY <2>1, <2>3, ServerFields DEF ServerType
  <2>5. \A g \in ResultFile : g \in File /\ server.announced[g] \in Nat
    BY ServerFields DEF File
  <2>6. QED  BY <2>2, <2>4, <2>5, ServerFields
<1>2. CASE f \notin ResultFile
  <2>1. Announced(f) = server
    BY <1>2 DEF Announced
  <2>2. \A g \in ResultFile : g \in File /\ server.announced[g] \in Nat /\ g # f
    BY <1>2, ServerFields DEF File
  <2>3. QED  BY <2>1, <2>2
<1>3. QED  BY <1>1, <1>2

LEMMA SimulatorCloseTyped ==
    ASSUME Typed, UNCHANGED settings,
           NEW k \in DOMAIN app, Closed({k}), app' = Without(app, {k}),
           dvl' \in LibType, server' \in ServerType
    PROVE  /\ Typed' /\ DOMAIN handles' = DOMAIN handles \ {k} /\ DOMAIN app' = DOMAIN app \ {k}
           /\ \A x \in DOMAIN handles \ {k} : handles'[x] = handles[x]
           /\ \A x \in DOMAIN app \ {k} : app'[x] = app[x]
           /\ \A g : /\ Cardinality(Opens(app, g)) \in Nat
                     /\ Cardinality(Opens(app', g)) =
                            Cardinality(Opens(app, g)) - (IF g = app[k] THEN 1 ELSE 0)
<1>1. /\ IsFiniteSet(DOMAIN app)
      /\ handles \in Table(Id, HandleType) /\ app \in Table(Id, File \cup {Other})
  BY DEF Typed
<1>2. handles' = Without(handles, {k}) /\ app' = Without(app, {k})
  BY DEF Closed
<1>3. handles' \in Table(Id, HandleType) /\ app' \in Table(Id, File \cup {Other})
  BY <1>1, <1>2, WithoutType
<1>4. /\ IsFiniteSet(DOMAIN app')
      /\ \A g : /\ Cardinality(Opens(app, g)) \in Nat
                /\ Cardinality(Opens(app', g)) =
                       Cardinality(Opens(app, g)) - (IF g = app[k] THEN 1 ELSE 0)
  <2>1. {k} \cap DOMAIN app = {k}
    OBVIOUS
  <2>2. QED  BY <1>1, <1>2, <2>1, OpensWithout
<1>5. /\ DOMAIN handles' = DOMAIN handles \ {k} /\ DOMAIN app' = DOMAIN app \ {k}
      /\ \A x \in DOMAIN handles \ {k} : handles'[x] = handles[x]
      /\ \A x \in DOMAIN app \ {k} : app'[x] = app[x]
  BY <1>2 DEF Without, Restrict
<1>6. Typed'
  BY <1>3, <1>4 DEF Typed, settings
<1>7. QED  BY <1>4, <1>5, <1>6

LEMMA SimulatorCloseStep ==
    ASSUME Typed, SimulatorInv, UNCHANGED settings,
           NEW k \in DOMAIN app, simulator_nc_close(k)
    PROVE  Typed' /\ SimulatorInv'
<1> DEFINE R == dvl.open_redirected_files_idx
           S == Without(R, {k})
           c == dvl.open_files_count - 1
<1>1. /\ DOMAIN app \subseteq DOMAIN handles /\ DOMAIN R \subseteq DOMAIN app
      /\ \A x \in DOMAIN app :
            /\ handles[x].file = app[x]
            /\ x \in DOMAIN R => R[x] = app[x]
            /\ x \notin DOMAIN R => handles[x].kind # "redirected"
      /\ \A f \in ResultFile :
            server.created[f] = server.announced[f] + Cardinality(Opens(app, f))
  BY DEF SimulatorInv
<1>2. AnnouncedAs(k) = app[k]
  BY <1>1 DEF AnnouncedAs
<1>3. dvl \in LibType /\ server \in ServerType /\ R \in Table(Id, File)
  BY LibFields DEF Typed
<1>4. Closed({k}) /\ app' = Without(app, {k}) /\ server' = Announced(app[k])
  BY <1>2 DEF simulator_nc_close
<1>5. S \in Table(Id, File) /\ c \in Int
  BY <1>3, WithoutType, LibFields
<1>6. dvl' = [dvl EXCEPT !.open_redirected_files_idx = S, !.open_files_count = c]
  BY <1>3 DEF simulator_nc_close, DropRedirected, LibType
<1>7. dvl' \in LibType /\ dvl'.open_redirected_files_idx = S
  <2> HIDE DEF S, c
  <2>1. QED  BY <1>3, <1>5, <1>6 DEF LibType
<1>8. /\ server' \in ServerType /\ server'.created = server.created
      /\ \A g \in ResultFile : server'.announced[g] =
             server.announced[g] + (IF g = app[k] THEN 1 ELSE 0)
  BY <1>3, <1>4, AnnouncedFields
<1>9. /\ Typed' /\ DOMAIN handles' = DOMAIN handles \ {k} /\ DOMAIN app' = DOMAIN app \ {k}
      /\ \A x \in DOMAIN handles \ {k} : handles'[x] = handles[x]
      /\ \A x \in DOMAIN app \ {k} : app'[x] = app[x]
      /\ \A g : /\ Cardinality(Opens(app, g)) \in Nat
                /\ Cardinality(Opens(app', g)) =
                       Cardinality(Opens(app, g)) - (IF g = app[k] THEN 1 ELSE 0)
  BY <1>4, <1>7, <1>8, SimulatorCloseTyped
<1>10. DOMAIN S = DOMAIN R \ {k} /\ \A x \in DOMAIN R \ {k} : S[x] = R[x]
  BY WithoutMap
<1> HIDE DEF R, S
<1>11. DOMAIN app' \subseteq DOMAIN handles' /\ DOMAIN S \subseteq DOMAIN app'
  BY <1>1, <1>9, <1>10
<1>12. ASSUME NEW x \in DOMAIN app'
       PROVE  /\ handles'[x].file = app'[x]
              /\ x \in DOMAIN S => S[x] = app'[x]
              /\ x \notin DOMAIN S => handles'[x].kind # "redirected"
  <2>1. x \in DOMAIN app \ {k} /\ x \in DOMAIN handles \ {k} /\ (x \in DOMAIN S <=> x \in DOMAIN R)
    BY <1>1, <1>9, <1>10
  <2>2. QED  BY <1>1, <1>9, <1>10, <2>1
<1>13. ASSUME NEW f \in ResultFile
       PROVE  server'.created[f] = server'.announced[f] + Cardinality(Opens(app', f))
  <2>1. server.announced[f] \in Nat
    BY <1>3, ServerFields DEF File
  <2>2. QED  BY <1>1, <1>8, <1>9, <2>1
<1>14. SimulatorInv'
  BY <1>7, <1>11, <1>12, <1>13 DEF SimulatorInv
<1>15. QED  BY <1>9, <1>14

-----------------------------------------------------------------------------
\* A simulator with the parallel netCDF binding: it keeps the types.

LEMMA FiledToCreateTyped ==
    ASSUME dvl \in LibType, NEW f \in File, FiledToCreate(f)
    PROVE  dvl' \in LibType
<1>1. PICK old \in Id \cup {NoId} :
          dvl' = Track(dvl, NextSlot, [NoEntry EXCEPT !.path = f, !.key = old, !.fid = old])
  BY DEF FiledToCreate
<1> DEFINE e == [NoEntry EXCEPT !.path = f, !.key = old, !.fid = old]
<1>2. e \in EntryType
  BY DEF NoEntry, EntryType
<1>3. dvl.free_files \in Seq(Slot) /\ Len(dvl.free_files) > 1
  BY LibFields DEF FiledToCreate, HasFreeSlot
<1>4. dvl.free_files # <<>> /\ Head(dvl.free_files) \in Slot
  BY <1>3
<1>5. NextSlot \in Slot
  BY <1>4, DVLibAssumption DEF NextSlot, SlotId, Slot
<1>6. dvl' = Track(dvl, NextSlot, e)
  BY <1>1
<1> HIDE DEF e
<1>7. QED  BY <1>2, <1>4, <1>5, <1>6, TrackFields

LEMMA NcmpiCreateStep ==
    ASSUME Typed, UNCHANGED settings, DOMAIN app \subseteq DOMAIN handles,
           NEW f \in File, NEW id \in Id, id \notin DOMAIN handles, dvl_ncmpi_create(f, id)
    PROVE  Typed' /\ DOMAIN app' \subseteq DOMAIN handles'
<1>1. dvl \in LibType
  BY DEF Typed
<1>2. NewFile(f, id, "real")
  BY CreateHandleTyped DEF dvl_ncmpi_create
<1>3. /\ handles' \in Table(Id, HandleType) /\ app' \in Table(Id, File \cup {Other})
      /\ server' \in ServerType /\ IsFiniteSet(DOMAIN app')
      /\ DOMAIN handles' = DOMAIN handles \cup {id} /\ DOMAIN app' = DOMAIN app \cup {id}
  BY <1>2 DEF NewFile
<1>4. dvl' \in LibType
  BY <1>1, FiledToCreateTyped DEF dvl_ncmpi_create
<1>5. Typed'
  BY <1>3, <1>4 DEF Typed, settings
<1>6. QED  BY <1>3, <1>5

LEMMA NcmpiCreateFailsStep ==
    ASSUME Typed, UNCHANGED settings, NEW f \in File, dvl_ncmpi_create_fails(f)
    PROVE  Typed' /\ UNCHANGED <<handles, app>>
<1>1. dvl' \in LibType
  BY FiledToCreateTyped DEF dvl_ncmpi_create_fails, Typed
<1>2. QED  BY <1>1 DEF dvl_ncmpi_create_fails, Typed, settings

LEMMA NcmpiAnnounceStep ==
    ASSUME Typed, UNCHANGED settings, DOMAIN app \subseteq DOMAIN handles,
           NEW k \in DOMAIN app, simulator_ncmpi_close(k)
    PROVE  Typed' /\ DOMAIN app' \subseteq DOMAIN handles'
<1>1. dvl \in LibType /\ server \in ServerType
  BY DEF Typed
<1>2. Closed({k}) /\ app' = Without(app, {k})
  BY DEF simulator_ncmpi_close
<1>3. dvl' \in LibType /\ server' \in ServerType
  <2>1. CASE Tracked(k) /\ in_result_dir
    <3>1. dvl' = Untrack(dvl, k) /\ k \in DOMAIN dvl.open_files_idx
      BY <2>1 DEF simulator_ncmpi_close, Tracked
    <3>2. server' = Announced(Entry(k).path)
      BY <2>1 DEF simulator_ncmpi_close
    <3>3. dvl' \in LibType
      BY <1>1, <3>1, UntrackFields
    <3>4. server' \in ServerType
      BY <1>1, <3>2, AnnouncedFields
    <3>5. QED  BY <3>3, <3>4
  <2>2. CASE ~(Tracked(k) /\ in_result_dir)
    BY <1>1, <2>2 DEF simulator_ncmpi_close
  <2>3. QED  BY <2>1, <2>2
<1>4. Typed' /\ DOMAIN handles' = DOMAIN handles \ {k} /\ DOMAIN app' = DOMAIN app \ {k}
  BY <1>2, <1>3, SimulatorCloseTyped
<1>5. QED  BY <1>4

-----------------------------------------------------------------------------
\* Every step.

IInv ==
    /\ Typed
    /\ ~is_simulator => ClientInv
    /\ is_simulator => DOMAIN app \subseteq DOMAIN handles
    /\ is_simulator /\ binding # "pnetcdf" => SimulatorInv

LEMMA ExitStep ==
    ASSUME Typed, UNCHANGED settings, Exit
    PROVE  /\ Typed' /\ UNCHANGED <<handles, app, server>>
           /\ dvl'.open_redirected_files_idx = dvl.open_redirected_files_idx
<1>1. dvl \in LibType
  BY DEF Typed
<1>2. dvl' = [dvl EXCEPT !.finalized = TRUE, !.exited = TRUE] /\ UNCHANGED <<handles, app, server>>
  BY DEF Exit
<1>3. dvl' \in LibType /\ dvl'.open_redirected_files_idx = dvl.open_redirected_files_idx
  BY <1>1, <1>2 DEF LibType
<1>4. QED  BY <1>2, <1>3 DEF Typed, settings

(* Every call of a simulator keeps its ids, handles and counts in order.   *)
LEMMA SimulatorStep ==
    ASSUME IInv, is_simulator, UNCHANGED settings,
           \/ \E id \in Id \ DOMAIN handles : Simulator(id)
           \/ SimulatorFails
           \/ SimulatorClose
           \/ Exit
    PROVE  /\ Typed' /\ DOMAIN app' \subseteq DOMAIN handles'
           /\ binding # "pnetcdf" => SimulatorInv'
<1>0. /\ binding \in {"netcdf", "hdf5", "pnetcdf"} /\ Typed /\ DOMAIN app \subseteq DOMAIN handles
      /\ binding # "pnetcdf" => SimulatorInv
  BY DEF IInv, Typed
<1> DEFINE Kept == /\ Typed' /\ DOMAIN app' \subseteq DOMAIN handles'
                   /\ binding # "pnetcdf" => SimulatorInv'
<1>a. ASSUME Typed', SimulatorInv' PROVE Kept
  BY <1>a DEF SimulatorInv
<1>1. ASSUME NEW id \in Id, id \notin DOMAIN handles, Simulator(id) PROVE Kept
  <2>0. id \notin DOMAIN app
    BY <1>0, <1>1
  <2>1. CASE PlainOpen(id)
    <3>1. Typed' /\ DOMAIN handles' = DOMAIN handles \cup {id} /\ DOMAIN app' = DOMAIN app \cup {id}
      BY <1>0, <2>0, <2>1, PlainOpenTyped
    <3>2. CASE binding # "pnetcdf"
      <4>1. SimulatorInv'
        BY <1>0, <1>1, <2>1, <3>2, SimulatorPlainOpenStep
      <4>2. QED  BY <1>a, <3>1, <4>1
    <3>3. CASE binding = "pnetcdf"
      BY <1>0, <3>1, <3>3
    <3>4. QED  BY <3>2, <3>3
  <2>2. ASSUME NEW f \in File, NEW reply \in {"OPEN", "REDIRECT", "KILL"},
               CASE binding = "netcdf" -> dvl_nc_create(f, id, reply)
                 [] binding = "hdf5" -> H5Fcreate(f, id, reply)
                 [] binding = "pnetcdf" -> dvl_ncmpi_create(f, id)
        PROVE  Kept
    <3>1. CASE binding = "pnetcdf"
      <4>1. dvl_ncmpi_create(f, id)
        BY <2>2, <3>1
      <4>2. Typed' /\ DOMAIN app' \subseteq DOMAIN handles'
        BY <1>0, <1>1, <4>1, NcmpiCreateStep
      <4>3. QED  BY <3>1, <4>2
    <3>2. CASE binding \in {"netcdf", "hdf5"}
      <4>1. dvl_nc_create(f, id, reply)
        <5>1. CASE binding = "netcdf"
          BY <2>2, <5>1
        <5>2. CASE binding = "hdf5"
          <6>1. H5Fcreate(f, id, reply)
            BY <2>2, <5>2
          <6>2. QED  BY <6>1 DEF H5Fcreate
        <5>3. QED  BY <3>2, <5>1, <5>2
      <4>2. Typed' /\ SimulatorInv'
        BY <1>0, <1>1, <3>2, <4>1, CreateStep
      <4>3. QED  BY <1>a, <4>2
    <3>3. QED  BY <1>0, <3>1, <3>2
  <2> HIDE DEF Kept
  <2>3. QED  BY <1>1, <2>1, <2>2 DEF Simulator
<1>2. ASSUME SimulatorClose PROVE Kept
  <2>1. PICK k \in DOMAIN app :
            CASE binding = "netcdf" -> simulator_nc_close(k)
              [] binding = "hdf5" -> simulator_H5Fclose(k)
              [] binding = "pnetcdf" -> simulator_ncmpi_close(k)
    BY <1>2 DEF SimulatorClose
  <2>2. CASE binding = "pnetcdf"
    <3>1. simulator_ncmpi_close(k)
      BY <2>1, <2>2
    <3>2. Typed' /\ DOMAIN app' \subseteq DOMAIN handles'
      BY <1>0, <3>1, NcmpiAnnounceStep
    <3>3. QED  BY <2>2, <3>2
  <2>3. CASE binding \in {"netcdf", "hdf5"}
    <3>1. simulator_nc_close(k)
      <4>1. CASE binding = "netcdf"
        BY <2>1, <4>1
      <4>2. CASE binding = "hdf5"
        <5>1. simulator_H5Fclose(k)
          BY <2>1, <4>2
        <5>2. QED  BY <5>1 DEF simulator_H5Fclose
      <4>3. QED  BY <2>3, <4>1, <4>2
    <3>2. Typed' /\ SimulatorInv'
      BY <1>0, <2>3, <3>1, SimulatorCloseStep
    <3>3. QED  BY <1>a, <3>2
  <2>4. QED  BY <1>0, <2>2, <2>3
<1>3. ASSUME Exit PROVE Kept
  <2>1. /\ Typed' /\ UNCHANGED <<handles, app, server>>
        /\ dvl'.open_redirected_files_idx = dvl.open_redirected_files_idx
    BY <1>0, <1>3, ExitStep
  <2>2. QED  BY <1>0, <2>1 DEF SimulatorInv
<1>4. ASSUME SimulatorFails PROVE Kept
  <2>1. PICK f \in File, reply \in {"OPEN", "REDIRECT", "KILL"} :
            IF binding = "pnetcdf" THEN dvl_ncmpi_create_fails(f) ELSE dvl_nc_create_fails(reply)
    BY <1>4 DEF SimulatorFails
  <2>2. CASE binding = "pnetcdf"
    <3>1. Typed' /\ UNCHANGED <<handles, app>>
      BY <1>0, <2>1, <2>2, NcmpiCreateFailsStep
    <3>2. QED  BY <1>0, <2>2, <3>1
  <2>3. CASE binding # "pnetcdf"
    <3>1. Typed' /\ SimulatorInv'
      BY <1>0, <2>1, <2>3, CreateFailsStep
    <3>2. QED  BY <1>a, <3>1
  <2>4. QED  BY <2>2, <2>3
<1> HIDE DEF Kept
<1>5. Kept
  BY <1>1, <1>2, <1>3, <1>4
<1>6. QED  BY <1>5 DEF Kept

LEMMA InitIInv == Init => IInv
<1> SUFFICES ASSUME Init PROVE IInv
  OBVIOUS
<1> DEFINE r == [i \in 1 .. MAX_OPEN_FILES |-> i - 1]
           N == MAX_OPEN_FILES
<1>0. N \in Nat \ {0} /\ Slot = 0 .. N - 1
  BY DVLibAssumption DEF Slot
<1>1. /\ binding \in {"netcdf", "hdf5", "pnetcdf"} /\ is_simulator \in BOOLEAN
      /\ in_result_dir \in BOOLEAN /\ dvl = dvl_init /\ handles = <<>> /\ app = <<>>
      /\ server = [locks |-> [f \in File |-> 0], available |-> {},
                   created |-> [f \in File |-> 0], announced |-> [f \in File |-> 0],
                   failed |-> {}]
  BY DVLibAssumption DEF Init
<1>2. r \in Seq(Slot) /\ Len(r) = N
  <2>1. \A i \in 1 .. N : r[i] \in Slot
    BY <1>0
  <2>2. r \in [1 .. N -> Slot] /\ DOMAIN r = 1 .. N
    BY <2>1
  <2>3. [1 .. N -> Slot] \subseteq Seq(Slot)
    BY <1>0
  <2> HIDE DEF r
  <2>4. r \in Seq(Slot)
    BY <2>2, <2>3
  <2>5. QED  BY <1>0, <2>2, <2>4
<1>3. /\ dvl.open_files = [i \in Slot |-> NoEntry] /\ dvl.free_files = r
      /\ dvl.open_files_idx = <<>> /\ dvl.open_redirected_files_idx = <<>>
  BY <1>1 DEF dvl_init
<1>4. dvl \in LibType
  <2>1. NoEntry \in EntryType
    BY DEF NoEntry, EntryType
  <2>2. <<>> \in Table(Id \cup {NoId}, Slot) /\ <<>> \in Table(Id, File)
    BY EmptyTable
  <2>3. dvl = [open_files |-> [i \in Slot |-> NoEntry], free_files |-> r,
               open_files_idx |-> <<>>, open_redirected_files_idx |-> <<>>,
               open_files_count |-> 0, to_terminate |-> FALSE, finalized |-> FALSE,
               exited |-> FALSE]
    BY <1>1 DEF dvl_init
  <2>4. [i \in Slot |-> NoEntry] \in [Slot -> EntryType]
    BY <2>1
  <2> DEFINE t == [i \in Slot |-> NoEntry]
             z == <<>>
  <2>5. /\ t \in [Slot -> EntryType] /\ r \in Seq(Slot)
        /\ z \in Table(Id \cup {NoId}, Slot) /\ z \in Table(Id, File)
        /\ dvl = [open_files |-> t, free_files |-> r, open_files_idx |-> z,
                  open_redirected_files_idx |-> z, open_files_count |-> 0,
                  to_terminate |-> FALSE, finalized |-> FALSE, exited |-> FALSE]
    BY <1>2, <2>2, <2>3, <2>4
  <2> HIDE DEF t, r, z
  <2>6. QED  BY <2>5 DEF LibType
<1>5. server \in ServerType
  BY <1>1 DEF ServerType
<1>6. handles \in Table(Id, HandleType) /\ app \in Table(Id, File \cup {Other})
  BY <1>1, EmptyTable
<1>7. DOMAIN app = {} /\ DOMAIN handles = {}
  BY <1>1, EmptyTable
<1>8. Typed
  BY <1>1, <1>4, <1>5, <1>6, <1>7, FS_EmptySet DEF Typed
<1>9. TableInv(dvl) /\ Used(dvl) = {}
  <2>1. r # <<>> /\ r[Len(r)] = N - 1
    BY <1>0, <1>2
  <2>2. IsInjective(r)
    BY <1>0 DEF IsInjective
  <2>3. Range(r) = Slot
    <3>1. \A i \in Slot : i + 1 \in 1 .. N /\ r[i + 1] = i
      BY <1>0
    <3>2. DOMAIN r = 1 .. N /\ \A i \in 1 .. N : r[i] \in Slot
      BY <1>0
    <3> HIDE DEF r
    <3>3. QED  BY <3>1, <3>2 DEF Range
  <2>4. DOMAIN dvl.open_files_idx = {}
    BY <1>3, EmptyTable
  <2> HIDE DEF r
  <2>5. Used(dvl) = {}
    BY <1>3, <2>3 DEF Used
  <2>6. FreeListInv(dvl)
    BY <1>3, <2>1, <2>2 DEF FreeListInv
  <2>7. QED  BY <2>4, <2>5, <2>6 DEF TableInv, Indexed, Hidden
<1>10. \A f : Cardinality(Opens(app, f)) = 0
  <2>1. \A f : Opens(app, f) = {}
    BY <1>7 DEF Opens
  <2>2. QED  BY <2>1, FS_EmptySet
<1>11. H5Inv
  <2> DEFINE E == EntriesOf(dvl)
  <2>1. DOMAIN E = {}
    BY <1>3, EmptyTable DEF EntriesOf
  <2>2. AllOK(E, handles, app)
    BY <1>7, <2>1 DEF AllOK
  <2>3. LocksOK(server, app)
    BY <1>1, <1>10 DEF LocksOK, File
  <2>4. Flat(dvl)
    BY <1>9 DEF Flat
  <2>5. QED  BY <1>9, <2>2, <2>3, <2>4 DEF H5Inv
<1>12. NcInv
  <2> DEFINE E == dvl.open_files
             T == dvl.open_files_idx
  <2>1. SlotsOK(binding, {}, E, T, handles, app, server.failed)
    BY <1>7 DEF SlotsOK, Distinct
  <2>2. Backed(binding, {}, E, handles, app)
    BY <1>7 DEF Backed
  <2>3. ASSUME NEW f \in ResultFile
        PROVE  Claimed(binding, {}, E, handles, app, f) <= server.locks[f]
    <3>1. SlotClaims(binding, {}, E, f) = {} /\ IdClaims(binding, handles, app, f) = {}
      BY <1>7 DEF SlotClaims, IdClaims
    <3>2. Claimed(binding, {}, E, handles, app, f) = 0
      BY <3>1, FS_EmptySet DEF Claimed
    <3>3. QED  BY <1>1, <3>2 DEF File
  <2>4. LocksCover(binding, {}, E, handles, app, server.locks)
    BY <2>2, <2>3 DEF LocksCover
  <2>5. QED  BY <1>9, <2>1, <2>4 DEF NcInv
<1>13. ClientInv
  BY <1>11, <1>12 DEF ClientInv
<1>14. SimulatorInv
  <2>1. DOMAIN dvl.open_redirected_files_idx = {}
    BY <1>3, EmptyTable
  <2>2. \A f \in ResultFile : server.created[f] = 0 /\ server.announced[f] = 0
    BY <1>1 DEF File
  <2>3. QED  BY <1>7, <1>10, <2>1, <2>2 DEF SimulatorInv
<1>15. QED  BY <1>7, <1>8, <1>13, <1>14 DEF IInv

LEMMA NextIInv == IInv /\ [Next]_vars => IInv'
<1> SUFFICES ASSUME IInv, [Next]_vars PROVE IInv'
  OBVIOUS
<1>1. CASE Next
  <2>1. /\ Typed /\ UNCHANGED settings /\ is_simulator \in BOOLEAN
        /\ ~is_simulator => ClientInv
        /\ is_simulator' = is_simulator /\ binding' = binding
    BY <1>1 DEF IInv, Typed, Next, settings
  <2>2. CASE is_simulator
    <3>1. \/ \E id \in Id \ DOMAIN handles : Simulator(id)
          \/ SimulatorFails
          \/ SimulatorClose
          \/ Exit
      BY <1>1, <2>2 DEF Next
    <3>2. /\ Typed' /\ DOMAIN app' \subseteq DOMAIN handles'
          /\ binding # "pnetcdf" => SimulatorInv'
      BY <2>1, <2>2, <3>1, SimulatorStep
    <3>3. QED  BY <2>1, <2>2, <3>2 DEF IInv
  <2>3. CASE ~is_simulator
    <3>1. \/ \E id \in Id \ DOMAIN handles : Client(id)
          \/ ClientFails
          \/ ClientClose
          \/ Server
      BY <1>1, <2>3 DEF Next
    <3>2. Typed' /\ ClientInv'
      BY <2>1, <2>3, <3>1, ClientStep
    <3>3. QED  BY <2>1, <2>3, <3>2 DEF IInv
  <2>4. QED  BY <2>1, <2>2, <2>3
<1>2. CASE UNCHANGED vars
  <2>1. UNCHANGED <<binding, is_simulator, in_result_dir, dvl, handles, app, server>>
    BY <1>2 DEF vars, settings
  <2>2. Typed' <=> Typed
    BY <2>1 DEF Typed
  <2>3. ClientInv' <=> ClientInv
    BY <2>1 DEF ClientInv, H5Inv, NcInv
  <2>4. SimulatorInv' <=> SimulatorInv
    BY <2>1 DEF SimulatorInv
  <2>5. QED  BY <2>1, <2>2, <2>3, <2>4 DEF IInv
<1>3. QED  BY <1>1, <1>2

LEMMA Invariance == Spec => []IInv
BY InitIInv, NextIInv, PTL DEF Spec

-----------------------------------------------------------------------------

-----------------------------------------------------------------------------
\* What follows.

\* What HandlesMatchFiles says of an id of the application's.
Matches(k) ==
    /\ Tracked(k) /\ Entry(k).fid \in DOMAIN handles
    /\ handles[Entry(k).fid].file = app[k]
    /\ k \notin server.failed =>
           /\ Entry(k).path = app[k]
           /\ handles[Entry(k).fid].kind =
                  IF Entry(k).state = "OPEN" \/ Entry(k).other # NoId THEN "real" ELSE "meta"

LEMMA H5Matches ==
    ASSUME Typed, H5Inv, NEW k \in DOMAIN app, app[k] # Other
    PROVE  Matches(k)
<1> DEFINE E == EntriesOf(dvl)
<1>1. AllOK(E, handles, app)
  BY DEF H5Inv
<1>2. /\ DOMAIN E = DOMAIN dvl.open_files_idx \ {NoId}
      /\ \A x \in DOMAIN E : Entry(x) = E[x]
      /\ k \in Id /\ k # NoId
  BY TypedFacts, IndexFacts DEF Typed
<1> HIDE DEF E
<1>3. k \in DOMAIN E /\ EntryOK(E, handles, app, k)
  BY <1>1 DEF AllOK
<1>4. E[k].path = app[k] /\ E[k].fid \in DOMAIN handles
  BY <1>3 DEF EntryOK
<1>5. handles[E[k].fid] =
          [file |-> app[k],
           kind |-> IF E[k].state = "OPEN" \/ E[k].other # NoId THEN "real" ELSE "meta"]
  <2>1. CASE E[k].other = NoId
    <3>1. Alone(E, handles, app, k)
      BY <1>3, <2>1 DEF EntryOK
    <3>2. QED  BY <1>4, <2>1, <3>1 DEF Alone
  <2>2. CASE E[k].other # NoId
    <3> DEFINE o == E[k].other
    <3>1. Paired(E, handles, app, k)
      BY <1>3, <2>2 DEF EntryOK
    <3>2. /\ o \in DOMAIN E /\ E[o].other = k /\ E[o].path = E[k].path
          /\ o \notin DOMAIN app /\ E[k].fid = o
      BY <3>1 DEF Paired
    <3>3. Paired(E, handles, app, o)
      BY <1>1, <1>2, <3>2 DEF AllOK, EntryOK
    <3>4. handles[o] = [file |-> E[o].path, kind |-> "real"]
      BY <3>2, <3>3 DEF Paired
    <3>5. QED  BY <1>4, <2>2, <3>2, <3>4
  <2>3. QED  BY <2>1, <2>2
<1>6. Tracked(k) /\ Entry(k) = E[k]
  BY <1>2, <1>3 DEF Tracked
<1>7. QED  BY <1>4, <1>5, <1>6 DEF Matches

LEMMA NcMatches ==
    ASSUME Typed, NcInv, NEW k \in DOMAIN app, app[k] # Other
    PROVE  Matches(k)
<1> DEFINE e == Entry(k)
<1>1. /\ Indexed(Used(dvl), dvl.open_files, dvl.open_files_idx)
      /\ SlotsOK(binding, Used(dvl), dvl.open_files, dvl.open_files_idx, handles, app,
                 server.failed)
  BY NcFacts
<1>2. /\ k \in DOMAIN handles /\ handles[k].file = app[k] /\ k \in DOMAIN dvl.open_files_idx
      /\ TopOK(e, handles, app, server.failed, k)
  BY <1>1 DEF SlotsOK, Entry
<1>3. e.key = k /\ SlotOK(binding, e, handles, app)
  BY <1>1, <1>2 DEF Indexed, SlotsOK, Entry
<1> HIDE DEF e
<1>4. /\ e.fid \in DOMAIN handles /\ handles[e.fid].file = app[k]
      /\ k \notin server.failed =>
             /\ e.path = app[k]
             /\ handles[e.fid].kind =
                    IF e.state = "OPEN" \/ e.other # NoId THEN "real" ELSE "meta"
  <2>1. CASE e.fid = k
    BY <1>2, <1>3, <2>1 DEF TopOK, SlotOK
  <2>2. CASE e.fid # k
    <3>1. Live(e, handles, app) /\ e.path = app[k] /\ e.other = NoId
      BY <1>2, <1>3, <2>2 DEF TopOK, SlotOK, Gone
    <3>2. QED  BY <3>1 DEF Live
  <2>3. QED  BY <2>1, <2>2
<1>5. QED  BY <1>2, <1>4 DEF Matches, Tracked, e

LEMMA HandlesFollow == IInv => HandlesMatchFiles
<1> SUFFICES ASSUME IInv, ~is_simulator PROVE HandlesMatchFiles
  BY DEF HandlesMatchFiles
<1>1. Typed /\ IF binding = "hdf5" THEN H5Inv ELSE NcInv
  BY DEF IInv, ClientInv
<1>2. \A k \in DOMAIN app : app[k] # Other => Matches(k)
  BY <1>1, H5Matches, NcMatches
<1>3. binding = "netcdf" =>
          DOMAIN handles \subseteq
              DOMAIN app \cup {dvl.open_files[i].fid : i \in Slot \ Range(dvl.free_files)}
  BY <1>1 DEF NcInv, SlotsOK, Used
<1>4. QED  BY <1>2, <1>3 DEF HandlesMatchFiles, Matches

LEMMA OpensLocked ==
    ASSUME Typed, ClientInv, NEW f \in ResultFile
    PROVE  Cardinality(Opens(app, f)) <= server.locks[f]
<1>1. CASE binding = "hdf5"
  BY <1>1 DEF ClientInv, H5Inv, LocksOK
<1>2. CASE binding # "hdf5"
  <2> DEFINE U == Used(dvl)
             E == dvl.open_files
             l == server.locks
  <2>1. /\ U \in SUBSET Slot /\ l \in [File -> Nat] /\ IsFiniteSet(DOMAIN app)
        /\ LocksCover(binding, U, E, handles, app, l)
        /\ \A k \in DOMAIN app : handles[k].file = app[k]
        /\ DOMAIN app \subseteq DOMAIN handles
    BY <1>2, NcFacts DEF ClientInv, SlotsOK
  <2>2. \A k \in DOMAIN app : handles[k] \in HandleType
    BY <2>1, TypedFacts
  <2> HIDE DEF U, E, l
  <2>3. Cardinality(Opens(app, f)) <= l[f]
    BY <2>1, <2>2, ClaimsCountOpens
  <2>4. QED  BY <2>3 DEF l
<1>3. QED  BY <1>1, <1>2

(* For any files, ids, capacity and binding, and whatever was opened,      *)
(* closed and opened again under the same id or failed in between: a get   *)
(* of a client with an id that it has open goes to the file of the id; and *)
(* unless a call failed with the id, to the real data once they were       *)
(* waited for and to the metadata file before.  The netCDF binding keeps   *)
(* no handle that nothing refers to.                                       *)
THEOREM HandlesAlwaysMatch == Spec => []HandlesMatchFiles
BY Invariance, HandlesFollow, PTL

(* For any files, ids, capacity and binding, wherever the calls fail and   *)
(* wherever the application is run: the DV counts at least as many locks   *)
(* of a file as the client has it open, by whichever of its ids the file   *)
(* is closed.                                                              *)
THEOREM OpenFilesAlwaysLocked == Spec => []OpenFilesAreLocked
<1>1. IInv => OpenFilesAreLocked
  <2> SUFFICES ASSUME IInv, ~is_simulator, NEW f \in ResultFile
               PROVE  server.locks[f] >= Cardinality({k \in DOMAIN app : app[k] = f})
    BY DEF OpenFilesAreLocked
  <2> DEFINE n == Cardinality(Opens(app, f))
  <2>1. n <= server.locks[f] /\ Typed
    BY OpensLocked DEF IInv
  <2>2. server.locks[f] \in Nat /\ n \in Nat
    <3>1. server \in ServerType /\ f \in File /\ IsFiniteSet(Opens(app, f))
      <4>1. Opens(app, f) \subseteq DOMAIN app
        BY DEF Opens
      <4>2. QED  BY <2>1, <4>1, FS_Subset DEF Typed, File
    <3>2. QED  BY <3>1, ServerFields, FS_CardinalityType
  <2>3. n = Cardinality({k \in DOMAIN app : app[k] = f})
    BY DEF Opens
  <2> HIDE DEF n
  <2>4. n <= server.locks[f] => server.locks[f] >= n
    BY <2>2
  <2>5. QED  BY <2>1, <2>3, <2>4
<1>2. QED  BY <1>1, Invariance, PTL

(* For any files and ids, in the bindings that keep count: a result file   *)
(* that a simulator created is open, or its close was announced to the DV, *)
(* once for every time it was created and under its own name, whether the  *)
(* file was redirected or not, whatever its id was used for before and     *)
(* whichever creates failed.                                               *)
THEOREM ClosesAlwaysAnnounced == Spec => []ClosesAreAnnounced
<1>1. IInv => ClosesAreAnnounced
  BY DEF IInv, SimulatorInv, ClosesAreAnnounced, Opens
<1>2. QED  BY <1>1, Invariance, PTL
=============================================================================
