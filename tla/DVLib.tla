------------------------------- MODULE DVLib -------------------------------
(***************************************************************************)
(* The library linked into analyses (clients) and simulators, in its three *)
(* bindings, as one process uses it, one call after the other: the table   *)
(* of the files it tracks, the handles of the real I/O library below it,   *)
(* and what the DV has been told.  An action is one call of the            *)
(* application, with the messages it sends and the answers it waits for.   *)
(***************************************************************************)
EXTENDS Integers, FiniteSets, Functions, SequencesExt

CONSTANTS
    Binding,         \* bindings: "netcdf", "hdf5", "pnetcdf" (its rank 0)
    Role,            \* TRUE for a simulator, FALSE for a client
    ResultFile,      \* the files for which is_result_file holds
    CheckpointFile,  \* the files for which is_checkpoint_file holds
    Other,           \* stands for the files DVLib does not care about
    Id,              \* handles of the I/O library, used again when closed
    InResultDir,     \* whether a result file's relative path resolves to it
    MAX_OPEN_FILES,  \* entries of the table
    MaxLock,         \* bound: opens that the DV counts for one file
    MaxCreates,      \* bound: creates of one file; entries of a simulator
    MaxUncounted     \* bound: closes of restart files in excess of creates,
                     \* and the creates counted when one more fails

ASSUME DVLibAssumption ==
    /\ Binding \subseteq {"netcdf", "hdf5", "pnetcdf"} /\ Role \subseteq BOOLEAN
    /\ InResultDir \subseteq BOOLEAN /\ Id \subseteq Nat /\ MAX_OPEN_FILES \in Nat \ {0}
    /\ ResultFile \cap CheckpointFile = {} /\ Other \notin ResultFile \cup CheckpointFile
    /\ MaxLock \in Nat /\ MaxCreates \in Nat /\ MaxUncounted \in Nat

VARIABLES
    binding, is_simulator, in_result_dir,
    dvl,       \* the library's state
    handles,   \* open handles of the I/O library, each with its file and kind
    app,       \* the ids the application has open, each with its file
    server     \* what the DV knows; the history of a simulator's files, and of
               \* the ids of a client that a call failed with

settings == <<binding, is_simulator, in_result_dir>>
vars == <<settings, dvl, handles, app, server>>

Slot == 0 .. MAX_OPEN_FILES - 1
NoId == -1
NoSlot == -1
File == ResultFile \cup CheckpointFile
NoEntry == [path |-> Other, state |-> "FREE", key |-> NoId, fid |-> NoId,
            meta |-> NoId, other |-> NoId, hh_next |-> NoSlot]

-----------------------------------------------------------------------------
\* The table: open_files, the list of its free entries, and the hash index.

\* The member id of an entry: the last one keeps the 0 of static storage.
SlotId(i) == IF i = MAX_OPEN_FILES - 1 THEN 0 ELSE i

dvl_init ==
    [open_files |-> [i \in Slot |-> NoEntry],
     free_files |-> [i \in 1 .. MAX_OPEN_FILES |-> i - 1],
     open_files_idx |-> <<>>,
     open_redirected_files_idx |-> <<>>,
     open_files_count |-> 0, to_terminate |-> FALSE, finalized |-> FALSE, exited |-> FALSE]

\* Bound: the last entry, which would be taken for the first, is not used.
HasFreeSlot == Len(dvl.free_files) > 1

NextSlot == SlotId(Head(dvl.free_files))

\* A hash table in which v is found under k, and one without the keys in S.
assigned(map, k, v) == [x \in DOMAIN map \cup {k} |-> IF x = k THEN v ELSE map[x]]
Without(map, S) == Restrict(map, DOMAIN map \ S)

\* The entry that is found under a key; the newest hides those before it.
Found(d, key) == IF key \in DOMAIN d.open_files_idx THEN d.open_files_idx[key] ELSE NoSlot

Track(d, i, entry) ==
    [d EXCEPT !.free_files = Tail(@),
              !.open_files[i] = [entry EXCEPT !.hh_next = Found(d, entry.key)],
              !.open_files_idx = assigned(@, entry.key, i)]

Untrack(d, key) ==
    LET i == d.open_files_idx[key]
        next == d.open_files[i].hh_next
    IN  [d EXCEPT !.free_files = <<i>> \o @, !.open_files[i] = NoEntry,
                  !.open_files_idx = IF next = NoSlot THEN Without(@, {key})
                                     ELSE assigned(@, key, next)]

Tracked(key) == key \in DOMAIN dvl.open_files_idx
Entry(key) == dvl.open_files[dvl.open_files_idx[key]]

\* The id the library works with for a tracked id: a file still being simulated
\* is known by its metadata file.
ToClose(key) == IF Entry(key).state = "SIM" THEN key ELSE Entry(key).fid

NewHandle(id, file, kind) == assigned(handles, id, [file |-> file, kind |-> kind])

\* Defect: a close counts for every open of the file.
Unlocked_All(s, f) == [s EXCEPT !.locks[f] = 0]

Unlocked(s, f) == [s EXCEPT !.locks[f] = IF @ > 0 THEN @ - 1 ELSE @]

Failed(s, k) == [s EXCEPT !.failed = @ \cup ({k} \cap DOMAIN app)]
Forget(s, k) == [s EXCEPT !.failed = @ \ {k}]

-----------------------------------------------------------------------------
Init ==
    /\ binding \in Binding /\ is_simulator \in Role
    /\ in_result_dir \in IF binding = "pnetcdf" THEN InResultDir ELSE {TRUE}
    /\ dvl = dvl_init
    /\ handles = <<>> /\ app = <<>>
    /\ server = [locks |-> [f \in File |-> 0], available |-> {},
                 created |-> [f \in File |-> 0], announced |-> [f \in File |-> 0],
                 failed |-> {}]

\* A file DVLib does not care about, or a restart file opened by a simulator.
PlainOpen(id) ==
    /\ dvl.open_files_count > - MaxUncounted
    /\ handles' = NewHandle(id, Other, "real")
    /\ app' = assigned(app, id, Other)
    /\ UNCHANGED <<dvl, server>>

-----------------------------------------------------------------------------
\* Clients

\* The entry is filed under the id of the open, and the DV counts the open.
Filed(f, id, real, meta) ==
    /\ HasFreeSlot /\ server.locks[f] < MaxLock
    /\ dvl' = Track(dvl, NextSlot,
                    [NoEntry EXCEPT !.path = f, !.state = IF real THEN "OPEN" ELSE "SIM",
                                    !.key = id, !.fid = id, !.meta = meta])

OpenCounted(f, real) ==
    [server EXCEPT !.locks[f] = @ + 1,
                   !.available = IF real THEN @ \cup {f} ELSE @]

\* FOPEN is answered with the file, or with a metadata file to open instead.
ClientOpen(f, id, real, meta) ==
    /\ Filed(f, id, real, meta)
    /\ handles' = NewHandle(id, f, IF real THEN "real" ELSE "meta")
    /\ app' = assigned(app, id, f)
    /\ server' = OpenCounted(f, real)

\* The I/O library fails to open the real file: the entry is filed all the same,
\* under the id that the application's variable holds, which may be open.
ClientOpenFails(f, old) ==
    /\ Filed(f, old, TRUE, NoId)
    /\ server' = Failed(OpenCounted(f, TRUE), old)
    /\ UNCHANGED <<handles, app>>

\* Without a metadata file the call returns when the file has been produced.
dvl_nc_open(f, id) ==
    \E has_meta \in BOOLEAN :
        LET real == f \in server.available \/ ~has_meta
        IN  ClientOpen(f, id, real, IF real THEN NoId ELSE id)

dvl_nc_open_fails(f) == \E old \in Id \cup {NoId} : ClientOpenFails(f, old)

\* The bindings below abort without a metadata file; this one forgets its id.
dvl_ncmpi_open(f, id) == ClientOpen(f, id, f \in server.available, NoId)

dvl_ncmpi_open_fails(f) == f \in server.available /\ dvl_nc_open_fails(f)

H5Fopen(f, id) ==
    LET real == f \in server.available
    IN  ClientOpen(f, id, real, IF real THEN NoId ELSE id)

\* The id of a failed open is the result, and no id of the application's.
H5Fopen_fails(f) == f \in server.available /\ ClientOpenFails(f, NoId)

\* VGET returns when the file is available; the real file replaces the
\* metadata file in the entry of the id the application goes on using.
Got(k, fid) ==
    /\ Entry(k).state = "SIM" /\ Entry(k).path \in server.available
    /\ dvl' = [dvl EXCEPT !.open_files[dvl.open_files_idx[k]] =
                              [@ EXCEPT !.state = "OPEN", !.fid = fid]]
    /\ UNCHANGED app

dvl_nc_get(k, id) ==
    /\ Got(k, id)
    /\ handles' = NewHandle(id, Entry(k).path, "real")
    /\ UNCHANGED server

\* The result of the open is ignored: the metadata file passes for the real one.
dvl_nc_get_fails(k) ==
    /\ Got(k, Entry(k).fid)
    /\ server' = Failed(server, k)
    /\ UNCHANGED handles

dvl_ncmpi_get(k, id) == dvl_nc_get(k, id)
dvl_ncmpi_get_fails(k) == dvl_nc_get_fails(k)

\* The real file gets an entry of its own, and the two refer to each other.  If
\* it cannot be opened the call returns, and the next one asks the DV again.
H5Oopen(k, id) ==
    /\ Entry(k).state = "SIM" /\ Entry(k).other = NoId
    /\ Entry(k).path \in server.available /\ HasFreeSlot
    /\ dvl' = Track([dvl EXCEPT !.open_files[dvl.open_files_idx[k]] =
                                    [@ EXCEPT !.other = id, !.fid = id]],
                    NextSlot,
                    [NoEntry EXCEPT !.path = Entry(k).path, !.state = "OPEN",
                                    !.key = id, !.fid = id, !.other = k])
    /\ handles' = NewHandle(id, Entry(k).path, "real")
    /\ UNCHANGED <<app, server>>

Closed(ids) == handles' = Without(handles, ids)

\* Defect: the metadata file is not closed with the file.
ClosedWith_Meta(entry) == {}

\* What is closed with a real file that was opened after its metadata file.
ClosedWith(entry) == {entry.meta} \ {NoId}

\* The file is the one that the closed handle has.  The entry of an id that is
\* used for a file DVLib does not care about stays; the DV, told when the entry is
\* that of an open file, knows a result file but not a metadata file.
client_nc_close(k) ==
    LET e == Entry(k)
        closed == handles[ToClose(k)]
        open == e.state = "OPEN"
    IN  /\ app' = Without(app, {k})
        /\ \/ /\ closed.file = Other
              /\ Closed({ToClose(k)})
              /\ dvl' = dvl /\ server' = Forget(server, k)
           \/ /\ closed.file # Other
              /\ Closed({ToClose(k)} \cup (IF open THEN ClosedWith(e) ELSE {}))
              /\ dvl' = Untrack(dvl, k)
              /\ server' = IF open /\ closed.kind = "real"
                           THEN Unlocked(Forget(server, k), closed.file) ELSE Forget(server, k)

\* The file is the entry's, by its path relative to the result directory: the
\* close goes no further where that path does not lead to the file.
client_ncmpi_close(k) ==
    /\ Closed({ToClose(k)})
    /\ app' = Without(app, {k})
    /\ dvl' = IF in_result_dir THEN Untrack(dvl, k) ELSE dvl
    /\ server' = IF in_result_dir /\ Entry(k).state = "OPEN"
                 THEN Unlocked(Forget(server, k), Entry(k).path) ELSE Forget(server, k)

\* The ids of a file: of its metadata file and of the real one.
Both(k) == {k} \cup (({Entry(k).other} \ {NoId}) \cap DOMAIN dvl.open_files_idx)

\* Called with any of the two ids of a file, by H5Fclose or H5Idec_ref.  The id
\* of the call is closed, and closed again as "the meta file" whichever of the
\* two it is, so that the other file stays open.
client_H5Fclose(k) ==
    LET ids == Both(k)
    IN  /\ Closed({k})
        /\ server' = IF \E i \in ids : Entry(i).state = "OPEN"
                     THEN Unlocked(server, Entry(k).path) ELSE server
        /\ dvl' = IF Cardinality(ids) = 1 THEN Untrack(dvl, k)
                  ELSE Untrack(Untrack(dvl, k), Entry(k).other)
        /\ app' = Without(app, ids)

\* An id without an entry is closed as it is (the pnetcdf binding crashes).
PlainClose(k) ==
    /\ ~Tracked(k)
    /\ Closed({k})
    /\ app' = Without(app, {k})
    /\ UNCHANGED <<dvl, server>>

Client(id) ==
    \/ PlainOpen(id)
    \/ \E f \in ResultFile : CASE binding = "netcdf" -> dvl_nc_open(f, id)
                               [] binding = "hdf5" -> H5Fopen(f, id)
                               [] binding = "pnetcdf" -> dvl_ncmpi_open(f, id)
    \/ \E k \in DOMAIN app : Tracked(k) /\ CASE binding = "netcdf" -> dvl_nc_get(k, id)
                                             [] binding = "hdf5" -> H5Oopen(k, id)
                                             [] binding = "pnetcdf" -> dvl_ncmpi_get(k, id)

ClientFails ==
    \/ \E f \in ResultFile : CASE binding = "netcdf" -> dvl_nc_open_fails(f)
                               [] binding = "hdf5" -> H5Fopen_fails(f)
                               [] binding = "pnetcdf" -> dvl_ncmpi_open_fails(f)
    \/ \E k \in DOMAIN app : Tracked(k) /\ CASE binding = "netcdf" -> dvl_nc_get_fails(k)
                                             [] binding = "hdf5" -> FALSE
                                             [] binding = "pnetcdf" -> dvl_ncmpi_get_fails(k)

\* With HDF5 also by the second id of a file, which objects of the file name.
ClientClose ==
    \/ \E k \in DOMAIN app : binding # "pnetcdf" /\ PlainClose(k)
    \/ \E k \in DOMAIN app : Tracked(k) /\ CASE binding = "netcdf" -> client_nc_close(k)
                                             [] binding = "hdf5" -> client_H5Fclose(k)
                                             [] binding = "pnetcdf" -> client_ncmpi_close(k)
    \/ \E k \in DOMAIN app : /\ binding = "hdf5" /\ Tracked(k) /\ Both(k) # {k}
                             /\ client_H5Fclose(Entry(k).other)

-----------------------------------------------------------------------------
\* Simulators

CreateHandle(f, id, kind) ==
    /\ handles' = NewHandle(id, f, kind)
    /\ app' = assigned(app, id, f)
    /\ server' = [server EXCEPT !.created[f] = @ + 1]

\* FCREATE (a checkpoint has a message of its own) is answered with the reply;
\* a simulator told to end does so when its count of open files is 0.
Replied(reply) ==
    IF reply = "KILL" THEN [dvl EXCEPT !.to_terminate = TRUE]
    ELSE [dvl EXCEPT !.open_files_count = @ + 1]

Ends(reply) == (dvl.to_terminate \/ reply = "KILL") /\ dvl.open_files_count = 0

dvl_nc_create(f, id, reply) ==
    \/ /\ Ends(reply)
       /\ dvl' = [dvl EXCEPT !.to_terminate = TRUE, !.finalized = TRUE]
       /\ UNCHANGED <<handles, app, server>>
    \/ /\ ~Ends(reply) /\ reply # "REDIRECT"
       /\ dvl' = Replied(reply)
       /\ CreateHandle(f, id, "real")
    \/ /\ ~Ends(reply) /\ reply = "REDIRECT"
       /\ dvl' = [Replied(reply) EXCEPT !.open_redirected_files_idx = assigned(@, id, f)]
       /\ CreateHandle(f, id, "redirected")

\* A create that the I/O library fails is counted as one that it does not.
dvl_nc_create_fails(reply) ==
    /\ ~Ends(reply) /\ dvl.open_files_count < MaxUncounted
    /\ dvl' = Replied(reply)
    /\ UNCHANGED <<handles, app, server>>

H5Fcreate(f, id, reply) == dvl_nc_create(f, id, reply)

\* The entry is made before the file: its key is what the application's
\* variable happens to hold.  The reply is ignored.
FiledToCreate(f) ==
    /\ HasFreeSlot /\ MAX_OPEN_FILES - Len(dvl.free_files) < MaxCreates
    /\ \E old \in Id \cup {NoId} :
           dvl' = Track(dvl, NextSlot, [NoEntry EXCEPT !.path = f, !.key = old, !.fid = old])

dvl_ncmpi_create(f, id) ==
    /\ IF f \in ResultFile THEN FiledToCreate(f) ELSE dvl' = dvl
    /\ CreateHandle(f, id, "real")

dvl_ncmpi_create_fails(f) ==
    /\ f \in ResultFile /\ server.announced[f] + server.created[f] < MaxCreates
    /\ FiledToCreate(f)
    /\ UNCHANGED <<handles, app, server>>

\* Defect: the entry of a closed redirected file stays in the table.
DropRedirected_Kept(d, k) == d

DropRedirected(d, k) == [d EXCEPT !.open_redirected_files_idx = Without(@, {k})]

\* The file a simulator's id is announced as: a redirected file by its entry.
AnnouncedAs(k) ==
    IF k \in DOMAIN dvl.open_redirected_files_idx THEN dvl.open_redirected_files_idx[k]
    ELSE IF handles[k].kind = "redirected" THEN Other ELSE handles[k].file

Announced(f) ==
    IF f \in ResultFile THEN [server EXCEPT !.announced[f] = @ + 1] ELSE server

\* Every close is taken off the count, of files that were only read as well.
simulator_nc_close(k) ==
    /\ Closed({k})
    /\ app' = Without(app, {k})
    /\ dvl' = [DropRedirected(dvl, k) EXCEPT !.open_files_count = @ - 1]
    /\ server' = Announced(AnnouncedAs(k))

simulator_H5Fclose(k) == simulator_nc_close(k)

\* An id that is not found is taken for a restart file, and a file that its
\* relative path does not lead to is closed and no more.
simulator_ncmpi_close(k) ==
    /\ Closed({k})
    /\ app' = Without(app, {k})
    /\ IF Tracked(k) /\ in_result_dir
       THEN dvl' = Untrack(dvl, k) /\ server' = Announced(Entry(k).path)
       ELSE UNCHANGED <<dvl, server>>

Simulator(id) ==
    \/ PlainOpen(id)
    \/ \E f \in File :
           /\ server.created[f] < MaxCreates
           /\ \E reply \in {"OPEN", "REDIRECT", "KILL"} :
                  CASE binding = "netcdf" -> dvl_nc_create(f, id, reply)
                    [] binding = "hdf5" -> H5Fcreate(f, id, reply)
                    [] binding = "pnetcdf" -> dvl_ncmpi_create(f, id)

SimulatorFails ==
    \E f \in File : \E reply \in {"OPEN", "REDIRECT", "KILL"} :
        IF binding = "pnetcdf" THEN dvl_ncmpi_create_fails(f) ELSE dvl_nc_create_fails(reply)

SimulatorClose ==
    \E k \in DOMAIN app :
        CASE binding = "netcdf" -> simulator_nc_close(k)
          [] binding = "hdf5" -> simulator_H5Fclose(k)
          [] binding = "pnetcdf" -> simulator_ncmpi_close(k)

\* atexit calls dvl_finalize: FINALIZE is sent once, nothing is created or closed
\* after it.
Exit ==
    /\ dvl' = [dvl EXCEPT !.finalized = TRUE, !.exited = TRUE]
    /\ UNCHANGED <<handles, app, server>>

-----------------------------------------------------------------------------
\* The DV: a file becomes available; one that nobody has locked is evicted.
Server ==
    /\ \E f \in ResultFile :
           \/ f \notin server.available /\ server' = [server EXCEPT !.available = @ \cup {f}]
           \/ /\ f \in server.available /\ server.locks[f] = 0
              /\ server' = [server EXCEPT !.available = @ \ {f}]
    /\ UNCHANGED <<dvl, handles, app>>

Next ==
    /\ UNCHANGED settings
    /\ ~dvl.finalized
    /\ \/ ~is_simulator /\ \E id \in Id \ DOMAIN handles : Client(id)
       \/ ~is_simulator /\ (ClientFails \/ ClientClose)
       \/ ~is_simulator /\ Server
       \/ is_simulator /\ \E id \in Id \ DOMAIN handles : Simulator(id)
       \/ is_simulator /\ (SimulatorFails \/ SimulatorClose)
       \/ is_simulator /\ Exit

Spec == Init /\ [][Next]_vars

-----------------------------------------------------------------------------
(* Whatever was opened, closed and opened again under the same id, and     *)
(* whatever failed in between: a get on the id of a result file goes to    *)
(* that file, never to one that the id stood for before or to none at all; *)
(* unless a call failed with the id, to its real data once they were       *)
(* waited for and to its metadata file before.  And the netCDF binding     *)
(* keeps nothing open but these files.  (The HDF5 binding leaves one file  *)
(* of each pair open, the parallel netCDF binding every metadata file.)    *)
HandlesMatchFiles ==
    ~is_simulator =>
        /\ \A k \in DOMAIN app : app[k] # Other =>
               /\ Tracked(k) /\ Entry(k).fid \in DOMAIN handles
               /\ handles[Entry(k).fid].file = app[k]
               /\ k \notin server.failed =>
                      /\ Entry(k).path = app[k]
                      /\ handles[Entry(k).fid].kind =
                             IF Entry(k).state = "OPEN" \/ Entry(k).other # NoId
                             THEN "real" ELSE "meta"
        /\ binding = "netcdf" =>
               DOMAIN handles \subseteq
                   DOMAIN app \cup {dvl.open_files[i].fid :
                                       i \in Slot \ Range(dvl.free_files)}

(* A file the application has open is locked in the DV at least as often   *)
(* as it is open, so that what it reads is not evicted: a close is told    *)
(* once, by whichever of its ids the file is closed.                       *)
OpenFilesAreLocked ==
    ~is_simulator =>
        \A f \in ResultFile : server.locks[f] >= Cardinality({k \in DOMAIN app : app[k] = f})

(* Every result file a simulator has created and closed was announced to   *)
(* the DV once, under its own name, redirected or not and whatever its id  *)
(* was used for before.  (Not so with the parallel netCDF binding.)        *)
ClosesAreAnnounced ==
    is_simulator /\ binding # "pnetcdf" =>
        \A f \in ResultFile :
            server.created[f] = server.announced[f]
                                + Cardinality({k \in DOMAIN app : app[k] = f})
=============================================================================
