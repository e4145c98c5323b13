------------------------------ MODULE FatDisk -------------------------------
(***************************************************************************)
(* The calls of Fat32 (src/fs/fat32.c) as the sequences of disk accesses   *)
(* they are made of, when an access may fail and the power may go between  *)
(* two of them.                                                            *)
(*                                                                         *)
(* A call runs to its end before the next one starts; what it still has to *)
(* do is op.todo.  The table has two copies, written one after the other   *)
(* and read from the first.  Files are in the root directory, which does   *)
(* not grow; sizes and positions count clusters, and a write of several    *)
(* clusters is like as many writes of one.  Nearly every result of         *)
(* fat32_write_fat is ignored by its callers, and so it is here.           *)
(***************************************************************************)
EXTENDS Integers, Sequences, FiniteSets

CONSTANTS
    Cluster,        \* the clusters behind the root directory's
    Names,
    DirSlots,       \* entries of the root directory
    MaxPos,         \* bound: last cluster of a file that a write may ask for
    MaxFaults       \* bound: disk accesses that fail and losses of power

FREE == 0               \* also the first cluster of a file that has none
EOC == 268435455        \* FAT32_EOC_MAX

ASSUME DiskAssumption ==
    /\ IsFiniteSet(Cluster)
    /\ Cluster \cap {FREE, EOC} = {}
    /\ DirSlots \in Nat \ {0}
    /\ MaxPos \in Nat /\ MaxFaults \in Nat

Slot == 1 .. DirSlots
Unused == [live |-> FALSE, name |-> 0, first |-> 0, size |-> 0]
Entry(name, first, size) == [live |-> TRUE, name |-> name, first |-> first, size |-> size]

VARIABLES
    fat,        \* on disk: fat[1] and fat[2], the copies of the table
    dir,        \* on disk: the slots of the root directory
    file,       \* in memory: the open files, by the slot of their entry
    op,         \* the call in progress
    faults,     \* failed accesses and losses of power so far
    suspect     \* history: the slots whose file a fault may have damaged

vars == <<fat, dir, file, op, faults, suspect>>

Closed == [open |-> FALSE, first |-> 0, size |-> 0, cut |-> FALSE]
Opened(first, size, cut) == [open |-> TRUE, first |-> first, size |-> size, cut |-> cut]
Idle == [kind |-> "idle", slot |-> 0, arg |-> 0, todo |-> << >>]

Init ==
    /\ fat = [i \in 1 .. 2 |-> [c \in Cluster |-> FREE]]
    /\ dir = [s \in Slot |-> Unused]
    /\ file = [s \in Slot |-> Closed]
    /\ op = Idle
    /\ faults = 0
    /\ suspect = {}

-----------------------------------------------------------------------------
(***************************************************************************)
(* What a call may have to do.                                             *)
(***************************************************************************)

\* fat32_write_fat: both copies of an entry of the table.
WriteFat(c, v) == [i \in 1 .. 2 |-> [do |-> "fat", copy |-> i, c |-> c, v |-> v]]

\* fat32_free_cluster_chain.
FreeChain(c) == <<[do |-> "free", c |-> c]>>

\* The search of fat32_write for the cluster k links behind c.
Seek(c, k) == <<[do |-> "seek", c |-> c, k |-> k]>>

\* fat32_write_cluster on the cluster of the directory that holds the slot.
WriteEntry(e) == <<[do |-> "dir", e |-> e]>>

\* Mutant of Extend: the new cluster is linked before it is marked as used.
ExtendLinkFirst(c, n) == WriteFat(c, n) \o WriteFat(n, EOC)

\* A cluster is taken by fat32_alloc_cluster, then linked behind c.
Extend(c, n) == WriteFat(n, EOC) \o WriteFat(c, n)

-----------------------------------------------------------------------------
(***************************************************************************)
(* Helpers.                                                                *)
(***************************************************************************)

\* The links of the table t lead from no cluster of S to one outside.
LinkClosed(t, S) == \A c \in S : t[c] \in Cluster => t[c] \in S

\* The clusters that a loop over fat32_read_fat meets from c on.
Chain(t, c) ==
    {d \in Cluster : \A S \in SUBSET Cluster :
                         LinkClosed(t, S) /\ (c \in Cluster => c \in S) => d \in S}

Live == {s \in Slot : dir[s].live}

\* The file at a slot: an open descriptor knows better than the entry.
Holder(s) == IF file[s].open THEN file[s] ELSE dir[s]
Owned(s) == Chain(fat[1], Holder(s).first)

Free == {c \in Cluster : fat[1][c] = FREE}

\* fat32_alloc_cluster returns c.  Which of the free clusters depends on where it
\* starts and on the entries it cannot read; none, when there is none or e entries,
\* all that are free, cannot be read.
Allocated(c, e) ==
    \/ c \in Free /\ e = 0
    \/ c = FREE /\ Cardinality(Free) = e

\* fat32_find_entry and the slot fat32_create_entry takes.
Found(name) ==
    {s \in Live : dir[s].name = name /\ \A r \in Live : dir[r].name = name => s <= r}
FreeSlot == {s \in Slot \ Live : \A r \in Slot \ Live : s <= r}

\* The entry still has the chain that O_TRUNC has released (history: file[s].cut).
Stale(s) == file[s].open /\ file[s].cut

Faults(e) == faults + e <= MaxFaults /\ faults' = faults + e

\* The files that share a cluster with a suspect one are suspect once that is used.
Sharing(s) ==
    IF s \in suspect THEN {r \in Live : Owned(r) \cap Owned(s) # {}} ELSE {}

\* arg is the cluster of a new file, or the position of a write.
Start(kind, s, arg, todo) ==
    op' = [kind |-> kind, slot |-> s, arg |-> arg, todo |-> todo]

-----------------------------------------------------------------------------
(***************************************************************************)
(* The calls.  A file is open once at a time and not unlinked while open,  *)
(* as in Fat32.                                                            *)
(***************************************************************************)

\* fat32_open with O_CREAT of a name that is not there, or whose entry could not
\* be read (e > 0), which is taken for the same.  A full disk ends the call.
OpenNew(name, c, e) ==
    /\ op = Idle
    /\ \E s \in FreeSlot :
          /\ Found(name) # {} => e > 0
          /\ \A r \in Found(name) : ~ file[r].open
          /\ Allocated(c, e - Cardinality(Found(name)))
          /\ Faults(e)
          /\ \/ c = FREE /\ UNCHANGED <<op, suspect>>
             \/ /\ c # FREE
                /\ suspect' = suspect \cup Found(name)
                /\ Start("create", s, c, WriteFat(c, EOC) \o WriteEntry(Entry(name, c, 0)))
    /\ UNCHANGED <<fat, dir, file>>

\* fat32_open of a file that is there; with O_TRUNC its chain is released at once.
OpenExisting(s, trunc) ==
    /\ op = Idle
    /\ s \in Found(dir[s].name) /\ ~ file[s].open
    /\ \/ /\ trunc /\ dir[s].first # 0
          /\ Start("trunc", s, 0, FreeChain(dir[s].first))
          /\ suspect' = suspect \cup Sharing(s)
          /\ UNCHANGED file
       \/ /\ ~ (trunc /\ dir[s].first # 0)
          /\ file' = [file EXCEPT ![s] = Opened(dir[s].first, dir[s].size, FALSE)]
          /\ UNCHANGED <<op, suspect>>
    /\ UNCHANGED <<fat, dir, faults>>

\* fat32_write of the cluster at position pos of the file.
Write(s, pos, c, e) ==
    /\ op = Idle
    /\ file[s].open
    /\ suspect' = suspect \cup Sharing(s)
    /\ \/ /\ file[s].first # 0 /\ c = file[s].first /\ e = 0
          /\ Start("write", s, pos, Seek(c, pos))
          /\ UNCHANGED <<file, faults>>
       \/ /\ file[s].first = 0 /\ Allocated(c, e)
          /\ Faults(e)
          /\ file' = [file EXCEPT ![s].first = c]
          /\ IF c = FREE THEN UNCHANGED op
             ELSE Start("write", s, pos, WriteFat(c, EOC) \o Seek(c, pos))
    /\ UNCHANGED <<fat, dir>>

\* fat32_close.
Close(s) ==
    /\ op = Idle
    /\ file[s].open
    /\ Start("close", s, 0, WriteEntry(Entry(dir[s].name, file[s].first, file[s].size)))
    /\ UNCHANGED <<fat, dir, file, faults, suspect>>

\* fat32_unlink.
Unlink(s) ==
    /\ op = Idle
    /\ s \in Found(dir[s].name) /\ ~ file[s].open
    /\ suspect' = suspect \cup Sharing(s)
    /\ Start("unlink", s, 0, FreeChain(dir[s].first) \o WriteEntry(Unused))
    /\ UNCHANGED <<fat, dir, file, faults>>

-----------------------------------------------------------------------------
(***************************************************************************)
(* One access of the call in progress.                                     *)
(***************************************************************************)

Todo(do) == op.todo # << >> /\ Head(op.todo).do = do
Then(todo) == op' = [op EXCEPT !.todo = todo]

\* Mutant of FatWrite: the second copy is left out.
FatWriteOnce ==
    /\ Todo("fat")
    /\ LET h == Head(op.todo)
       IN  fat' = IF h.copy = 1 THEN [fat EXCEPT ![1][h.c] = h.v] ELSE fat
    /\ Then(Tail(op.todo))
    /\ UNCHANGED <<dir, file, faults, suspect>>

FatWrite ==
    /\ Todo("fat")
    /\ LET h == Head(op.todo) IN fat' = [fat EXCEPT ![h.copy][h.c] = h.v]
    /\ Then(Tail(op.todo))
    /\ UNCHANGED <<dir, file, faults, suspect>>

\* The first copy that cannot be read or written ends fat32_write_fat, and the
\* caller goes on.  A link or an end mark that is missing damages the file.
FatFails ==
    /\ Todo("fat")
    /\ Faults(1)
    /\ LET h == Head(op.todo)
       IN  /\ Then(IF h.copy = 1 THEN Tail(Tail(op.todo)) ELSE Tail(op.todo))
           /\ suspect' = IF h.copy = 1 /\ h.v # FREE THEN suspect \cup {op.slot} ELSE suspect
    /\ UNCHANGED <<fat, dir, file>>

\* A step of fat32_free_cluster_chain: the next cluster is read before this one is
\* released; one that cannot be read (FAT32_BAD_CLUSTER) ends it after this.
FreeStep ==
    /\ Todo("free")
    /\ LET c == Head(op.todo).c
       IN  \/ c \notin Cluster /\ Then(Tail(op.todo)) /\ UNCHANGED faults
           \/ /\ c \in Cluster
              /\ \/ Then(WriteFat(c, FREE) \o FreeChain(fat[1][c]) \o Tail(op.todo)) /\ UNCHANGED faults
                 \/ Then(WriteFat(c, FREE) \o Tail(op.todo)) /\ Faults(1)
    /\ UNCHANGED <<fat, dir, file, suspect>>

\* A step of fat32_write's search: the chain grows at its end.  A free cluster, one
\* that cannot be read or a full disk ends the call.
SeekStep(n, e) ==
    /\ Todo("seek")
    /\ Head(op.todo).k > 0
    /\ LET c == Head(op.todo).c
           k == Head(op.todo).k
           next == fat[1][c]
       IN  \/ /\ next = EOC /\ Allocated(n, e)
              /\ Then(IF n = FREE THEN << >> ELSE Extend(c, n) \o Seek(n, k - 1))
              /\ Faults(e)
           \/ /\ next # EOC /\ n = next /\ e = 0
              /\ Then(IF next = FREE THEN << >> ELSE Seek(next, k - 1))
              /\ UNCHANGED faults
           \/ /\ n = FREE /\ e = 1
              /\ Then(<< >>)
              /\ Faults(1)
    /\ UNCHANGED <<fat, dir, file, suspect>>

\* The data; a cluster that cannot be written does not count.
DataWrite ==
    /\ Todo("seek")
    /\ Head(op.todo).k = 0
    /\ Then(<< >>)
    /\ \/ /\ file' = [file EXCEPT ![op.slot].size =
                IF op.arg + 1 > file[op.slot].size THEN op.arg + 1 ELSE file[op.slot].size]
          /\ UNCHANGED faults
       \/ Faults(1) /\ UNCHANGED file
    /\ UNCHANGED <<fat, dir, suspect>>

EntryWrite ==
    /\ Todo("dir")
    /\ dir' = [dir EXCEPT ![op.slot] = Head(op.todo).e]
    /\ Then(Tail(op.todo))
    /\ suspect' = IF op.kind = "unlink" THEN suspect \ {op.slot} ELSE suspect
    /\ UNCHANGED <<fat, file, faults>>

\* The directory cluster is read and written sector by sector: an access that fails
\* may be one before or one after the entry has reached the disk.  fat32_open gives
\* the new cluster back, also when only the search for the new entry fails.
EntryFails ==
    /\ Todo("dir")
    /\ Faults(1)
    /\ \E written \in BOOLEAN :
          /\ dir' = IF written THEN [dir EXCEPT ![op.slot] = Head(op.todo).e] ELSE dir
          /\ suspect' = IF \/ op.kind = "create" /\ written
                           \/ op.kind = "unlink" /\ ~ written
                           \/ op.kind = "close" /\ ~ written /\ Stale(op.slot)
                        THEN suspect \cup {op.slot}
                        ELSE IF op.kind = "close" THEN suspect ELSE suspect \ {op.slot}
    /\ IF op.kind = "create"
       THEN op' = [op EXCEPT !.kind = "failed", !.todo = FreeChain(op.arg)]
       ELSE Then(<< >>)
    /\ UNCHANGED <<fat, file>>

\* The call returns.  fat32_open keeps the place of the first entry of that name.
Return ==
    /\ op # Idle /\ op.todo = << >>
    /\ op' = Idle
    /\ file' = CASE op.kind \in {"create", "trunc"} ->
                      [s \in Slot |-> IF s \in Found(dir[op.slot].name)
                                      THEN Opened(op.arg, 0, op.kind = "trunc")
                                      ELSE file[s]]
                 [] op.kind = "close" -> [file EXCEPT ![op.slot] = Closed]
                 [] OTHER -> file
    /\ UNCHANGED <<fat, dir, faults, suspect>>

\* The files that a loss of power leaves with an entry for a released chain.
InDoubt ==
    {s \in Live : Stale(s) \/ (op.kind \in {"unlink", "trunc"} /\ s = op.slot)}

\* Power is lost, and kernel_main mounts the disk again.
Crash ==
    /\ Faults(1)
    /\ op' = Idle
    /\ file' = [s \in Slot |-> Closed]
    /\ suspect' = (suspect \cup InDoubt) \cap Live
    /\ UNCHANGED <<fat, dir>>

Next ==
    \/ \E name \in Names, c \in Cluster \cup {FREE}, e \in 0 .. MaxFaults : OpenNew(name, c, e)
    \/ \E s \in Live :
          \/ \E trunc \in BOOLEAN : OpenExisting(s, trunc)
          \/ \E pos \in 0 .. MaxPos, c \in Cluster \cup {FREE}, e \in 0 .. MaxFaults : Write(s, pos, c, e)
          \/ Close(s)
          \/ Unlink(s)
    \/ FatWrite \/ FatFails \/ FreeStep
    \/ \E n \in Cluster \cup {FREE}, e \in 0 .. MaxFaults : SeekStep(n, e)
    \/ DataWrite \/ EntryWrite \/ EntryFails \/ Return
    \/ Crash

Spec == Init /\ [][Next]_vars

-----------------------------------------------------------------------------
(***************************************************************************)
(* Properties.                                                             *)
(***************************************************************************)

\* The chain of a file is in use from its first cluster to an end mark and long
\* enough for its size.
Sound(s) ==
    LET owned == Owned(s)
    IN  /\ \A c \in owned : fat[1][c] # FREE
        /\ owned # {} => \E c \in owned : fat[1][c] = EOC
        /\ Cardinality(owned) >= Holder(s).size

\* A fault harms no file but the one whose call it cuts short: all others are sound
\* and share no cluster.  Power lost while a file grows or is created harms none;
\* lost between O_TRUNC and the close, or in an unlink, it leaves an entry that
\* names clusters others may be given, and a failed write of the table a file whose
\* clusters it does not hold.  From there harm spreads only by using that file.
HarmContained ==
    LET sure == Live \ (suspect \cup (IF op = Idle THEN {} ELSE {op.slot}))
        owned == [s \in sure |-> Owned(s)]
    IN  \A s \in sure :
            /\ Sound(s)
            /\ \A r \in sure \ {s} : owned[s] \cap owned[r] = {}

\* The copies of the table differ in one entry at most for every fault, and in one
\* more while a call is in progress (fat32_write_fat).
CopiesAgree ==
    Cardinality({c \in Cluster : fat[1][c] # fat[2][c]}) <=
        faults + IF op = Idle THEN 0 ELSE 1
=============================================================================
