------------------------------- MODULE Fat32 --------------------------------
(***************************************************************************)
(* The FAT32 file system (src/fs/fat32.c) behind the file system calls     *)
(* (src/user/syscall.c): the allocation table, directories, the table of   *)
(* open files and the current directory.                                   *)
(*                                                                         *)
(* A system call runs with interrupts disabled, so every call is one step. *)
(* The bytes of files are not kept: a cluster that holds file data is      *)
(* "junk" to anyone who reads it as a directory.  Disk errors are not      *)
(* modelled here, and names are those to_short_name and the path stack     *)
(* keep whole (at most 8.3 and 11 characters), so they stand for           *)
(* themselves.                                                             *)
(***************************************************************************)
EXTENDS Integers, Sequences, FiniteSets

CONSTANTS
    TotalClusters,  \* total_clusters
    DirSlots,       \* directory entries per cluster
    ClusterSize,    \* bytes_per_cluster, in the unit of the write sizes
    FileNames,      \* names passed to open and unlink
    DirNames,       \* names passed to mkdir, chdir and unlink
    MAX_FILES,      \* file descriptors
    Sizes,          \* sizes passed to read and write
    Offsets,        \* offsets passed to seek
    MAX_PATH_DEPTH, \* entries of path_stack
    MaxSize         \* bound: largest position a call may reach

NoName == ""    \* of a slot without an entry

ASSUME FatAssumption ==
    /\ TotalClusters \in Nat \ {0}
    /\ TotalClusters + 1 < 268435447        \* FAT32_BAD_CLUSTER
    /\ DirSlots \in Nat \ {0}
    /\ ClusterSize \in Nat \ {0}
    /\ NoName \notin FileNames \cup DirNames
    /\ MAX_FILES \in Nat
    /\ Sizes \subseteq Nat
    /\ Offsets \subseteq Int
    /\ MAX_PATH_DEPTH \in Nat
    /\ MaxSize \in Nat

Smaller(a, b) == IF a < b THEN a ELSE b
Larger(a, b) == IF a < b THEN b ELSE a

Names == FileNames \cup DirNames
Cluster == 2 .. TotalClusters + 1
Root == 2
FREE == 0
EOC == 268435455        \* FAT32_EOC_MAX
Fd == 0 .. MAX_FILES - 1

\* A directory slot: 0x00 ("end"), 0xE5 ("del"), a part of a long name ("lfn"), an
\* entry ("live"), or the bytes of a file ("junk").
Kind == {"end", "del", "lfn", "live", "junk"}
Slot == [kind : Kind, name : Names \cup {NoName},
         dir : BOOLEAN, first : Cluster \cup {0}, size : 0 .. MaxSize]
Blank(kind) == [kind |-> kind, name |-> NoName, dir |-> FALSE, first |-> 0, size |-> 0]
Entry(name, dir, first) ==
    [kind |-> "live", name |-> name, dir |-> dir, first |-> first, size |-> 0]
Filled(kind) == [i \in 1 .. DirSlots |-> Blank(kind)]

\* fat32_file_t; loc is dir_cluster and dir_entry_offset.
NoFile == [is_open |-> FALSE, first |-> 0, size |-> 0, pos |-> 0, loc |-> <<0, 0>>]

VARIABLES
    fat,        \* the allocation table (both copies)
    next_free,  \* fsinfo.next_free
    content,    \* the slots of every cluster
    file,       \* file_table; is_open stands for file_used as well
    cwd,        \* g_current_dir_cluster
    path_stack

vars == <<fat, next_free, content, file, cwd, path_stack>>

\* The root directory of a disk that mkfs.fat has made, with files of at most a
\* cluster that mcopy has put there: in front of an entry are the slots of its long
\* name, which this kernel reads but never writes.
Copied ==
    [kind : {"live"}, name : FileNames, dir : {FALSE},
     first : {0} \cup (Cluster \ {Root}), size : 0 .. Smaller(ClusterSize, MaxSize)]
RootSlots ==
    {root \in [1 .. DirSlots -> {Blank("end"), Blank("lfn")} \cup Copied] :
        /\ \A i \in 1 .. DirSlots :
              /\ root[i].kind = "lfn" => i < DirSlots /\ root[i + 1].kind # "end"
              /\ root[i].kind = "live" => (root[i].first = 0 <=> root[i].size = 0)
        /\ \A i, j \in 1 .. DirSlots : i < j =>
              /\ root[i].kind = "end" => root[j].kind = "end"
              /\ root[i].kind = "live" /\ root[j].kind = "live" =>
                    /\ root[i].name # root[j].name
                    /\ root[i].first = root[j].first => root[i].first = 0}

\* A disk as build.sh or fat32_format leaves it; fat32_mount takes the hint next_free
\* as it is.
Init ==
    /\ \E root \in RootSlots :
          /\ content = [c \in Cluster |-> IF c = Root THEN root ELSE Filled("junk")]
          /\ fat = [c \in Cluster |->
                IF c = Root \/ \E i \in 1 .. DirSlots : root[i].first = c THEN EOC ELSE FREE]
    /\ next_free \in Cluster
    /\ file = [fd \in Fd |-> NoFile]
    /\ cwd = Root
    /\ path_stack = << >>

-----------------------------------------------------------------------------
(***************************************************************************)
(* The allocation table.                                                   *)
(***************************************************************************)

\* The clusters a loop over fat32_read_fat meets from c on, in order.
Walk(f, c) ==
    LET walk[k \in 0 .. TotalClusters] ==
            IF k = 0 THEN << >>
            ELSE LET w == walk[k - 1]
                     d == IF w = << >> THEN c ELSE f[w[Len(w)]]
                 IN  IF d \in Cluster THEN Append(w, d) ELSE w
    IN  walk[TotalClusters]

\* The set of them.
Chain(f, c) == LET w == Walk(f, c) IN {w[k] : k \in 1 .. Len(w)}

\* Mutant of Free: the allocator takes the end mark for a free cluster too.
FreeOrEnd(f) == {c \in Cluster : f[c] \in {FREE, EOC} /\ c # Root}

\* The clusters fat32_alloc_cluster may hand out.
Free(f) == {c \in Cluster : f[c] = FREE}

\* How far the search of fat32_alloc_cluster goes before it looks at c.
Rank(c) ==
    LET start == IF next_free \in Cluster THEN next_free ELSE 2
    IN  (c - start + TotalClusters) % TotalClusters

\* w is what Len(w) calls of fat32_alloc_cluster return.
NextFit(w) ==
    /\ \A i, j \in 1 .. Len(w) : i < j => Rank(w[i]) < Rank(w[j])
    /\ \A c \in Free(fat) : (\A i \in 1 .. Len(w) : w[i] # c) =>
           \A i \in 1 .. Len(w) : Rank(w[i]) < Rank(c)

\* The table after the clusters w have been allocated and linked behind t (no
\* cluster when t is 0).
Linked(f, t, w) ==
    [c \in Cluster |->
        IF \E i \in 1 .. Len(w) : c = w[i]
        THEN LET i == CHOOSE i \in 1 .. Len(w) : c = w[i]
             IN  IF i < Len(w) THEN w[i + 1] ELSE EOC
        ELSE IF c = t /\ w # << >> THEN w[1] ELSE f[c]]

\* fat32_free_cluster_chain.
Freed(f, c) == [d \in Cluster |-> IF d \in Chain(f, c) THEN FREE ELSE f[d]]

-----------------------------------------------------------------------------
(***************************************************************************)
(* Directories.  Positions count the slots along the chain from 1.         *)
(***************************************************************************)

At(w, p) == <<w[((p - 1) \div DirSlots) + 1], ((p - 1) % DirSlots) + 1>>
SlotAt(loc) == content[loc[1]][loc[2]]
Positions(w) == 1 .. Len(w) * DirSlots

\* fat32_find_entry: where the first live entry of that name is, if no end
\* mark comes before it; deleted and long-name slots are passed over.
find_entry(dir, name) ==
    LET w == Walk(fat, dir)
        slot(p) == SlotAt(At(w, p))
    IN  {At(w, p) : p \in {q \in Positions(w) :
            /\ slot(q).kind = "live" /\ slot(q).name = name
            /\ \A r \in 1 .. q - 1 :
                  /\ slot(r).kind # "end"
                  /\ ~ (slot(r).kind = "live" /\ slot(r).name = name)}}

\* The slots fat32_create_entry would use: the first that is free; those of long
\* names are not, also when their entry is gone.
FreeSlot(dir) ==
    LET w == Walk(fat, dir)
        usable(p) == SlotAt(At(w, p)).kind \in {"end", "del"}
    IN  {At(w, p) : p \in {q \in Positions(w) :
            usable(q) /\ \A r \in 1 .. q - 1 : ~ usable(r)}}

\* Mutant of Zeroed: the first cluster of a new directory keeps what was there.
ZeroedNotHead(head, y, dir) ==
    [c \in Cluster |-> IF c = y THEN Filled("end") ELSE content[c]]

\* The clusters cleared for a new entry: y, when the directory had to grow, and
\* the first cluster of a new directory.
Zeroed(head, y, dir) ==
    [c \in Cluster |-> IF c = y \/ (dir /\ c = head) THEN Filled("end") ELSE content[c]]

\* The clusters a new entry takes: its own, and one for a full directory.
NewEntryClusters ==
    {w \in [1 .. IF FreeSlot(cwd) = {} THEN 2 ELSE 1 -> Free(fat)] : NextFit(w)}

\* Where fat32_create_entry puts the entry: a free slot, or the first slot of the
\* cluster w[2] that extends the directory.
EntryLoc(w) == IF Len(w) = 1 THEN CHOOSE loc \in FreeSlot(cwd) : TRUE ELSE <<w[2], 1>>

\* fat32_alloc_cluster and fat32_create_entry: the entry for the new chain w[1]
\* goes into the current directory.
AddEntry(name, dir, w) ==
    LET last == Walk(fat, cwd)[Len(Walk(fat, cwd))]
        loc == EntryLoc(w)
    IN  /\ fat' = Linked(Linked(fat, 0, SubSeq(w, 1, 1)), last, SubSeq(w, 2, Len(w)))
        /\ next_free' = w[Len(w)] + 1
        /\ content' = [Zeroed(w[1], IF Len(w) = 2 THEN w[2] ELSE 0, dir)
                         EXCEPT ![loc[1]][loc[2]] = Entry(name, dir, w[1])]

\* Mutant of NoRoom: the entry's cluster is not given back.
NoRoomLeak ==
    /\ Free(fat) # {}
    /\ FreeSlot(cwd) = {}
    /\ \E w \in [1 .. 1 -> Free(fat)] :
          /\ NewEntryClusters = {}
          /\ NextFit(w)
          /\ next_free' = w[1] + 1
          /\ fat' = Linked(fat, 0, w)
    /\ UNCHANGED <<content, file, cwd, path_stack>>

\* The disk is too full to extend the directory: the cluster allocated for the
\* entry is given back, and only the search position moves.  (A disk with no free
\* cluster at all makes the call fail with nothing changed.)
NoRoom ==
    /\ Free(fat) # {}
    /\ FreeSlot(cwd) = {}
    /\ \E w \in [1 .. 1 -> Free(fat)] :
          /\ NewEntryClusters = {}
          /\ NextFit(w)
          /\ next_free' = w[1] + 1
    /\ UNCHANGED <<fat, content, file, cwd, path_stack>>

-----------------------------------------------------------------------------
(***************************************************************************)
(* The system calls.  A call that fails before it changes anything (a bad  *)
(* descriptor, no such name, no free descriptor) is a stuttering step.     *)
(***************************************************************************)

\* alloc_fd.
alloc_fd == {fd \in Fd : ~ file[fd].is_open /\ \A e \in 0 .. fd - 1 : file[e].is_open}

\* The clusters of a released chain hold nothing a directory search may rely on.
Scrubbed(c) == [d \in Cluster |-> IF d \in Chain(fat, c) THEN Filled("junk") ELSE content[d]]

\* SYS_OPEN of a name that exists.  With O_TRUNC the chain is released at once;
\* the directory entry learns of it when the file is closed.
OpenExisting(name, trunc, append) ==
    \E fd \in alloc_fd, loc \in find_entry(cwd, name) :
        LET old == SlotAt(loc)
            cut == trunc /\ old.first >= 2
            size == IF cut THEN 0 ELSE old.size
        IN  /\ file' = [file EXCEPT ![fd] =
                  [is_open |-> TRUE, first |-> IF cut THEN 0 ELSE old.first, size |-> size,
                   pos |-> IF append THEN size ELSE 0, loc |-> loc]]
            /\ fat' = IF cut THEN Freed(fat, old.first) ELSE fat
            /\ content' = IF cut THEN Scrubbed(old.first) ELSE content
            /\ UNCHANGED <<next_free, cwd, path_stack>>

\* SYS_OPEN with O_CREAT of a name that does not exist.
OpenNew(name) ==
    /\ find_entry(cwd, name) = {}
    /\ \E fd \in alloc_fd :
          \/ /\ \E w \in NewEntryClusters :
                   /\ AddEntry(name, FALSE, w)
                   /\ file' = [file EXCEPT ![fd] =
                         [is_open |-> TRUE, first |-> w[1], size |-> 0, pos |-> 0,
                          loc |-> EntryLoc(w)]]
             /\ UNCHANGED <<cwd, path_stack>>
          \/ NoRoom

\* Mutant of Sys_close: the entry keeps the first cluster it had.
Sys_closeSizeOnly(fd) ==
    LET loc == file[fd].loc
    IN  /\ file[fd].is_open
        /\ content' = [content EXCEPT ![loc[1]][loc[2]].size = file[fd].size]
        /\ file' = [file EXCEPT ![fd] = NoFile]
        /\ UNCHANGED <<fat, next_free, cwd, path_stack>>

\* SYS_CLOSE: size and first cluster go into the directory entry.
Sys_close(fd) ==
    LET loc == file[fd].loc
    IN  /\ file[fd].is_open
        /\ content' = [content EXCEPT ![loc[1]][loc[2]].size = file[fd].size,
                                       ![loc[1]][loc[2]].first = file[fd].first]
        /\ file' = [file EXCEPT ![fd] = NoFile]
        /\ UNCHANGED <<fat, next_free, cwd, path_stack>>


\* SYS_FILE_READ: as much as the size and the chain still hold.
Sys_file_read(fd, size) ==
    LET f == file[fd]
        end == Smaller(Smaller(f.pos + size, f.size), ClusterSize * Len(Walk(fat, f.first)))
    IN  /\ f.is_open
        /\ file' = [file EXCEPT ![fd].pos = Larger(f.pos, end)]
        /\ UNCHANGED <<fat, next_free, content, cwd, path_stack>>

\* The number of clusters a write of size bytes at pos asks the file to have.
Needed(pos, size) ==
    IF size = 0 THEN pos \div ClusterSize + 1 ELSE (pos + size - 1) \div ClusterSize + 1

\* Mutant of WriteEnd: a write on a full disk is taken for a complete one.
WriteEndFull(pos, size, have) == pos + size

\* Where a write of size bytes at pos stops when the file has that many clusters.
WriteEnd(pos, size, have) == Larger(pos, Smaller(pos + size, have * ClusterSize))

\* SYS_FILE_WRITE: the chain grows up to the clusters the write needs or the disk
\* has, also for the gap a seek past the end has left; the bytes that fit are
\* written.
Sys_file_write(fd, size) ==
    LET f == file[fd]
        w == Walk(fat, f.first)
        grows == f.first = 0 \/ fat[w[Len(w)]] = EOC
        short == IF grows THEN Larger(0, Needed(f.pos, size) - Len(w)) ELSE 0
        n == Smaller(short, Cardinality(Free(fat)))
    IN  /\ f.is_open
        /\ \E new \in [1 .. n -> Free(fat)] :
              LET all == w \o new
                  end == WriteEnd(f.pos, size, Len(all))
              IN  /\ NextFit(new)
                  /\ fat' = Linked(fat, IF w = << >> THEN 0 ELSE w[Len(w)], new)
                  /\ next_free' = IF n = 0 THEN next_free ELSE new[n] + 1
                  /\ content' = [c \in Cluster |->
                        IF \E k \in 1 .. Len(all) : /\ c = all[k]
                                                    /\ f.pos < k * ClusterSize
                                                    /\ (k - 1) * ClusterSize < end
                        THEN Filled("junk") ELSE content[c]]
                  /\ file' = [file EXCEPT
                        ![fd].first = IF all = << >> THEN 0 ELSE all[1],
                        ![fd].pos = end,
                        ![fd].size = IF end > f.pos THEN Larger(f.size, end) ELSE f.size]
        /\ UNCHANGED <<cwd, path_stack>>

\* SYS_SEEK: from the start, the position or the end of the file.
Sys_seek(fd, offset, whence) ==
    LET f == file[fd]
        new_pos == offset + CASE whence = "SET" -> 0
                              [] whence = "CUR" -> f.pos
                              [] whence = "END" -> f.size
    IN  /\ f.is_open
        /\ new_pos \in 0 .. MaxSize      \* bound
        /\ file' = [file EXCEPT ![fd].pos = new_pos]
        /\ UNCHANGED <<fat, next_free, content, cwd, path_stack>>

\* SYS_UNLINK: the chain is released, then the entry is marked deleted.
Sys_unlink(name) ==
    \E loc \in find_entry(cwd, name) :
        /\ fat' = Freed(fat, SlotAt(loc).first)
        /\ content' = [Scrubbed(SlotAt(loc).first) EXCEPT ![loc[1]][loc[2]] = Blank("del")]
        /\ UNCHANGED <<next_free, file, cwd, path_stack>>

\* SYS_MKDIR: nothing looks whether the name exists.
Sys_mkdir(name) ==
    \/ /\ \E w \in NewEntryClusters : AddEntry(name, TRUE, w)
       /\ UNCHANGED <<file, cwd, path_stack>>
    \/ NoRoom

\* The directory the names of path lead to from the root, -1 if one is missing;
\* fat32_chdir does not look whether what it meets is a directory.
Resolve(path) ==
    LET step[k \in 0 .. Len(path)] ==
            IF k = 0 THEN Root
            ELSE LET found == find_entry(step[k - 1], path[k])
                 IN  IF found = {} THEN -1 ELSE SlotAt(CHOOSE loc \in found : TRUE).first
    IN  step[Len(path)]

\* SYS_CHDIR "/".
ChdirRoot ==
    /\ cwd' = Root
    /\ path_stack' = << >>
    /\ UNCHANGED <<fat, next_free, content, file>>

\* Mutant of ChdirUp: only the way back to the root changes the directory.
ChdirUpStale ==
    LET up == SubSeq(path_stack, 1, Len(path_stack) - 1)
    IN  /\ path_stack # << >>
        /\ path_stack' = up
        /\ cwd' = IF up = << >> THEN Root ELSE cwd
        /\ UNCHANGED <<fat, next_free, content, file>>

\* SYS_CHDIR "..": one name less, then the rest of the path is walked from the
\* root; the name is gone even if that fails.
ChdirUp ==
    LET up == SubSeq(path_stack, 1, Len(path_stack) - 1)
    IN  /\ path_stack # << >>
        /\ path_stack' = up
        /\ cwd' = IF Resolve(up) = -1 THEN cwd ELSE Resolve(up)
        /\ UNCHANGED <<fat, next_free, content, file>>

\* path_stack after a directory has been entered: a full stack stays as it is.
Pushed(name) ==
    IF Len(path_stack) < MAX_PATH_DEPTH THEN Append(path_stack, name) ELSE path_stack

\* SYS_CHDIR to a directory of the current one.
ChdirDown(name) ==
    \E loc \in find_entry(cwd, name) :
        /\ SlotAt(loc).dir
        /\ cwd' = SlotAt(loc).first
        /\ path_stack' = Pushed(name)
        /\ UNCHANGED <<fat, next_free, content, file>>

-----------------------------------------------------------------------------
(***************************************************************************)
(* The calls are made as they are meant: a file is open once at a time,    *)
(* directories are not opened as files, what is open is not unlinked, and  *)
(* a directory is unlinked only when it is empty.  The kernel enforces     *)
(* none of it; what follows otherwise is in the README.                    *)
(***************************************************************************)

OpenAt(loc) == \E fd \in Fd : file[fd].is_open /\ file[fd].loc = loc

Openable(name) == \A loc \in find_entry(cwd, name) : ~ SlotAt(loc).dir /\ ~ OpenAt(loc)

Removable(name) ==
    \A loc \in find_entry(cwd, name) :
        /\ ~ OpenAt(loc)
        /\ SlotAt(loc).dir => \A c \in Chain(fat, SlotAt(loc).first), i \in 1 .. DirSlots :
                                  content[c][i].kind # "live"

Next ==
    \/ \E name \in FileNames :
          \/ Openable(name) /\ \E trunc, append \in BOOLEAN : OpenExisting(name, trunc, append)
          \/ OpenNew(name)
    \/ \E name \in DirNames : Sys_mkdir(name) \/ ChdirDown(name)
    \/ \E name \in Names : Removable(name) /\ Sys_unlink(name)
    \/ \E fd \in Fd :
          \/ Sys_close(fd)
          \/ \E size \in Sizes : Sys_file_read(fd, size)
          \/ \E size \in Sizes : file[fd].pos + size <= MaxSize /\ Sys_file_write(fd, size)
          \/ \E offset \in Offsets, whence \in {"SET", "CUR", "END"} :
                Sys_seek(fd, offset, whence)
    \/ ChdirRoot
    \/ ChdirUp

Spec == Init /\ [][Next]_vars

-----------------------------------------------------------------------------
(***************************************************************************)
(* Properties.                                                             *)
(***************************************************************************)

\* The live directory entries.
Live == {loc \in Cluster \X (1 .. DirSlots) : SlotAt(loc).kind = "live"}

\* The first cluster and the size of the file or directory at loc: an open
\* descriptor knows better than the entry.
Holder(loc) ==
    IF OpenAt(loc) THEN file[CHOOSE fd \in Fd : file[fd].is_open /\ file[fd].loc = loc]
    ELSE SlotAt(loc)
Owned(loc) == Chain(fat, Holder(loc).first)

\* Nothing shares a cluster with anything else: the chains of two entries, and
\* of an entry and the root directory, are disjoint, whatever was created,
\* truncated, extended and unlinked before (fat32_alloc_cluster, O_TRUNC).
NoCrossLink ==
    LET owned == [loc \in Live |-> Owned(loc)]
    IN  \A a \in Live :
            /\ owned[a] \cap Chain(fat, Root) = {}
            /\ \A b \in Live \ {a} : owned[a] \cap owned[b] = {}

\* Every cluster in use belongs to the root directory or to an entry: no sequence
\* of calls, failed ones on a full disk included, loses one.
NoLostCluster ==
    LET used == Chain(fat, Root) \cup UNION {Owned(loc) : loc \in Live}
    IN  \A c \in Cluster : fat[c] # FREE => c \in used

\* No chain runs into a free cluster: what an entry or a link names is in use.
NoDanglingLink ==
    /\ \A c \in Cluster : fat[c] \in Cluster => fat[fat[c]] # FREE
    /\ \A loc \in Live : Holder(loc).first # 0 => fat[Holder(loc).first] # FREE

\* The chain of a file is long enough for its size, also after a write that the
\* full disk cut short or one far past the end (fat32_write).
SizeCovered ==
    \A loc \in Live : Holder(loc).size <= ClusterSize * Cardinality(Owned(loc))

\* Every live entry of a directory is found by a search: its clusters hold slots,
\* never file data, and no end mark comes before a live slot.
NoHiddenEntry ==
    \A dir \in {Root} \cup {SlotAt(loc).first : loc \in {l \in Live : SlotAt(l).dir}} :
        LET w == Walk(fat, dir)
            kind(p) == SlotAt(At(w, p)).kind
        IN  \A p \in Positions(w) :
                /\ kind(p) # "junk"
                /\ kind(p) = "live" => \A q \in 1 .. p : kind(q) # "end"

\* The path stack stays within its MAX_PATH_DEPTH entries and, as long as it has
\* room, the current directory is the one its names lead to, so getcwd tells the
\* truth and ".." goes to the parent.
PathMatchesCwd ==
    /\ Len(path_stack) <= MAX_PATH_DEPTH
    /\ Len(path_stack) < MAX_PATH_DEPTH => cwd = Resolve(path_stack)

\* A call changes at most one existing file or directory: what the entry or its
\* descriptor says of it, and the links of its chain.
Touched(loc) == Holder(loc)' # Holder(loc) \/ \E c \in Owned(loc) : fat'[c] # fat[c]

OthersUntouched == [][Cardinality({loc \in Live : Touched(loc)}) <= 1]_vars
=============================================================================
