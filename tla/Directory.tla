------------------------------ MODULE Directory ------------------------------
(* The directory layer of src/src/filesys/directory.c.  An inode's data is *)
(* viewed as a sequence of struct dir_entry slots; slot 1 (offset 0) of a  *)
(* directory holds its parent.  The callers' struct dir handles are        *)
(* Handles.  inode.c, free-map.c and filesys.c are not in this repository: *)
(* the inode open count, removal and release follow their interface        *)
(* (inode_open / inode_reopen / inode_close / inode_remove), and the       *)
(* create path of filesys.c (allocate a sector, create the inode, dir_add, *)
(* release the sector on failure) is the action Create.  Each call runs to *)
(* completion: the callers serialise file-system calls.                    *)
EXTENDS Integers, Sequences, FiniteSetsExt

CONSTANTS
    Sectors,     \* disk sectors that can hold an inode
    ROOT,        \* ROOT_DIR_SECTOR
    Names,       \* valid file names
    Handles,     \* struct dir objects the callers hold
    Paths,       \* arguments of dir_open_path, as their strtok_r tokens
    EntryCnt,    \* entry_cnt passed to dir_create (slot 0 included)
    MaxEntries,  \* bound: slots an inode can grow to before writes fail
    None         \* no sector / closed handle

ASSUME ROOT \in Sectors /\ None \notin Sectors /\ EntryCnt >= 1 /\ MaxEntries >= EntryCnt

Junk == "junk"           \* the name bytes of an entry nobody initialised
Kinds == {"free", "file", "dir"}
Closed == [sec |-> None, pos |-> 1, ok |-> TRUE]   \* a struct dir not open
Slot == [used : BOOLEAN, name : Names \cup {Junk}, sector : Sectors \cup {None}]
\* A zero-filled slot of a fresh inode.
Zero == [used |-> FALSE, name |-> Junk, sector |-> None]

VARIABLES
    kind,      \* the inode in each sector: free, or an inode and its is_dir
    ents,      \* each inode's data, as dir_entry slots
    open_cnt,  \* inode->open_cnt of the in-memory inode (0: not in memory)
    removed,   \* inode->removed
    handle,    \* each struct dir: [sec, pos, ok], sec = None when not open;
               \* ok is FALSE once the struct inode it points to was freed
    uaf        \* an inode_* call was made on a struct inode already freed

vars == <<kind, ents, open_cnt, removed, handle, uaf>>

-----------------------------------------------------------------------------
(* inode.c interface.                                                      *)

\* inode_close: the last close frees the in-memory inode; a removed inode's
\* sectors go back to the free map.
InodeClose(s, k, e, c, r) ==
    LET last == c[s] = 1
    IN  [kind |-> IF last /\ r[s] THEN [k EXCEPT ![s] = "free"] ELSE k,
         ents |-> IF last /\ r[s] THEN [e EXCEPT ![s] = <<>>] ELSE e,
         cnt  |-> [c EXCEPT ![s] = @ - 1],
         rem  |-> IF last THEN [r EXCEPT ![s] = FALSE] ELSE r]

\* The handles left pointing at the struct inode of S when CNT drops its
\* count to zero: inode_close has freed it under them.
Stale(hd, s, cnt) ==
    [h \in Handles |-> IF hd[h].sec = s /\ cnt[s] = 0 THEN [hd[h] EXCEPT !.ok = FALSE]
                       ELSE hd[h]]

-----------------------------------------------------------------------------
(* Lookup.                                                                 *)

\* lookup: the first in-use slot after slot 1 named N, or 0.
Lookup(es, n) ==
    LET hits == {i \in 2..Len(es) : es[i].used /\ es[i].name = n}
    IN  IF hits = {} THEN 0 ELSE Min(hits)

\* dir_lookup: the sectors the inode it returns can be.  ".." reads slot 1;
\* from an inode with no data the read is short and e.inode_sector is
\* uninitialised, so any sector can be opened.
DirLookup(d, tok) ==
    CASE tok = "."  -> {d}
      [] tok = ".." -> IF ents[d] = <<>> THEN Sectors ELSE {ents[d][1].sector} \ {None}
      [] OTHER      -> IF Lookup(ents[d], tok) = 0 THEN {}
                       ELSE {ents[d][Lookup(ents[d], tok)].sector}

\* dir_is_empty: no slot after slot 1 is in use.
DirIsEmpty(es) == \A j \in 2..Len(es) : ~es[j].used

\* The strtok_r loop of dir_open_path: the inodes the walk can end at.
RECURSIVE Walk(_, _)
Walk(ds, toks) ==
    IF toks = <<>> THEN ds
    ELSE Walk(UNION {DirLookup(d, Head(toks)) : d \in ds}, Tail(toks))

-----------------------------------------------------------------------------
(* Operations.                                                             *)

Init ==
    \E g \in BOOLEAN :           \* dir_create's slot 0 has an unset in_use
      /\ kind = [s \in Sectors |-> IF s = ROOT THEN "dir" ELSE "free"]
      /\ ents = [s \in Sectors |->
                   IF s = ROOT
                   THEN <<[used |-> g, name |-> Junk, sector |-> ROOT]>>
                          \o [i \in 1..EntryCnt - 1 |-> Zero]
                   ELSE <<>>]
      /\ open_cnt = [s \in Sectors |-> 0]
      /\ removed = [s \in Sectors |-> FALSE]
      /\ handle = [h \in Handles |-> Closed]
      /\ uaf = FALSE

\* dir_open (inode): the handle takes the reference; pos skips slot 1.
Open(h, s) ==
    /\ handle' = [handle EXCEPT ![h] = [sec |-> s, pos |-> 2, ok |-> TRUE]]
    /\ open_cnt' = [open_cnt EXCEPT ![s] = @ + 1]

\* dir_open_root
DirOpenRoot(h) ==
    /\ handle[h].sec = None
    /\ Open(h, ROOT)
    /\ UNCHANGED <<kind, ents, removed, uaf>>

\* dir_reopen: a second struct dir on the same inode.
DirReopen(h, g) ==
    /\ handle[h].sec # None /\ handle[h].ok /\ handle[g].sec = None
    /\ Open(g, handle[h].sec)
    /\ UNCHANGED <<kind, ents, removed, uaf>>

\* dir_open_path: start at the root (no cwd is set: chdir is absent), open
\* each component in turn, closing the previous one, whatever its inode
\* is; NULL if a component is missing or the last inode is removed.
DirOpenPath(h, p) ==
    /\ handle[h].sec = None
    /\ \E r \in Walk({ROOT}, p) \cup (IF Walk({ROOT}, p) = {} THEN {None} ELSE {}) :
         IF r = None \/ removed[r]
         THEN UNCHANGED <<handle, open_cnt>>
         ELSE Open(h, r)
    /\ UNCHANGED <<kind, ents, removed, uaf>>

\* dir_close: inode_close, then free of the struct dir.  On a stale handle
\* the inode_close works on a freed struct inode, and its writes are lost.
DirClose(h) ==
    LET s == handle[h].sec
        c == InodeClose(s, kind, ents, open_cnt, removed)
    IN  /\ s # None
        /\ IF handle[h].ok
           THEN /\ handle' = Stale([handle EXCEPT ![h] = Closed], s, c.cnt)
                /\ kind' = c.kind /\ ents' = c.ents /\ open_cnt' = c.cnt /\ removed' = c.rem
                /\ UNCHANGED uaf
           ELSE /\ handle' = [handle EXCEPT ![h] = Closed]
                /\ uaf' = TRUE
                /\ UNCHANGED <<kind, ents, open_cnt, removed>>

\* dir_readdir: the next in-use slot at or after pos.
DirReaddir(h) ==
    LET s    == handle[h].sec
        p    == handle[h].pos
        hits == {i \in p..Len(ents[s]) : ents[s][i].used}
    IN  /\ s # None /\ handle[h].ok
        /\ handle' = [handle EXCEPT ![h].pos = IF hits = {} THEN Max({p, Len(ents[s]) + 1})
                                                ELSE Min(hits) + 1]
        /\ UNCHANGED <<kind, ents, open_cnt, removed, uaf>>

\* dir_create (sector, entry_cnt): slot 1 gets the entry e whose only
\* initialised field is inode_sector = sector; G is its in_use byte.
DirCreate(s, g) ==
    <<[used |-> g, name |-> Junk, sector |-> s]>> \o [i \in 1..EntryCnt - 1 |-> Zero]

\* The slot dir_add writes to: the first one not in use, counting from
\* offset 0, or the end of the data.
FreeSlot(es) ==
    LET free == {i \in 1..Len(es) : ~es[i].used}
    IN  IF free = {} THEN Len(es) + 1 ELSE Min(free)

\* filesys_create / filesys_mkdir around dir_add: allocate a sector, create
\* the inode (dir_create for a directory), dir_add NAME to the directory of
\* handle H, and release the sector if dir_add fails.  dir_add opens a new
\* directory to write its parent into slot 1, again from an uninitialised e.
Create(h, n, isdir) ==
    LET d == handle[h].sec IN
    /\ d # None /\ handle[h].ok
    /\ \/ /\ \A x \in Sectors : kind[x] # "free"       \* free_map_allocate fails
          /\ UNCHANGED <<kind, ents>>
       \/ \E s \in {x \in Sectors : kind[x] = "free"}, g1, g2 \in BOOLEAN :
            LET fresh == IF isdir
                         THEN [DirCreate(s, g1) EXCEPT ![1] = [used |-> g2, name |-> Junk, sector |-> d]]
                         ELSE <<>>
                ofs   == FreeSlot(ents[d])
                ok    == Lookup(ents[d], n) = 0 /\ ofs <= MaxEntries
                row   == [used |-> TRUE, name |-> n, sector |-> s]
            IN  /\ kind' = [kind EXCEPT ![s] = IF ok THEN (IF isdir THEN "dir" ELSE "file") ELSE "free"]
                /\ ents' = [ents EXCEPT ![s] = IF ok THEN fresh ELSE <<>>,
                                        ![d] = IF ok
                                               THEN IF ofs > Len(@) THEN Append(@, row)
                                                    ELSE [@ EXCEPT ![ofs] = row]
                                               ELSE @]
    /\ UNCHANGED <<open_cnt, removed, handle, uaf>>

\* Mutant: the cleared in_use is set in the local copy e and never written
\* back to the directory.
EraseEntry_noWrite(es, d, i) == es

\* dir_remove's erase: e.in_use = false, written back at offset ofs.
EraseEntry(es, d, i) == [es EXCEPT ![d][i].used = FALSE]

\* Mutant: dir_remove without the inode_open, closing at done an inode it
\* never opened.
RemoveRefs_noOpen(c, isdir, cnt) == cnt

\* dir_remove's references before done: inode_open (+1); for a directory,
\* dir_open takes it over and dir_close drops it (-1).
RemoveRefs(c, isdir, cnt) == IF isdir THEN cnt ELSE [cnt EXCEPT ![c] = @ + 1]

\* dir_remove: find NAME, inode_open it (+1), and for a directory dir_open
\* it, test dir_is_empty and dir_close it (-1); a non-empty directory goes
\* to done.  Otherwise erase the slot and inode_remove.  At done,
\* inode_close (-1) again.  The dir_close drops the reference inode_open
\* took, so the inode_close at done drops one that belongs to some other
\* struct dir: a directory nets -1, a file 0.  When no one else had the
\* directory open, dir_close frees the struct inode, and the inode_remove
\* and inode_close that follow write freed memory and are lost.  When the
\* count reaches zero at done, the handles still on the inode are stale.
DirRemove(h, n) ==
    LET d     == handle[h].sec
        i     == Lookup(ents[d], n)
        c     == ents[d][i].sector
        isdir == kind[c] = "dir"
        erase == ~isdir \/ DirIsEmpty(ents[c])
        gone  == isdir /\ open_cnt[c] = 0
        cnt0  == RemoveRefs(c, isdir, open_cnt)
        cl    == InodeClose(c, kind, ents, cnt0,
                            IF erase THEN [removed EXCEPT ![c] = TRUE] ELSE removed)
    IN  /\ d # None /\ handle[h].ok
        /\ \/ /\ i = 0
              /\ UNCHANGED <<kind, ents, open_cnt, removed, handle, uaf>>
           \/ /\ i # 0 /\ gone
              /\ uaf' = TRUE
              /\ ents' = IF erase THEN EraseEntry(ents, d, i) ELSE ents
              /\ UNCHANGED <<kind, open_cnt, removed, handle>>
           \/ /\ i # 0 /\ ~gone
              /\ kind' = cl.kind /\ open_cnt' = cl.cnt /\ removed' = cl.rem
              /\ ents' = IF erase THEN EraseEntry(cl.ents, d, i) ELSE cl.ents
              /\ handle' = Stale(handle, c, cl.cnt)
              /\ UNCHANGED uaf

-----------------------------------------------------------------------------
Next ==
    \E h \in Handles :
        \/ DirOpenRoot(h)
        \/ \E g \in Handles : DirReopen(h, g)
        \/ \E p \in Paths : DirOpenPath(h, p)
        \/ DirClose(h)
        \/ DirReaddir(h)
        \/ \E n \in Names, isdir \in BOOLEAN : Create(h, n, isdir)
        \/ \E n \in Names : DirRemove(h, n)

Spec == Init /\ [][Next]_vars

-----------------------------------------------------------------------------
(* Properties.                                                             *)

DirTypeOK ==
    /\ kind \in [Sectors -> Kinds]
    /\ \A s \in Sectors : ents[s] \in Seq(Slot) /\ Len(ents[s]) <= MaxEntries
    /\ open_cnt \in [Sectors -> Nat]
    /\ removed \in [Sectors -> BOOLEAN]
    /\ handle \in [Handles -> [sec : Sectors \cup {None}, pos : 1..MaxEntries + 1,
                                ok : BOOLEAN]]
    /\ uaf \in BOOLEAN


\* dir_open, dir_reopen and dir_close keep inode->open_cnt equal to the
\* number of open struct dir handles on the inode, across every sequence
\* of opens through paths, reopens, closes and removes.  dir_remove breaks
\* it: a directory open in two other handles is left with a count of one.
OpenCountsMatchHandles ==
    \A s \in Sectors :
        open_cnt[s] = Cardinality({h \in Handles : handle[h].sec = s /\ handle[h].ok})

\* dir_remove erases a name before the inode behind it can be released,
\* and a failed dir_add releases only a sector it never wrote: every in-use
\* entry (past the parent slot) of a directory inode names a sector that
\* still holds an inode, across removes, failed creates and the releases
\* of the last inode_close.
EntriesNameLiveInodes ==
    \A d \in Sectors : kind[d] = "dir" =>
        \A i \in 2..Len(ents[d]) : ents[d][i].used => kind[ents[d][i].sector] # "free"

\* A name dir_add writes into an in-use slot of a directory is found by
\* lookup (and so by dir_lookup, dir_open_path and dir_remove).
AddedNameFound ==
    [][\A d \in Sectors, n \in Names :
         Lookup(ents[d], n) = 0 /\ (\E i \in DOMAIN ents'[d] : ents'[d][i].used /\ ents'[d][i].name = n)
            => Lookup(ents'[d], n) # 0
      ]_vars

\* No inode_remove or inode_close is made on a struct inode that is already
\* freed: by the dir_close inside dir_remove, or, for a struct dir still
\* open on the inode, by the extra inode_close at the end of dir_remove.
NoUseAfterFree == ~uaf

====
