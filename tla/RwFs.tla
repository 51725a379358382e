-------------------------------- MODULE RwFs --------------------------------
(***************************************************************************)
(* The read-write filesystem library: librwfs/src/{bitmap,directory,       *)
(* format}.rs, used as rwfs-user uses it.  The metadata (bitmap and        *)
(* directory) is kept in memory and rewritten to the disk after every      *)
(* create and delete; every disk operation may fail.                       *)
(*                                                                         *)
(* A sector's content is the file version written to it last.  Every       *)
(* mount formats, so what a crash leaves on the disk is never read.        *)
(***************************************************************************)
EXTENDS Naturals, FiniteSets, FiniteSetsExt

CONSTANTS
  NoFile,       \* a model value: a free slot, a sector or region never written
  Names,        \* file names
  DataSectors,  \* sectors of the data area
  BitmapBits,   \* bits the bitmap's sectors physically hold
  DirSlots,     \* slots of the directory
  MaxSectors,   \* sectors of the staging frame: the largest file
  MaxVersions   \* bound: creates ever attempted

ASSUME RwFsAssumption ==
  /\ {DataSectors, BitmapBits, MaxSectors, MaxVersions} \subseteq Nat
  /\ DirSlots \subseteq Nat
  /\ NoFile \notin [name : Names \cup {""}, first : 0 .. DataSectors - 1,
                    n : 1 .. MaxSectors, version : 1 .. MaxVersions]

VARIABLES
  mounted,   \* format has succeeded
  bitmap,    \* bit |-> used
  dir,       \* slot |-> NoFile or its entry
  disk,      \* data sector |-> the version in it
  diskmeta,  \* the metadata region on the disk
  version,   \* creates attempted so far
  outcome    \* how the last operation ended

fsVars == <<mounted, bitmap, dir, disk, diskmeta, version, outcome>>

Bits == 0 .. BitmapBits - 1
DiskSectors == 0 .. DataSectors - 1

Run(start, n) == start .. start + n - 1

NoRun == DataSectors   \* an index past the data area

\* Mutant: a used bit ends the run, but the next one starts at the bit itself.
ScanStepOffByOne(before, i) ==
  IF bitmap[i] THEN [start |-> i, len |-> 0]
  ELSE [start |-> before.start, len |-> before.len + 1]

\* bitmap::alloc, one bit: the run of clear bits that ends before it.
ScanStep(before, i) ==
  IF bitmap[i] THEN [start |-> i + 1, len |-> 0]
  ELSE [start |-> before.start, len |-> before.len + 1]

\* bitmap::alloc, the loop: the run of clear bits that ends at each bit.
Scan[i \in Bits] ==
  ScanStep(IF i = 0 THEN [start |-> 0, len |-> 0] ELSE Scan[i - 1], i)

\* bitmap::alloc: the loop returns at the first bit where the run is n long.
\* Padding bits past the data area are not looked at.
Alloc(n) ==
  IF n = 0 \/ n > DataSectors \/ DataSectors > BitmapBits THEN NoRun
  ELSE LET ends == {i \in DiskSectors : Scan[i].len = n}
       IN IF ends = {} THEN NoRun ELSE Scan[Min(ends)].start

\* set_bit over a run.
Marked(bm, start, n, used) ==
  [i \in Bits |-> IF i \in Run(start, n) THEN used ELSE bm[i]]

Entries == {s \in DirSlots : dir[s] # NoFile}

\* directory::find: the first slot with the name, if any.
Find(name) == {s \in Entries : dir[s].name = name}

\* directory::create: the first free slot.
FreeDirSlots == {s \in DirSlots : dir[s] = NoFile}

Inserted(name, start, n) ==
  [dir EXCEPT ![Min(FreeDirSlots)] = [name |-> name, first |-> start, n |-> n,
                                      version |-> version + 1]]

\* persist_meta: the whole region in one write; a failed one leaves anything.
Persist(bm, d, ok) == diskmeta' = IF ok THEN [bitmap |-> bm, dir |-> d] ELSE NoFile

----------------------------------------------------------------------------
\* Mount::format: everything free, written, read back and compared.
Format(wrote, read) ==
  /\ ~mounted
  /\ mounted' = (wrote /\ read)
  /\ bitmap' = [i \in Bits |-> FALSE] /\ dir' = [s \in DirSlots |-> NoFile]
  /\ Persist(bitmap', dir', wrote)
  /\ outcome' = [op |-> "format", ok |-> wrote /\ read, wrote |-> wrote]
  /\ UNCHANGED <<disk, version>>

\* Mutant: the reservation is not undone.
UnreserveNot(bm, start, n) == bm

\* What create undoes when the directory or the data write fails.
Unreserve(bm, start, n) == Marked(bm, start, n, FALSE)

\* Mount::create, refused before anything reaches the disk: bad length, no run,
\* or a directory that has the name, is full or does not take it; the
\* reservation made for the last is undone.
CreateRefused(name, n) ==
  LET start == Alloc(n)
      undo == name = "" \/ Find(name) # {} \/ FreeDirSlots = {}
  IN /\ mounted /\ version < MaxVersions
     /\ n \notin 1 .. MaxSectors \/ start = NoRun \/ undo
     /\ bitmap' = IF n \notin 1 .. MaxSectors \/ start = NoRun THEN bitmap
                  ELSE Unreserve(Marked(bitmap, start, n, TRUE), start, n)
     /\ outcome' = [op |-> "create", ok |-> FALSE, wrote |-> TRUE]
     /\ version' = version + 1
     /\ UNCHANGED <<mounted, dir, disk, diskmeta>>

Creatable(name, n) ==
  /\ mounted /\ version < MaxVersions
  /\ n \in 1 .. MaxSectors /\ Alloc(n) # NoRun
  /\ name # "" /\ Find(name) = {} /\ FreeDirSlots # {}

\* Mount::create, the data write fails: some of its sectors may have been
\* written; entry and reservation are undone.
CreateDataFails(name, n, torn) ==
  LET start == Alloc(n)
  IN /\ Creatable(name, n)
     /\ torn \subseteq Run(start, n)
     /\ disk' = [s \in DiskSectors |-> IF s \in torn THEN version + 1 ELSE disk[s]]
     /\ bitmap' = Unreserve(Marked(bitmap, start, n, TRUE), start, n)
     /\ outcome' = [op |-> "create", ok |-> FALSE, wrote |-> TRUE]
     /\ version' = version + 1
     /\ UNCHANGED <<mounted, dir, diskmeta>>

\* Mount::create, the data reaches the disk; the metadata is persisted, or not,
\* and then the call fails with the file in place.
Create(name, n, ok) ==
  LET start == Alloc(n)
  IN /\ Creatable(name, n)
     /\ bitmap' = Marked(bitmap, start, n, TRUE)
     /\ dir' = Inserted(name, start, n)
     /\ disk' = [s \in DiskSectors |-> IF s \in Run(start, n) THEN version + 1 ELSE disk[s]]
     /\ Persist(bitmap', dir', ok)
     /\ outcome' = [op |-> "create", ok |-> ok, wrote |-> ok]
     /\ version' = version + 1
     /\ UNCHANGED mounted

\* Mutant: the sector count is rounded up once too often.
ReleasedOneMore(s) == Marked(bitmap, dir[s].first, dir[s].n + 1, FALSE)

\* What delete gives back: the run of the entry it removed.
Released(s) == Marked(bitmap, dir[s].first, dir[s].n, FALSE)

\* Mount::delete: entry removed, run freed, metadata persisted.
Delete(name, ok) == \E s \in Find(name) :
  /\ mounted
  /\ dir' = [dir EXCEPT ![s] = NoFile]
  /\ bitmap' = Released(s)
  /\ Persist(bitmap', dir', ok)
  /\ outcome' = [op |-> "delete", ok |-> ok, wrote |-> ok]
  /\ UNCHANGED <<mounted, disk, version>>

\* Mount::read: what it returns for a name.
ReadBack(name) == {disk[i] : i \in UNION {Run(dir[s].first, dir[s].n) : s \in Find(name)}}

FsInit ==
  /\ mounted = FALSE
  /\ bitmap = [i \in Bits |-> FALSE] /\ dir = [s \in DirSlots |-> NoFile]
  /\ disk = [s \in DiskSectors |-> NoFile]
  /\ diskmeta = NoFile /\ version = 0
  /\ outcome = NoFile

FsNext ==
  \/ \E wrote, read \in BOOLEAN : Format(wrote, read)
  \/ \E name \in Names \cup {""}, n \in 0 .. MaxSectors + 1 :
       \/ CreateRefused(name, n)
       \/ \E torn \in SUBSET DiskSectors : CreateDataFails(name, n, torn)
       \/ \E ok \in BOOLEAN : Create(name, n, ok)
  \/ \E name \in Names, ok \in BOOLEAN : Delete(name, ok)

FsSpec == FsInit /\ [][FsNext]_fsVars

----------------------------------------------------------------------------
(* Properties.                                                             *)

\* The bitmap and the directory agree, whatever failed: a used bit belongs to
\* exactly one file, and every file's run lies inside the data area.
SpaceAccounted ==
  /\ \A s \in Entries : Run(dir[s].first, dir[s].n) \subseteq DiskSectors
  /\ \A i \in Bits : bitmap[i] <=> \E s \in Entries : i \in Run(dir[s].first, dir[s].n)
  /\ \A s, t \in Entries :
       s # t => Run(dir[s].first, dir[s].n) \cap Run(dir[t].first, dir[t].n) = {}

\* A file in the directory reads back as it was created: reuse of freed
\* sectors and torn writes of failed creates never reach a surviving file.
FilesIntact ==
  \A s \in Entries : ReadBack(dir[s].name) = {dir[s].version}

\* The loop finds the lowest run that fits, and finds one whenever there is
\* one: the check rwfs-user makes of reuse.
FirstFit ==
  \A n \in 1 .. MaxSectors :
    LET fits == {i \in DiskSectors :
                   Run(i, n) \subseteq DiskSectors /\ \A j \in Run(i, n) : ~bitmap[j]}
    IN Alloc(n) = IF fits = {} THEN NoRun ELSE Min(fits)

\* What persist_meta wrote last is still what is in memory, unless that write
\* failed: an operation that does not persist undoes all it has done.
DiskCurrent == diskmeta \in {NoFile, [bitmap |-> bitmap, dir |-> dir]}

\* The metadata in memory and the data sectors agree, and the metadata on the disk
\* is that in memory since the last persist that succeeded.  A persist that fails
\* leaves the two apart until the next one, and create does not undo its work then.
FilesystemSound == SpaceAccounted /\ FilesIntact /\ FirstFit /\ DiskCurrent

=============================================================================
