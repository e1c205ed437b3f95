------------------------------- MODULE BootFat -------------------------------
(***************************************************************************)
(* The FAT32 driver of the second boot stage (bootloader/Stage-2/FAT32.c)   *)
(* with the two parts it stands on: the disk, whose reads are retried       *)
(* (Disk.c), and the bump allocator of sectors (Memory.c).                  *)
(*                                                                          *)
(* The unit of data is the unit a file is read in; what a unit holds is     *)
(* named by where it lies on the disk, <<cluster, offset>>.  What a cluster *)
(* reads like as a directory, whether it is one or not, is the sequence of  *)
(* its entries up to the first empty name.                                  *)
(***************************************************************************)
EXTENDS Integers, Sequences, FiniteSets

CONSTANTS Disks,             \* the volumes the machine may be started from
          FatEntries,        \* entries of the FAT in one of its sectors
          BytesPerCluster,   \* units of data in a cluster
          EntriesPerCluster  \* directory entries in a cluster

ASSUME BootFatAssumption ==
    /\ FatEntries \in Nat \ {0}
    /\ BytesPerCluster \in Nat \ {0}
    /\ EntriesPerCluster \in Nat \ {0}
    \* with 8 sectors or more to a cluster the buffers no longer fit in the
    \* 128 sectors of the allocator and alloc returns null, which no caller tests
    /\ \A d \in Disks : d.sectorsPerCluster \in 1..4

VARIABLES
    disk,        \* the volume: its FAT, its clusters as entries, their size
    allocated,   \* allocated_sectors: the top of the bump allocator
    at,          \* what was allocated: name -> first sector and length
    fatCache,    \* currentFATSector, and the sector FAT32_table really holds
    clusters,    \* open_file_clusters and m_freeCluster: the cluster each holds
    files,       \* open_files
    openCount,   \* open_file_count
    lost         \* history: the calls of disk_readSectors that failed

fatVars == <<disk, allocated, at, fatCache, clusters, files, openCount, lost>>

\* Units that come from no cluster: memset's zero, and getc's null.
ZERO == <<-1, 0>>
NULL == <<-1, 1>>

UINT16_MAX == 65535
FAT_MAX_OPEN_FILES == 16
SECTOR_SIZE == 512
MEMORY_FAT_SIZE == 65536
FILE_SIZE == 48                     \* sizeof(FILE)

\* UINT32_MAX and UINT32_MAX - 1: TLC's integers end at 2^31 - 1, and what the
\* code does with the two depends on their low 16 bits only.
FAT32_CLUSTER_END == 2147483647
FAT32_CLUSTER_ERROR == 2147483646
LastCluster == 268435448            \* 0x0FFFFFF8: the mark that ends a chain

FreeHandle == FAT_MAX_OPEN_FILES    \* the slot of m_freeCluster

-----------------------------------------------------------------------------
\* The disk.

retry_count == 3

\* Mutant of disk_readSectors: that every attempt failed is not reported.
Seed_disk_readSectors(errors, resets) ==
    [got |-> errors = 0 \/ (resets /\ errors < retry_count), ok |-> ~(errors > 0 /\ ~resets)]

\* One call in which the BIOS fails `errors` times before it succeeds, and
\* resets the drive or not.  `got`: the data has reached the buffer (a transfer
\* that fails leaves the buffer alone); `ok`: what the code returns.
disk_readSectors(errors, resets) ==
    [got |-> errors = 0 \/ (resets /\ errors < retry_count),
     ok  |-> /\ ~(errors > 0 /\ ~resets)       \* the reset failed
             /\ ~(errors >= retry_count)]      \* every attempt failed

Reads == {disk_readSectors(e, r) : e \in 0..retry_count, r \in BOOLEAN}

\* The history of failed reads after a read r made by `who`.
Lost(who, r) == lost \cup (IF r.ok THEN {} ELSE {who})

-----------------------------------------------------------------------------
\* Memory.c: a stack of sectors.

bytesToSectors(bytes) == (bytes + SECTOR_SIZE - 1) \div SECTOR_SIZE

\* Mutant of Region: the top is moved before the address is taken.
Seed_Region(top, n) == [first |-> top + n, size |-> n]

\* The region that alloc(n) returns when `top` sectors are allocated.
Region(top, n) ==
    IF (top + n) * SECTOR_SIZE >= MEMORY_FAT_SIZE
    THEN [first |-> -1, size |-> n]           \* nullptr, and the top still moves
    ELSE [first |-> top, size |-> n]

popAllocMem(top, sectors) == top - sectors

-----------------------------------------------------------------------------
\* The FAT, through the one sector of it that is cached.

FatValue(c) == IF c \in DOMAIN disk.fat THEN disk.fat[c] ELSE 0

FatSector(c) == c \div FatEntries

\* The cache after the entry of c was asked for, r being the read if one is made.
CacheAfter(c, r) ==
    IF FatSector(c) = fatCache.id THEN fatCache
    ELSE [id    |-> IF r.ok THEN FatSector(c) ELSE fatCache.id,
          holds |-> IF r.got THEN FatSector(c) ELSE fatCache.holds]

FatReadFails(c, r) == FatSector(c) # fatCache.id /\ ~r.ok

\* Mutant of getNextCluster: a failed read of the FAT is not reported.
Seed_getNextCluster(c, r) ==
    LET value == FatValue(CacheAfter(c, r).holds * FatEntries + (c % FatEntries))
    IN  IF value >= LastCluster THEN FAT32_CLUSTER_END ELSE value

getNextCluster(c, r) ==
    IF FatReadFails(c, r) THEN FAT32_CLUSTER_ERROR
    ELSE LET value == FatValue(CacheAfter(c, r).holds * FatEntries + (c % FatEntries))
         IN  IF value >= LastCluster THEN FAT32_CLUSTER_END ELSE value

\* The cluster buffers after cluster c was read into the one of `handle`.
loadCluster(handle, c, r) ==
    IF r.got THEN [clusters EXCEPT ![handle] = c] ELSE clusters

\* loadNextCluster returns the next cluster and reads it into the buffer.
loadNextCluster(handle, c, rFat, r) ==
    LET next == getNextCluster(c, rFat)
        ends == next \in {FAT32_CLUSTER_END, FAT32_CLUSTER_ERROR}
    IN  [value    |-> IF ~ends /\ ~r.ok THEN FAT32_CLUSTER_ERROR ELSE next,
         clusters |-> IF ends THEN clusters ELSE loadCluster(handle, next, r),
         lost     |-> IF FatReadFails(c, rFat) THEN {"getc"}
                      ELSE IF ~ends /\ ~r.ok THEN {"getc"} ELSE {}]

-----------------------------------------------------------------------------
\* Directories.

InvalidEntry == [name |-> "", attributes |-> "invalid", firstCluster |-> 0, fileSize |-> 0]

\* The root directory as an entry (FAT32_initialise).
Root == [name |-> "", attributes |-> "directory",
         firstCluster |-> disk.root, fileSize |-> 0]

\* What a cluster reads like as a directory; nobody asks whether it is one, and
\* any of a file's or of the free clusters may be in disk.dirs.  In the clusters
\* that are not, mkfs's zeroes, the first name is empty.
Entries(c) == IF c \in DOMAIN disk.dirs THEN disk.dirs[c] ELSE <<>>

\* Where name stands in a cluster of the directory; the entry "deleted" has the
\* name that begins with 0xE5.
Matches(c, name) == {i \in DOMAIN Entries(c) : Entries(c)[i].name = name}

\* The search may look in the next cluster: no empty name ended this one.
ClusterIsFull(c) == Len(Entries(c)) = EntriesPerCluster

\* search_directory keeps the cluster in 16 bits, so that FAT32_CLUSTER_END
\* never stops it: it goes on with cluster 65535, and after a read of the FAT
\* that failed with cluster 65534.
SearchNext(c, r) == getNextCluster(c, r) % (UINT16_MAX + 1)

-----------------------------------------------------------------------------
\* Files.

NoFile == [sector_handle |-> 0, currentCluster |-> 0, clusterPosition |-> 0,
           position |-> 0, directory |-> InvalidEntry]

isFileClosed(f) == f.sector_handle = UINT16_MAX

\* The slot FAT32_open uses, or -1: the next one, and once all have been used
\* the first closed one.
FreeSlot ==
    IF openCount # FAT_MAX_OPEN_FILES THEN openCount
    ELSE LET closed == {i \in 0..FAT_MAX_OPEN_FILES - 1 : isFileClosed(files[i])}
         IN  IF closed = {} THEN -1
             ELSE CHOOSE i \in closed : \A j \in closed : i <= j

isEOF(f) == f.position > f.directory.fileSize

\* FAT32_getc.  The next cluster is kept in 16 bits, so that neither
\* FAT32_CLUSTER_END nor FAT32_CLUSTER_ERROR is recognised: the character comes
\* from the buffer as it is, and no error is reported.
FAT32_getc(f, rFat, r) ==
    LET g     == [f EXCEPT !.position = @ + 1, !.clusterPosition = @ + 1]
        next  == loadNextCluster(f.sector_handle, f.currentCluster, rFat, r)
        moved == [g EXCEPT !.clusterPosition = 1,
                           !.currentCluster = next.value % (UINT16_MAX + 1)]
        here(h, bufs) == <<bufs[h.sector_handle], h.clusterPosition - 1>>
    IN  IF isEOF(g)
        THEN [file |-> g, char |-> NULL, clusters |-> clusters,
              cache |-> fatCache, lost |-> lost]
        ELSE IF g.clusterPosition > BytesPerCluster
        THEN [file |-> moved, char |-> here(moved, next.clusters), clusters |-> next.clusters,
              cache |-> CacheAfter(f.currentCluster, rFat), lost |-> lost \cup next.lost]
        ELSE [file |-> g, char |-> here(g, clusters), clusters |-> clusters,
              cache |-> fatCache, lost |-> lost]

\* FAT32_seek from the beginning: where the seek starts and how far it goes.
\* (The boot stage makes no other seek.)
SeekRefused(f, value) == value >= f.directory.fileSize

SeekStart(f, value) ==
    [value |-> value, hops |-> value \div BytesPerCluster,
     cluster |-> f.directory.firstCluster]

\* The cluster buffers and the file at the end of the seek: the read is made
\* only when the cluster is not the current one, and its result is not tested;
\* the position grows by value instead of becoming it.
SeekClusters(f, seek, r) ==
    IF f.currentCluster = seek.cluster THEN clusters
    ELSE loadCluster(f.sector_handle, seek.cluster, r)

SeekFile(f, seek) ==
    [f EXCEPT !.currentCluster = seek.cluster,
              !.clusterPosition = seek.value % BytesPerCluster,
              !.position = @ + seek.value]

\* The volume is given, nothing is open and no sector of the FAT was read.
FatInit ==
    /\ disk \in Disks
    /\ allocated = 0
    /\ at = [n \in {} |-> 0]
    /\ fatCache = [id |-> 0, holds |-> 0]
    /\ clusters = [h \in 0..FAT_MAX_OPEN_FILES |-> 0]
    /\ files = [h \in 0..FAT_MAX_OPEN_FILES |-> NoFile]
    /\ openCount = 0
    /\ lost = {}

FAT32_close(f) == [f EXCEPT !.sector_handle = UINT16_MAX]
=============================================================================
