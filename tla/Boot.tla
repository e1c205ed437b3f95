-------------------------------- MODULE Boot --------------------------------
(***************************************************************************)
(* The second boot stage from start (bootloader/Stage-2/main.c) to the jump *)
(* into the kernel: initialiseFAT finds the partition, FAT32 is set up,     *)
(* loadELF (elf.c) opens the kernel, reads its header, its program headers  *)
(* and its segments, the identity pages are built, and the kernel starts.   *)
(* Each step makes at most the disk reads of one pass through a loop of the *)
(* driver, so that any of them can fail.                                    *)
(***************************************************************************)
EXTENDS BootFat

CONSTANTS Tables   \* pages a page table maps (1024)

ASSUME BootAssumption == Tables \in Nat \ {0}

VARIABLES
    pc,       \* where the stage is
    search,   \* the cluster of the root directory that is searched next
    seek,     \* the seek under way
    want,     \* the fread under way: where to, how much, how far
    stage,    \* what loadELF is fetching: the header, the table or a segment
    mem,      \* what was written: <<buffer, address>> -> a unit of data
    kmap,     \* KernelMap: program header -> the range its entry names
    paging    \* the page tables: directory index -> page -> frame

vars == <<fatVars, pc, search, seek, want, stage, mem, kmap, paging>>

elf == disk.elf

\* The one path that is ever opened: a name in the root directory, one part of
\* 11 bytes once it is split.
Name == "kernel.elf"
PathBytes == 11

\* What loadELF fetches: the header, the table, then the segments from 1 on.
HEADER == -1
TABLE == 0

NoSeek == [value |-> 0, hops |-> 0, cluster |-> 0]
NoRead == [to |-> <<"none", 0>>, size |-> 0, i |-> 0]

Init ==
    /\ FatInit
    /\ pc = "start"
    /\ search = 0
    /\ seek = NoSeek
    /\ want = NoRead
    /\ stage = HEADER
    /\ mem = [a \in {} |-> 0]
    /\ kmap = [i \in {} |-> 0]
    /\ paging = <<>>

elfVars == <<seek, want, stage, mem, kmap, paging>>

\* Every error ends in the loop at `exit`.
To(r, next) == pc' = IF r.ok THEN next ELSE "halt"

-----------------------------------------------------------------------------
\* initialiseFAT (FAT.c) and FAT32_initialise.

\* at with the region that n sectors more are given under a name.
With(regions, name, region) ==
    [k \in DOMAIN regions \cup {name} |-> IF k = name THEN region ELSE regions[k]]

ReadMBR == \E r \in Reads, found \in BOOLEAN :
    /\ pc = "start"
    /\ at' = With(at, "MBR", Region(allocated, 1))
    /\ allocated' = allocated + 1
    /\ IF found                                     \* disk_initialise
       THEN To(r, "partition") /\ lost' = Lost("mbr", r)
       ELSE pc' = "halt" /\ lost' = lost
    /\ UNCHANGED <<disk, fatCache, clusters, files, openCount, search, elfVars>>

\* The volume boot record of the first partition tells FAT32 from FAT12; the
\* FAT12 driver reads it to address 0 (m_freeSector12 is never allocated), over
\* the interrupt vectors of the BIOS: nothing is said of what follows.
ReadPartition == \E r \in Reads :
    /\ pc = "partition"
    /\ allocated' = IF r.ok THEN popAllocMem(allocated, 1) ELSE allocated
    /\ at' = IF r.ok THEN [n \in {} |-> 0] ELSE at
    /\ To(r, IF disk.isFAT32 THEN "bpb" ELSE "FAT12")
    /\ lost' = Lost("partition", r)
    /\ UNCHANGED <<disk, fatCache, clusters, files, openCount, search, elfVars>>

FAT12_initialise ==
    /\ pc = "FAT12"
    /\ pc' = "halt"
    /\ UNCHANGED <<fatVars, search, elfVars>>

FAT32_initialise == \E r \in Reads :
    /\ pc = "bpb"
    /\ at' = With(at, "freeSector", Region(allocated, 1))
    /\ allocated' = allocated + 1
    /\ To(r, "fat")
    /\ lost' = Lost("bpb", r)
    /\ UNCHANGED <<disk, fatCache, clusters, files, openCount, search, elfVars>>

\* The first sector of the FAT, then the tables of the open files.
ReadFirstFAT == \E r \in Reads :
    LET table == Region(allocated, 1)
        names == Region(allocated + 1, bytesToSectors(FAT_MAX_OPEN_FILES * FILE_SIZE))
        bufs  == Region(allocated + 1 + names.size,
                        FAT_MAX_OPEN_FILES * disk.sectorsPerCluster)
        free  == Region(allocated + 1 + names.size + bufs.size, disk.sectorsPerCluster)
    IN
    /\ pc = "fat"
    /\ fatCache' = [id |-> 0, holds |-> IF r.got THEN 0 ELSE -1]
    /\ IF r.ok
       THEN /\ allocated' = allocated + 1 + names.size + bufs.size + free.size
            /\ at' = With(With(With(With(at, "table", table), "open_files", names),
                               "clusters", bufs), "freeCluster", free)
       ELSE /\ allocated' = allocated + 1
            /\ at' = With(at, "table", table)
    /\ To(r, "open")
    /\ lost' = Lost("fat", r)
    /\ UNCHANGED <<disk, clusters, files, openCount, search, elfVars>>

-----------------------------------------------------------------------------
\* FAT32_open: the path is split into sectors of its own, and searched.

OpenKernel ==
    /\ pc = "open"
    /\ IF FreeSlot = -1
       THEN pc' = "halt" /\ UNCHANGED <<at, allocated, search>>
       ELSE LET n == bytesToSectors(PathBytes) IN
            /\ at' = With(at, "path", Region(allocated, n))
            /\ allocated' = allocated + n
            /\ search' = Root.firstCluster % (UINT16_MAX + 1)
            /\ pc' = "search"
    /\ UNCHANGED <<disk, fatCache, clusters, files, openCount, lost, elfVars>>

\* The path is given back: as many sectors as it has bytes.
PathFreed ==
    /\ allocated' = popAllocMem(allocated, PathBytes)
    /\ at' = [n \in DOMAIN at \ {"path"} |-> at[n]]

\* getFileDirectory ends with an entry, the invalid one when nothing was found;
\* the slot has it either way.
FileDirectory(entry) ==
    /\ PathFreed
    /\ files' = [files EXCEPT ![FreeSlot].directory = entry]
    /\ pc' = IF entry = InvalidEntry THEN "halt" ELSE "load"

\* One cluster of the directory: search_directory, called once as the path has
\* one name.
SearchDirectory == \E r, rFat \in Reads :
    LET found == Matches(search, Name)
        entry == Entries(search)[CHOOSE i \in found : \A j \in found : i <= j]
    IN
    /\ pc = "search"
    /\ clusters' = loadCluster(FreeHandle, search, r)
    /\ \/ /\ ~r.ok
          /\ FileDirectory(InvalidEntry)
          /\ lost' = Lost("search", r)
          /\ UNCHANGED <<fatCache, search>>
       \/ /\ r.ok /\ found # {}
          /\ FileDirectory(entry)
          /\ UNCHANGED <<fatCache, lost, search>>
       \/ /\ r.ok /\ found = {} /\ ~ClusterIsFull(search)
          /\ FileDirectory(InvalidEntry)
          /\ UNCHANGED <<fatCache, search, lost>>
       \/ /\ r.ok /\ found = {} /\ ClusterIsFull(search)
          /\ search' = SearchNext(search, rFat)
          /\ fatCache' = CacheAfter(search, rFat)
          /\ lost' = IF FatReadFails(search, rFat) THEN lost \cup {"search"} ELSE lost
          /\ UNCHANGED <<pc, at, allocated, files>>
    /\ UNCHANGED <<disk, openCount, elfVars>>

\* The rest of FAT32_open, the first cluster of the file with it, and the call
\* of fread for the header.
LoadFirstCluster == \E r \in Reads :
    LET slot == FreeSlot
        c    == files[slot].directory.firstCluster
    IN
    /\ pc = "load"
    /\ clusters' = loadCluster(slot, c, r)
    /\ files' = [files EXCEPT ![slot] = [@ EXCEPT !.sector_handle = slot, !.position = 0,
                                                   !.currentCluster = c, !.clusterPosition = 0]]
    /\ openCount' = IF r.ok THEN openCount + 1 ELSE openCount
    /\ want' = [to |-> <<"header", 0>>, size |-> elf.headerSize, i |-> 0]
    /\ To(r, "read")
    /\ lost' = Lost("open", r)
    /\ UNCHANGED <<disk, allocated, at, fatCache, search, seek, stage, mem, kmap, paging>>

-----------------------------------------------------------------------------
\* loadELF.  The kernel is the one file that is open.

handle == 0
kernelFile == files[handle]

\* fread returns: the header is tested, the table and a segment are followed by
\* the (next) segment.
ReadReturns ==
    /\ pc' = IF stage = HEADER THEN "validate" ELSE "segment"
    /\ stage' = IF stage = HEADER THEN stage ELSE stage + 1

\* One pass of the loop of FAT32_read: a character, then the tests.
FAT32_read == \E rFat, r \in Reads :
    LET got  == FAT32_getc(kernelFile, rFat, r)
        cell == <<want.to[1], want.to[2] + want.i>>
        done == isEOF(got.file) \/ want.i + 1 = want.size
    IN
    /\ pc = "read"
    /\ IF isFileClosed(kernelFile)
       THEN pc' = "halt" /\ UNCHANGED <<fatVars, mem, want, stage>>
       ELSE IF want.size = 0
       THEN /\ ReadReturns
            /\ UNCHANGED <<fatVars, mem, want>>
       ELSE /\ mem' = With(mem, cell, got.char)
            /\ files' = [files EXCEPT ![handle] = got.file]
            /\ clusters' = got.clusters
            /\ fatCache' = got.cache
            /\ lost' = got.lost
            /\ want' = [want EXCEPT !.i = @ + 1]
            /\ IF done THEN ReadReturns ELSE UNCHANGED <<pc, stage>>
            /\ UNCHANGED <<disk, allocated, at, openCount>>
    /\ UNCHANGED <<search, seek, kmap, paging>>

\* The first clusters of the kernel's file on volume d, down its chain, and the
\* unit of the file that lies k units from its beginning.
Chain(d, n) ==
    LET hop[i \in 0..n] == IF i = 0 THEN d.kernel ELSE d.fat[hop[i - 1]] IN hop
UnitOf(d, k) ==
    LET n == k \div BytesPerCluster IN <<Chain(d, n)[n], k % BytesPerCluster>>
FileUnit(k) == UnitOf(disk, k)

\* The bytes at a buffer are those of the file from `offset` on.
Holds(buffer, n, offset) ==
    \A k \in 0..n - 1 : <<buffer, k>> \in DOMAIN mem /\ mem[<<buffer, k>>] = FileUnit(offset + k)

BeginSeek(value, to) ==
    IF SeekRefused(kernelFile, value)
    THEN /\ pc' = "halt"                                    \* callf: closed
         /\ files' = [files EXCEPT ![handle] = FAT32_close(@)]
         /\ UNCHANGED seek
    ELSE /\ pc' = "seek"
         /\ seek' = SeekStart(kernelFile, value)
         /\ UNCHANGED files

\* The header is tested, the kernel map is allocated, the table is sought.
ValidateHeader ==
    LET map     == Region(allocated, 1)
        entries == Region(allocated + 1, bytesToSectors(Len(elf.segments) * 8))
    IN
    /\ pc = "validate"
    /\ IF Holds("header", elf.headerSize, 0)
       THEN /\ at' = With(With(at, "kernelMap", map), "entries", entries)
            /\ allocated' = allocated + 1 + entries.size
            /\ stage' = TABLE
            /\ want' = [to |-> <<"table", 0>>, size |-> Len(elf.segments), i |-> 0]
            /\ BeginSeek(elf.tablePosition, "read")
       ELSE pc' = "halt" /\ UNCHANGED <<at, allocated, stage, want, files, seek>>
    /\ UNCHANGED <<disk, fatCache, clusters, openCount, lost, search, mem, kmap, paging>>

\* One hop of the loop of FAT32_seek.
SeekHop == \E rFat \in Reads :
    LET next == getNextCluster(seek.cluster, rFat)
    IN
    /\ pc = "seek" /\ seek.hops > 0
    /\ fatCache' = CacheAfter(seek.cluster, rFat)
    /\ lost' = IF FatReadFails(seek.cluster, rFat) THEN lost \cup {"seek"} ELSE lost
    /\ IF next \in {FAT32_CLUSTER_END, FAT32_CLUSTER_ERROR}
       THEN /\ pc' = "halt"
            /\ files' = [files EXCEPT ![handle] = FAT32_close(@)]
            /\ UNCHANGED seek
       ELSE /\ seek' = [seek EXCEPT !.hops = @ - 1, !.cluster = next]
            /\ UNCHANGED <<pc, files>>
    /\ UNCHANGED <<disk, allocated, at, clusters, openCount, search, want, stage, mem, kmap, paging>>

\* The end of FAT32_seek: the cluster, and a load that is not tested.
SeekLand == \E r \in Reads :
    /\ pc = "seek" /\ seek.hops = 0
    /\ clusters' = SeekClusters(kernelFile, seek, r)
    /\ lost' = IF kernelFile.currentCluster = seek.cluster THEN lost ELSE Lost("land", r)
    /\ files' = [files EXCEPT ![handle] = SeekFile(@, seek)]
    /\ pc' = "read"
    /\ UNCHANGED <<disk, allocated, at, fatCache, openCount, search, seek, want, stage, mem, kmap, paging>>

\* Mutant of PassOver: the header is looked at again.
Seed_PassOver == UNCHANGED stage

\* A header that is not loaded is passed over.
PassOver == stage' = stage + 1

\* One pass of the loop over the program headers, or its end.  A header that is
\* not the file's own (its read went wrong) is taken as one that is not loaded.
Segment ==
    /\ pc = "segment"
    /\ \/ /\ stage > Len(elf.segments)
          /\ pc' = "pages"
          /\ files' = [files EXCEPT ![handle] = FAT32_close(@)]
          /\ UNCHANGED <<stage, want, seek, mem, kmap>>
       \/ LET s == elf.segments[stage]
              loaded == /\ s.type = "LOAD"
                        /\ <<"table", stage - 1>> \in DOMAIN mem
                        /\ mem[<<"table", stage - 1>>] = FileUnit(elf.tablePosition + stage - 1)
          IN
          /\ stage <= Len(elf.segments)
          /\ \/ /\ ~loaded
                /\ PassOver
                /\ UNCHANGED <<pc, files, want, seek, mem, kmap>>
             \/ /\ loaded
                /\ kmap' = With(kmap, stage, [begin |-> s.vaddr, size |-> s.memSize])
                /\ mem' = [a \in DOMAIN mem \cup {<<"ram", v>> : v \in s.vaddr..s.vaddr + s.memSize - 1} |->
                              IF a[1] = "ram" /\ a[2] \in s.vaddr..s.vaddr + s.memSize - 1
                              THEN ZERO ELSE mem[a]]
                /\ want' = [to |-> <<"ram", s.vaddr>>, size |-> s.fileSize, i |-> 0]
                /\ BeginSeek(s.offset, "read")
                /\ UNCHANGED stage
    /\ UNCHANGED <<disk, allocated, at, fatCache, clusters, openCount, lost, search, paging>>

-----------------------------------------------------------------------------
\* Paging.c, and the jump.

Pages == 1 + (CHOOSE m \in {s.vaddr + s.memSize : s \in {elf.segments[i] : i \in DOMAIN elf.segments}} :
              \A i \in DOMAIN elf.segments : elf.segments[i].vaddr + elf.segments[i].memSize <= m)

\* Every page is entered under its own number: the directory index is its high
\* part, the index in the table its low part.
initialisePages ==
    [d \in 0..Pages \div Tables |-> [t \in 0..Tables - 1 |-> d * Tables + t]]

EnterKernel ==
    /\ pc = "pages"
    /\ paging' = initialisePages
    /\ pc' = "kernel"
    /\ UNCHANGED <<fatVars, search, seek, want, stage, mem, kmap>>

Step ==
    \/ ReadMBR \/ ReadPartition \/ FAT12_initialise \/ FAT32_initialise \/ ReadFirstFAT
    \/ OpenKernel \/ SearchDirectory \/ LoadFirstCluster
    \/ FAT32_read \/ ValidateHeader \/ SeekHop \/ SeekLand \/ Segment
    \/ EnterKernel

-----------------------------------------------------------------------------
\* Assumptions on the volumes and the kernel; each is named by what needs it.

\* FAT32_CLUSTER_ERROR in the 16 bits search_directory keeps it in: where the
\* search goes on after a read of the FAT that failed.
ErrorCluster == 65534

\* The search of volume d finds the kernel in cluster c, or goes on past it, to
\* the cluster NextSearched(d, c) if the FAT can be read.
NamesKernel(d, c) == c \in DOMAIN d.dirs /\ \E i \in DOMAIN d.dirs[c] : d.dirs[c][i].name = Name
GoesOn(d, c) ==
    c \in DOMAIN d.dirs /\ Len(d.dirs[c]) = EntriesPerCluster /\ ~NamesKernel(d, c)
NextSearched(d, c) ==
    LET value == IF c \in DOMAIN d.fat THEN d.fat[c] ELSE 0
    IN  (IF value >= LastCluster THEN FAT32_CLUSTER_END ELSE value) % (UINT16_MAX + 1)

\* From cluster c on the search meets no empty name and no kernel, for ever.
GoesRound(d, c) ==
    \E S \in SUBSET DOMAIN d.dirs : c \in S /\ \A x \in S : GoesOn(d, x) /\ NextSearched(d, x) \in S

\* The search that a failed read of the FAT sends to cluster 65534 finds no
\* kernel: it stays in a set of clusters S that do not name it.
StaysIn(d, S) ==
    /\ ErrorCluster \in S
    /\ \A x \in S : ~NamesKernel(d, x) /\ (GoesOn(d, x) => NextSearched(d, x) \in S)
Searched(d) == DOMAIN d.dirs \cup {ErrorCluster} \cup {NextSearched(d, x) : x \in DOMAIN d.dirs}
FailuresLeadNowhere ==
    \A d \in Disks : \E S \in SUBSET (Searched(d) \cap 0..UINT16_MAX) : StaysIn(d, S)

\* The program headers' ranges, in sectors, fit where loadELF allocates them:
\* above what the path's bytes took from the top when they were freed as
\* sectors, and below m_freeCluster.
TableSectors(d) == bytesToSectors(Len(d.elf.segments) * 8)
FewSegments == \A d \in Disks : TableSectors(d) \in 0..9 - d.sectorsPerCluster

\* What the position of the file adds up to while the kernel is loaded: a seek
\* adds its target to the position it should replace.
Reached(e) ==
    LET sum[i \in 0..Len(e.segments)] ==
            IF i = 0 THEN e.headerSize + e.tablePosition + Len(e.segments)
            ELSE sum[i - 1] + (IF e.segments[i].type = "LOAD"
                               THEN e.segments[i].offset + e.segments[i].fileSize ELSE 0)
    IN  sum

\* The kernel's file is long enough (its symbols follow its segments) for the
\* sum to stay within it; otherwise the last reads end early and report success.
KernelIsLong == Reached(elf)[Len(elf.segments)] <= disk.fileSize

\* A kernel that can be loaded: its LOAD segments have room for what the file
\* has of them, and share no memory.
Loadable(e) ==
    /\ e.headerSize \in Nat /\ e.tablePosition \in Nat
    /\ e.segments \in Seq([type : STRING, offset : Nat, fileSize : Nat, vaddr : Nat, memSize : Nat])
    /\ \A i, j \in DOMAIN e.segments :
           LET s == e.segments[i]
               t == e.segments[j]
           IN  s.type = "LOAD" =>
                   /\ s.fileSize <= s.memSize
                   /\ i # j /\ t.type = "LOAD" =>
                          s.vaddr + s.memSize <= t.vaddr \/ t.vaddr + t.memSize <= s.vaddr

\* The kernel's file as mkfs writes it: every entry of its name is its own, and
\* its chain is as long as its size says.  getc and search_directory keep a
\* cluster in 16 bits, so that only such clusters count.
FileIsWhole(d) ==
    /\ Loadable(d.elf)
    /\ d.fileSize \in Nat
    /\ \A c \in DOMAIN d.dirs :
           /\ d.dirs[c] \in Seq([name : STRING, attributes : STRING,
                                 firstCluster : Nat, fileSize : Nat])
           /\ \A i \in DOMAIN d.dirs[c] : d.dirs[c][i].name = Name =>
                  d.dirs[c][i].firstCluster = d.kernel /\ d.dirs[c][i].fileSize = d.fileSize
    /\ \A k \in 0..(d.fileSize - 1) \div BytesPerCluster :
           Chain(d, k)[k] \in DOMAIN d.fat \cap 0..UINT16_MAX

-----------------------------------------------------------------------------
\* Properties.

\* The kernel is entered with its image in memory: seen through the page tables
\* initialisePages built, every LOAD segment holds its part of the file and
\* zeroes after it, however the file's clusters are scattered, as long as no
\* disk read was lost (reads that succeed on a retry do not count as lost).
KernelImageIsLoaded ==
    pc = "kernel" /\ lost = {} /\ KernelIsLong =>
        \A i \in DOMAIN elf.segments :
            LET s == elf.segments[i] IN
            s.type = "LOAD" =>
                /\ i \in DOMAIN kmap /\ kmap[i] = [begin |-> s.vaddr, size |-> s.memSize]
                /\ \A k \in 0..s.memSize - 1 :
                       LET v     == s.vaddr + k
                           frame == paging[v \div Tables][v % Tables]
                       IN  mem[<<"ram", frame>>] =
                               IF k < s.fileSize THEN FileUnit(s.offset + k) ELSE ZERO

\* A failed read stops the boot, except for the two whose result the driver does
\* not look at: the load at the end of a seek, and the next cluster in getc.
FailuresStopTheBoot ==
    pc \in {"pages", "kernel"} => lost \subseteq {"getc", "land"}

\* The sectors in use at the same time are apart: the FAT, the open files, the
\* buffers of the open files and of the search, the path, the kernel map.  The
\* allocator itself has lost count (it pops a path's bytes as sectors), so the
\* kernel map lies among the buffers of handles that are not open.
InUse ==
    {at[n] : n \in DOMAIN at \ {"clusters"}}
        \cup (IF "clusters" \in DOMAIN at
              THEN {[first |-> at["clusters"].first + h * disk.sectorsPerCluster,
                     size |-> disk.sectorsPerCluster] :
                       h \in {FreeHandle} \cup 0..openCount - 1}
              ELSE {})

BuffersApart ==
    /\ \A n \in DOMAIN at : at[n].first >= 0
    /\ \A x, y \in InUse :
           x = y \/ x.first + x.size <= y.first \/ y.first + y.size <= x.first
    /\ "freeCluster" \in DOMAIN at =>
           at["freeCluster"].first = at["clusters"].first + FreeHandle * disk.sectorsPerCluster
=============================================================================
