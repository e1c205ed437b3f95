------------------------------- MODULE MCBoot -------------------------------
(* Seven volumes: the kernel in one piece; the kernel scattered over the      *)
(* FAT's sectors, its entry in the second cluster of the root directory; no   *)
(* kernel in a root directory full of names, with cluster 65535, where the    *)
(* search then goes, empty or part of a file; a kernel whose chain of         *)
(* clusters or whose size is cut short; a volume that is not FAT32.           *)
EXTENDS BootChain, TLC

End == 268435455   \* the end of a chain as mkfs writes it

Links(chain) == [c \in {chain[i] : i \in DOMAIN chain} |->
                   LET i == CHOOSE j \in DOMAIN chain : chain[j] = c
                   IN  IF i = Len(chain) THEN End ELSE chain[i + 1]]
Both(f, g) == [c \in DOMAIN f \cup DOMAIN g |-> IF c \in DOMAIN f THEN f[c] ELSE g[c]]

Elf == [headerSize |-> 1, tablePosition |-> 1,
        segments |-> <<[type |-> "LOAD", offset |-> 7, fileSize |-> 2, vaddr |-> 8, memSize |-> 3],
                       [type |-> "NOTE", offset |-> 3, fileSize |-> 1, vaddr |-> 0, memSize |-> 0],
                       [type |-> "LOAD", offset |-> 4, fileSize |-> 3, vaddr |-> 3, memSize |-> 3],
                       [type |-> "LOAD", offset |-> 0, fileSize |-> 0, vaddr |-> 6, memSize |-> 2]>>]

Entry(n, c) == [name |-> n, attributes |-> "archive", firstCluster |-> c, fileSize |-> 22]

Volume(root, kernel, dirs, spc) ==
    [isFAT32 |-> TRUE, root |-> root[1], fat |-> Both(Links(root), Links(kernel)),
     dirs |-> dirs, kernel |-> kernel[1], fileSize |-> 22, elf |-> Elf,
     sectorsPerCluster |-> spc]

InOnePiece == Volume(<<2>>, <<3, 4, 5, 6, 7, 8, 9, 10, 11, 12, 13>>,
                     (2 :> <<Entry("kernel.elf", 3)>>), 1)
Scattered == Volume(<<15, 9>>, <<13, 4, 12, 3, 8, 5, 14, 6, 11, 7, 10>>,
                    (15 :> <<Entry("deleted", 4), Entry("text.txt", 5)>>)
                        @@ (9 :> <<Entry("kernel.elf", 13)>>), 4)
NoKernel == Volume(<<2>>, <<3, 4>>, (2 :> <<Entry("deleted", 3), Entry("text.txt", 3)>>), 1)
\* The bytes of a file, as entries: names like any other.
Bytes == <<Entry("bytes", 0), Entry("bytes", 0)>>
Endless == Volume(<<15>>, <<65534, 65535, 12>>,
                  (15 :> <<Entry("deleted", 3), Entry("text.txt", 65534)>>)
                      @@ (65534 :> Bytes) @@ (65535 :> Bytes) @@ (12 :> Bytes), 1)
CutChain == Volume(<<2>>, <<3, 4, 5>>, (2 :> <<Entry("kernel.elf", 3)>>), 1)
CutSize == [InOnePiece EXCEPT !.dirs = (2 :> <<[Entry("kernel.elf", 3) EXCEPT !.fileSize = 6]>>),
                              !.fileSize = 6]
NotFAT32 == [InOnePiece EXCEPT !.isFAT32 = FALSE]

MCDisks == {InOnePiece, Scattered, NoKernel, Endless, CutChain, CutSize, NotFAT32}

\* What the theorems of BootProofs assume holds of these volumes; the file is
\* whole where its chain of clusters is.
ASSUME MCBootAssumption ==
    /\ FailuresLeadNowhere /\ FewSegments
    /\ GoesRound(Endless, 15) /\ \A d \in MCDisks \ {Endless} : ~GoesRound(d, d.root)
    /\ \A d \in {InOnePiece, Scattered, CutSize} : FileIsWhole(d)
=============================================================================
