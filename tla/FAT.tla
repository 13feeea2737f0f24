-------------------------------- MODULE FAT --------------------------------
(***************************************************************************)
(* kernel/fs/FAT.c: one flat root directory in cluster 0, a table with one *)
(* link per cluster (0 is free), one cluster per file. The shell process   *)
(* is the only caller, so a function is one step, or one that stops after  *)
(* some of its disk commands: the power is lost there, or format fails.    *)
(* Otherwise the disk works (module Disk is about one that does not).      *)
(*                                                                         *)
(* File contents and names are abstract. A name is what the shell passes:  *)
(* "" is `rm' or `touch' without an argument; of the LongNames only the    *)
(* first MAX_FILENAME-1 characters are stored, the same for all of them.   *)
(* The table has more links than the disk has clusters, since format counts *)
(* sectors for clusters: what is written behind the disk is lost.          *)
(***************************************************************************)
EXTENDS Integers, FiniteSets

CONSTANTS LINKS,          \* links per sector (SECTOR_SIZE/LINK_SIZE)
          LINK_SECTORS,   \* sectors of the table (clusterLinkSectorCount)
          CLUSTERS,       \* clusters of the data area that are on the disk
          MAX_FILECOUNT,  \* directory entries
          ShortNames, LongNames,
          Texts,          \* what the editor saves; "" is a member
          Faults          \* TRUE: power may be lost and format may fail

ASSUME FATAssumption ==
    /\ LINKS \in Nat \ {0} /\ LINK_SECTORS \in Nat \ {0}
    /\ CLUSTERS \in 1 .. LINKS * LINK_SECTORS
    /\ MAX_FILECOUNT \in Nat \ {0}
    /\ "" \in Texts
    /\ Faults \in BOOLEAN

Names == ShortNames \cup LongNames

\* What createFile stores of a name, and what deleteFile leaves of it.
stored(name) == IF name \in LongNames THEN "cut" ELSE name
E5 == "0xE5"

TableEnd == LINKS * LINK_SECTORS
Links    == 0 .. TableEnd - 1
Clusters == 0 .. CLUSTERS - 1
Entries  == 0 .. MAX_FILECOUNT - 1

VARIABLES
    formatted,       \* the boot sector has SIGNATURE
    link,            \* the table on disk: TRUE for a cluster in use
    dir,             \* the root directory on disk
    data,            \* the text in each cluster, up to its first NUL
    isMounted, bestIdx, bestRootDirIdx,
    lost,            \* createFile went on behind the table and wrote there: the disk
                     \* is not followed any further until it is formatted
    saved,           \* history: what the user last saved under each stored name
    withFiles,       \* history: the disk held files when it was mounted
    unsafe           \* history: since the last format a deletion was cut short, a
                     \* format stopped before the directory, or more than one file
                     \* was created after mounting a disk with files

memory == <<isMounted, bestIdx, bestRootDirIdx, withFiles>>
vars   == <<formatted, link, dir, data, memory, lost, saved, unsafe>>

EmptyEntry == [name |-> "", size |-> 0, cluster |-> 0]

sizeOf(text) == IF text = "" THEN 0 ELSE 1

TypeOK ==
    /\ {formatted, isMounted, lost, withFiles, unsafe} \subseteq BOOLEAN
    /\ link \in [Links -> BOOLEAN]
    /\ dir \in [Entries -> [name : {stored(n) : n \in Names} \cup {"", E5},
                            size : {0, 1}, cluster : Links]]
    /\ data \in [Clusters -> Texts]
    /\ bestIdx \in 0 .. TableEnd
    /\ bestRootDirIdx \in Entries
    /\ saved \in [{stored(n) : n \in Names} -> Texts]

\* A blank disk, after initFAT.
Init ==
    /\ formatted = FALSE /\ isMounted = FALSE /\ lost = FALSE
    /\ withFiles = FALSE /\ unsafe = FALSE
    /\ link = [c \in Links |-> FALSE]
    /\ dir = [e \in Entries |-> EmptyEntry]
    /\ data = [c \in Clusters |-> ""]
    /\ bestIdx = 0 /\ bestRootDirIdx = 0
    /\ saved = [n \in {stored(m) : m \in Names} |-> ""]

Live == {e \in Entries : dir[e].cluster # 0}

-----------------------------------------------------------------------------
\* The machine starts again: the disk is as it is, initFAT and the cleared .bss
\* reset the rest.
initFAT ==
    isMounted' = FALSE /\ bestIdx' = 0 /\ bestRootDirIdx' = 0 /\ withFiles' = FALSE

reboot ==
    /\ initFAT
    /\ UNCHANGED <<formatted, link, dir, data, lost, saved, unsafe>>

\* The boot sector is written, the table and the root directory are zeroed, and
\* cluster 0 is marked. The other clusters keep their data, and the state of a
\* mounted file system is not reset.
format ==
    /\ formatted' = TRUE
    /\ link' = [c \in Links |-> c = 0]
    /\ dir' = [e \in Entries |-> EmptyEntry]
    /\ data' = [data EXCEPT ![0] = ""]
    /\ saved' = [n \in DOMAIN saved |-> ""]
    /\ lost' = FALSE /\ unsafe' = FALSE /\ withFiles' = FALSE
    /\ UNCHANGED <<isMounted, bestIdx, bestRootDirIdx>>

\* format stops behind the boot sector, when sectors of the table, and then n
\* entries, are zeroed: a write failed, or the power.
formatStops ==
    /\ Faults /\ ~lost
    /\ formatted' = TRUE
    /\ \E sectors \in 0 .. LINK_SECTORS, n \in 0 .. MAX_FILECOUNT :
         /\ n > 0 => sectors = LINK_SECTORS
         /\ link' = [c \in Links |-> c >= sectors * LINKS /\ link[c]]
         /\ dir' = [e \in Entries |-> IF e < n THEN EmptyEntry ELSE dir[e]]
    /\ unsafe' = \E e \in Entries : dir'[e].cluster # 0
    /\ initFAT \/ UNCHANGED memory
    /\ UNCHANGED <<data, lost, saved>>

mount ==
    /\ formatted /\ ~lost
    /\ isMounted' = TRUE /\ bestIdx' = 0 /\ bestRootDirIdx' = 0
    /\ withFiles' = (Live # {})
    /\ UNCHANGED <<formatted, link, dir, data, lost, saved, unsafe>>

\* The links in sector s of the table that are 0, by their place in the sector.
freeIn(s) == {j \in 0 .. LINKS - 1 : ~link[s * LINKS + j]}

\* The searches of the outer loop that find a free link: round i reads the sector
\* that bestIdx + i * LINKS lies in.
hits ==
    {i \in 0 .. LINK_SECTORS - 1 :
        LET s == (bestIdx + i * LINKS) \div LINKS
        IN  s < LINK_SECTORS /\ freeIn(s) # {}}

LeastOf(S) == CHOOSE n \in S : \A m \in S : n <= m

\* The inner loop starts at the first link of the sector, not at the one bestIdx
\* stands for, while bestIdx advances with it.
findFreeCluster ==
    LET i == LeastOf(hits)
    IN  bestIdx + i * LINKS + LeastOf(freeIn((bestIdx + i * LINKS) \div LINKS))

\* The search returns a cluster that has a link.
InTable == hits # {} /\ findFreeCluster \in Links

\* The search reads each sector of the table and finds no free link.
TableFull == hits = {} /\ bestIdx < LINKS

\* The first free entry from bestRootDirIdx on, cyclically.
findFreeDirectoryEntry ==
    LET k == LeastOf({d \in Entries : (bestRootDirIdx + d) % MAX_FILECOUNT \notin Live})
    IN  (bestRootDirIdx + k) % MAX_FILECOUNT

\* Nothing happens when a live entry has this name or the directory is full.
mayCreate(name) ==
    /\ isMounted /\ ~lost
    /\ \A e \in Live : dir[e].name # name
    /\ Live # Entries

creates(name) == mayCreate(name) /\ InTable

newEntry(name) ==
    [dir EXCEPT ![findFreeDirectoryEntry] =
        [name |-> stored(name), size |-> 0, cluster |-> findFreeCluster]]

\* Only the first search after a mount starts where bestIdx stands for what it reads.
secondSearch == withFiles /\ bestIdx # 0

\* Mutant of createFile: bestIdx is not moved on.
createFileNoAdvance(name) ==
    /\ creates(name)
    /\ link' = [link EXCEPT ![findFreeCluster] = TRUE]
    /\ bestIdx' = findFreeCluster
    /\ bestRootDirIdx' = findFreeDirectoryEntry
    /\ dir' = newEntry(name)
    /\ saved' = [saved EXCEPT ![stored(name)] = ""]
    /\ unsafe' = (unsafe \/ secondSearch)
    /\ UNCHANGED <<formatted, data, isMounted, lost, withFiles>>

createFile(name) ==
    /\ creates(name)
    /\ link' = [link EXCEPT ![findFreeCluster] = TRUE]
    /\ bestIdx' = findFreeCluster + 1
    /\ bestRootDirIdx' = findFreeDirectoryEntry
    /\ dir' = newEntry(name)
    /\ saved' = [saved EXCEPT ![stored(name)] = ""]
    /\ unsafe' = (unsafe \/ secondSearch)
    /\ UNCHANGED <<formatted, data, isMounted, lost, withFiles>>

\* The search returns -1 and leaves bestIdx behind the table (bound: at its end).
createFileFull(name) ==
    /\ mayCreate(name) /\ TableFull
    /\ bestIdx' = TableEnd
    /\ bestRootDirIdx' = findFreeDirectoryEntry
    /\ UNCHANGED <<formatted, link, dir, data, isMounted, lost, saved, withFiles, unsafe>>

\* The search takes the root directory for links, or returns a cluster without a
\* link: setClusterLinkTable then writes behind the table.
createFileBehindTable(name) ==
    /\ mayCreate(name) /\ ~InTable /\ ~TableFull
    /\ lost' = TRUE /\ unsafe' = TRUE
    /\ bestIdx' = TableEnd
    /\ bestRootDirIdx' = findFreeDirectoryEntry
    /\ UNCHANGED <<formatted, link, dir, data, isMounted, saved, withFiles>>

\* Mutant of createFileCut: the entry is written first.
createFileCutEntry(name) ==
    /\ Faults /\ creates(name)
    /\ dir' = newEntry(name)
    /\ initFAT
    /\ UNCHANGED <<formatted, link, data, lost, saved, unsafe>>

\* The power is lost between setClusterLinkTable and the entry: the cluster is
\* marked and belongs to nobody.
createFileCut(name) ==
    /\ Faults /\ creates(name)
    /\ link' = [link EXCEPT ![findFreeCluster] = TRUE]
    /\ initFAT
    /\ UNCHANGED <<formatted, dir, data, lost, saved, unsafe>>

\* The first entry with this name, live or not.
deleted(name) == LeastOf({e \in Entries : dir[e].name = name})

deletes(name) == isMounted /\ ~lost /\ \E e \in Entries : dir[e].name = name

deleteFile(name) ==
    /\ deletes(name)
    /\ link' = [link EXCEPT ![dir[deleted(name)].cluster] = FALSE]
    /\ dir' = [dir EXCEPT ![deleted(name)].cluster = 0, ![deleted(name)].name = E5]
    /\ UNCHANGED <<formatted, data, memory, lost, saved, unsafe>>

\* The power is lost behind setClusterLinkTable: a file that is still in the
\* directory lies in a free cluster.
deleteFileCut(name) ==
    /\ Faults /\ deletes(name)
    /\ link' = [link EXCEPT ![dir[deleted(name)].cluster] = FALSE]
    /\ unsafe' = (unsafe \/ deleted(name) \in Live)
    /\ initFAT
    /\ UNCHANGED <<formatted, dir, data, lost, saved>>

\* The first live entry with this name.
written(name) == LeastOf({e \in Live : dir[e].name = name})

writes(name) == isMounted /\ ~lost /\ \E e \in Live : dir[e].name = name

\* writeCluster: a cluster behind the end of the disk is not written.
writeCluster(c, text) ==
    data' = [k \in Clusters |-> IF k = c THEN text ELSE data[k]]

\* Mutant of writeFile: the entry's index is taken for its cluster.
writeFileByIndex(name, text) ==
    /\ writes(name)
    /\ writeCluster(written(name), text)
    /\ dir' = [dir EXCEPT ![written(name)].size = sizeOf(text)]
    /\ saved' = [saved EXCEPT ![name] = text]
    /\ UNCHANGED <<formatted, link, memory, lost, unsafe>>

\* Saving from the editor.
writeFile(name, text) ==
    /\ writes(name)
    /\ writeCluster(dir[written(name)].cluster, text)
    /\ dir' = [dir EXCEPT ![written(name)].size = sizeOf(text)]
    /\ saved' = [saved EXCEPT ![name] = text]
    /\ UNCHANGED <<formatted, link, memory, lost, unsafe>>

\* The power is lost between the text and the entry: the size is the old one.
writeFileCut(name, text) ==
    /\ Faults /\ writes(name)
    /\ writeCluster(dir[written(name)].cluster, text)
    /\ saved' = [saved EXCEPT ![name] = text]
    /\ initFAT
    /\ UNCHANGED <<formatted, link, dir, lost, unsafe>>

\* What readFile gives the editor for an entry: runEditor shows the cluster up to
\* its first NUL, not up to fileSize.
readFile(e) == data[dir[e].cluster]

Next ==
    \/ format \/ formatStops \/ reboot
    \/ mount
    \/ \E n \in Names :
         \/ createFile(n) \/ createFileFull(n) \/ createFileBehindTable(n)
         \/ createFileCut(n)
         \/ deleteFile(n) \/ deleteFileCut(n)
         \/ \E t \in Texts : writeFile(n, t) \/ writeFileCut(n, t)

Spec == Init /\ [][Next]_vars

-----------------------------------------------------------------------------
(* What holds on the disk at every moment, the power lost in touch or in a  *)
(* save included, also on a disk with files that is mounted again. What is  *)
(* unsafe can damage a file; the next format repairs everything.            *)

\* No cluster belongs to two files.
FilesDisjoint ==
    ~unsafe => \A d, e \in Live : dir[d].cluster = dir[e].cluster => d = e

\* A file's cluster is marked in use, so that the first search behind a mount does
\* not give it away: createFile marks it before the entry makes it a file.
FilesLinked ==
    /\ TypeOK
    /\ ~unsafe => \A e \in Live : link[dir[e].cluster]

\* What was saved under a name is what the editor shows when it opens the file
\* again, whatever happened to other files since. Not of a name that is stored of
\* longer ones, and not of a file whose cluster is behind the end of the disk.
SavedIsRead ==
    ~unsafe =>
        \A e \in Live :
            /\ dir[e].size # 0 /\ dir[e].name # "cut" /\ dir[e].cluster \in Clusters
            => readFile(e) = saved[dir[e].name]

\* README: the table tracks which clusters the files have. No cluster belongs to two
\* files, however many are created after mounting a disk with files.
NoSharedCluster ==
    \A d, e \in Live : dir[d].cluster = dir[e].cluster => d = e
=============================================================================
