------------------------------ MODULE FATProofs ------------------------------
(***************************************************************************)
(* The file system of FAT for tables, directories, disks and names of any   *)
(* size. The inductive invariant says why a search that may return a        *)
(* cluster in use does no harm as long as the disk held no file when it was *)
(* mounted: every file lies in front of bestIdx, where no search looks. On  *)
(* a disk with files only the first search behind the mount is exact.       *)
(***************************************************************************)
EXTENDS FAT, TLAPS, WellFoundedInduction

\* The names the directory holds, and its entries.
StoredNames == {stored(n) : n \in Names}
EntryType   == [name : StoredNames \cup {"", E5}, size : {0, 1}, cluster : Links]

\* The files of a directory d, that no two of them share a cluster, that they lie
\* in front of link best, and that the table l marks their clusters.
LiveIn(d)      == {e \in Entries : d[e].cluster # 0}
Apart(d)       == \A e, f \in LiveIn(d) : d[e].cluster = d[f].cluster => e = f
Before(d, best) == \A e \in LiveIn(d) : d[e].cluster < best
Marked(d, l)   == \A e \in LiveIn(d) : l[d[e].cluster]

FilesInv ==
    /\ TypeOK
    /\ isMounted /\ ~withFiles => Before(dir, bestIdx)
    /\ ~unsafe => Apart(dir) /\ Marked(dir, link)

-----------------------------------------------------------------------------
(* Facts about the numbers and the searches.                               *)

LEMMA Sizes ==
    /\ LINKS \in Nat \ {0} /\ LINK_SECTORS \in Nat \ {0}
    /\ MAX_FILECOUNT \in Nat \ {0}
BY FATAssumption, Zenon

LEMMA ClusterFacts ==
    /\ TableEnd \in Nat /\ TableEnd > 0
    /\ Links \subseteq Nat /\ 0 \in Links
    /\ \A c \in Links : c < TableEnd /\ c + 1 \in 0 .. TableEnd
    /\ Clusters \subseteq Links /\ 0 \in Clusters
    /\ Entries \subseteq Nat /\ 0 \in Entries
<1>1. /\ LINKS \in Nat \ {0} /\ LINK_SECTORS \in Nat \ {0}
      /\ MAX_FILECOUNT \in Nat \ {0}
  BY Sizes
<1>2. TableEnd \in Nat /\ TableEnd > 0
  BY <1>1 DEF TableEnd
<1>3. CLUSTERS \in 1 .. TableEnd
  BY FATAssumption, Zenon DEF TableEnd
<1>4. /\ Links \subseteq Nat /\ 0 \in Links
      /\ \A c \in Links : c < TableEnd /\ c + 1 \in 0 .. TableEnd
      /\ Clusters \subseteq Links /\ 0 \in Clusters
  BY <1>2, <1>3 DEF Links, Clusters
<1> QED BY <1>1, <1>2, <1>4 DEF Entries

\* A nonempty set of numbers has a least element.
LEMMA LeastProperties ==
    ASSUME NEW S, S \subseteq Nat, S # {}
    PROVE  LeastOf(S) \in S /\ \A m \in S : LeastOf(S) <= m
<1> DEFINE R == OpToRel(<, Nat)
<1>1. IsWellFoundedOn(R, Nat)
  BY NatLessThanWellFounded
<1>2. \E x \in S : \A y \in S : ~(<<y, x>> \in R)
  BY <1>1, WFMin
<1>3. PICK x \in S : \A y \in S : ~(<<y, x>> \in R)
  BY <1>2
<1>4. \A y \in S : ~(y < x)
  BY <1>3 DEF OpToRel
<1>5. \A m \in S : x <= m
  <2>1. x \in Nat /\ \A m \in S : m \in Nat
    BY <1>3
  <2> QED BY <1>4, <2>1
<1>6. \E n \in S : \A m \in S : n <= m
  BY <1>3, <1>5
<1> QED BY <1>6 DEF LeastOf

\* The search for a cluster never goes back behind bestIdx.
LEMMA SearchGoesOn ==
    ASSUME bestIdx \in Nat, InTable
    PROVE  findFreeCluster \in Links /\ bestIdx <= findFreeCluster
<1> DEFINE i == LeastOf(hits)
           s == (bestIdx + i * LINKS) \div LINKS
           j == LeastOf(freeIn(s))
<1>1. hits # {} /\ findFreeCluster \in Links
  BY DEF InTable
<1>2. hits \subseteq Nat
  BY Sizes DEF hits
<1>3. i \in hits
  BY <1>1, <1>2, LeastProperties
<1>4. freeIn(s) # {}
  BY <1>3 DEF hits
<1>5. freeIn(s) \subseteq Nat
  BY Sizes DEF freeIn
<1>6. j \in freeIn(s)
  BY <1>4, <1>5, LeastProperties
<1>7. findFreeCluster = bestIdx + i * LINKS + j
  BY DEF findFreeCluster
<1>8. i \in Nat /\ j \in Nat /\ LINKS \in Nat
  BY <1>2, <1>3, <1>5, <1>6, Sizes
<1> HIDE DEF i, j
<1>9. i * LINKS \in Nat
  BY <1>8
<1>10. bestIdx <= bestIdx + i * LINKS + j
  <2> DEFINE x == i * LINKS
  <2>1. x \in Nat
    BY <1>9
  <2> HIDE DEF x
  <2>2. bestIdx <= bestIdx + x + j
    BY <1>8, <2>1
  <2> QED BY <2>2 DEF x
<1> QED BY <1>1, <1>7, <1>10

LEMMA SectorOf == ASSUME NEW i \in Nat, NEW n \in Nat \ {0} PROVE (i * n) \div n = i
OBVIOUS

\* The first search behind a mount returns a free link: bestIdx stands for what the
\* inner loop reads.
LEMMA FirstSearchIsExact ==
    ASSUME bestIdx = 0, InTable
    PROVE  ~link[findFreeCluster]
<1> DEFINE i == LeastOf(hits)
           x == i * LINKS
           j == LeastOf(freeIn(i))
<1>1. hits # {} /\ hits \subseteq Nat
  BY Sizes DEF InTable, hits
<1>2. i \in hits /\ i \in Nat
  BY <1>1, LeastProperties
<1>3. LINKS \in Nat \ {0}
  BY Sizes
<1>4. x \in Nat /\ x \div LINKS = i
  BY <1>2, <1>3, SectorOf
<1>5. bestIdx + x = x
  BY <1>4
<1>6. freeIn(i) # {}
  <2>1. freeIn((bestIdx + i * LINKS) \div LINKS) # {}
    BY <1>2 DEF hits
  <2> QED BY <1>4, <1>5, <2>1
<1>7. freeIn(i) \subseteq Nat
  BY <1>3 DEF freeIn
<1>8. j \in freeIn(i) /\ j \in Nat
  BY <1>6, <1>7, LeastProperties
<1>9. ~link[i * LINKS + j]
  BY <1>8 DEF freeIn
<1>10. findFreeCluster = x + j
  <2>1. findFreeCluster = bestIdx + x + LeastOf(freeIn((bestIdx + x) \div LINKS))
    BY DEF findFreeCluster
  <2> HIDE DEF x, i
  <2> QED BY <1>4, <1>5, <2>1
<1> QED BY <1>9, <1>10

\* The search for a directory entry ends at one that is no file's.
LEMMA EntryFound ==
    ASSUME bestRootDirIdx \in Entries, Live # Entries
    PROVE  findFreeDirectoryEntry \in Entries /\ findFreeDirectoryEntry \notin Live
<1> DEFINE M == MAX_FILECOUNT
           b == bestRootDirIdx
           D == {d \in Entries : (b + d) % M \notin Live}
<1>1. M \in Nat /\ M > 0 /\ Entries = 0 .. M - 1
  BY Sizes DEF Entries
<1>2. PICK f \in Entries : f \notin Live
  BY DEF Live
<1>3. \E d \in Entries : (b + d) % M = f
  <2>1. /\ b \in Int /\ 0 <= b /\ b < M /\ f \in Int /\ 0 <= f /\ f < M
    BY <1>1, <1>2
  <2>2. PICK d : d = IF b <= f THEN f - b ELSE f - b + M
    OBVIOUS
  <2>3. d \in Entries /\ (b + d = f \/ b + d = f + M)
    BY <1>1, <2>1, <2>2
  <2>4. f % M = f /\ (f + M) % M = f
    BY <1>1, <2>1
  <2> QED BY <2>3, <2>4
<1>4. D # {} /\ D \subseteq Nat
  <2>1. PICK d \in Entries : (b + d) % M = f
    BY <1>3
  <2>2. d \in D
    BY <1>2, <2>1
  <2>3. D \subseteq Entries
    OBVIOUS
  <2> HIDE DEF D
  <2>4. Entries \subseteq Nat
    BY <1>1
  <2> QED BY <2>2, <2>3, <2>4
<1>5. LeastOf(D) \in D
  BY <1>4, LeastProperties
<1>6. findFreeDirectoryEntry = (b + LeastOf(D)) % M
  BY DEF findFreeDirectoryEntry
<1>7. \A x \in Int : x % M \in 0 .. M - 1
  BY <1>1
<1>8. b + LeastOf(D) \in Int
  BY <1>1, <1>5
<1> QED BY <1>1, <1>5, <1>6, <1>7, <1>8

\* deleteFile and writeFile find an entry with the name they look for.
LEMMA DeletedFound ==
    ASSUME NEW name, deletes(name)
    PROVE  deleted(name) \in Entries /\ dir[deleted(name)].name = name
<1> DEFINE S == {e \in Entries : dir[e].name = name}
<1>1. S # {} /\ S \subseteq Nat
  BY ClusterFacts DEF deletes
<1>2. LeastOf(S) \in S
  BY <1>1, LeastProperties
<1> QED BY <1>2 DEF deleted

LEMMA WrittenFound ==
    ASSUME NEW name, writes(name)
    PROVE  written(name) \in Live /\ dir[written(name)].name = name
<1> DEFINE S == {e \in Live : dir[e].name = name}
<1>1. S # {} /\ S \subseteq Nat
  BY ClusterFacts DEF writes, Live
<1>2. LeastOf(S) \in S
  BY <1>1, LeastProperties
<1> QED BY <1>2 DEF written

-----------------------------------------------------------------------------
(* What the functions do to the directory.                                 *)

\* A directory whose files are files of d keeps what is said about them.
LEMMA FewerFiles ==
    ASSUME NEW d, NEW d2,
           \A e \in LiveIn(d2) : e \in LiveIn(d) /\ d2[e].cluster = d[e].cluster
    PROVE  /\ Apart(d) => Apart(d2)
           /\ \A best : Before(d, best) => Before(d2, best)
           /\ \A l : Marked(d, l) => Marked(d2, l)
<1>1. Apart(d) => Apart(d2)
  BY DEF Apart
<1>2. \A best : Before(d, best) => Before(d2, best)
  BY DEF Before
<1>3. ASSUME NEW l, Marked(d, l) PROVE Marked(d2, l)
  BY <1>3, Zenon DEF Marked
<1> QED BY <1>1, <1>2, <1>3

\* No file's link is behind the table.
LEMMA BeforeEnd ==
    ASSUME NEW d \in [Entries -> EntryType]
    PROVE  Before(d, TableEnd)
BY ClusterFacts DEF Before, LiveIn, EntryType

LEMMA EntryTyped ==
    /\ EmptyEntry \in EntryType /\ EmptyEntry.cluster = 0
    /\ \A name \in Names, c \in Links :
         [name |-> stored(name), size |-> 0, cluster |-> c] \in EntryType
    /\ \A text : sizeOf(text) \in {0, 1}
<1>1. EmptyEntry \in EntryType /\ EmptyEntry.cluster = 0
  BY ClusterFacts DEF EmptyEntry, EntryType
<1>2. ASSUME NEW name \in Names, NEW c \in Links
      PROVE  [name |-> stored(name), size |-> 0, cluster |-> c] \in EntryType
  <2>1. stored(name) \in StoredNames
    BY DEF StoredNames
  <2> QED BY <2>1 DEF EntryType
<1>3. \A text : sizeOf(text) \in {0, 1}
  BY DEF sizeOf
<1> QED BY <1>1, <1>2, <1>3

\* The new file lies behind all others of a disk that was mounted without files, and
\* in a free cluster if it is the first since the mount; its entry was no file's.
LEMMA NewEntry ==
    ASSUME FilesInv, NEW name \in Names, creates(name)
    PROVE  \E f \in Entries, c \in Links :
             /\ f = findFreeDirectoryEntry /\ f \notin Live
             /\ c = findFreeCluster
             /\ ~withFiles => \A e \in Live : dir[e].cluster < c
             /\ bestIdx = 0 => ~link[c]
             /\ newEntry(name) \in [Entries -> EntryType]
             /\ newEntry(name)[f] = [name |-> stored(name), size |-> 0, cluster |-> c]
             /\ \A e \in Entries : e # f => newEntry(name)[e] = dir[e]
<1>1. PICK f, c : f = findFreeDirectoryEntry /\ c = findFreeCluster
  OBVIOUS
<1>2. /\ dir \in [Entries -> EntryType] /\ bestIdx \in 0 .. TableEnd
      /\ bestRootDirIdx \in Entries
  BY Zenon DEF FilesInv, TypeOK, EntryType, StoredNames
<1>3. isMounted /\ Live # Entries /\ InTable
  BY DEF creates, mayCreate
<1>4. f \in Entries /\ f \notin Live
  BY <1>1, <1>2, <1>3, EntryFound
<1>5. bestIdx \in Nat
  BY <1>2, ClusterFacts
<1>6. c \in Links /\ bestIdx <= c /\ (bestIdx = 0 => ~link[c])
  BY <1>1, <1>3, <1>5, SearchGoesOn, FirstSearchIsExact
<1>7. ASSUME ~withFiles PROVE \A e \in Live : dir[e].cluster < c
  <2>1. Before(dir, bestIdx)
    BY <1>3, <1>7, Zenon DEF FilesInv
  <2>2. \A e \in Live : dir[e].cluster < bestIdx /\ dir[e].cluster \in Nat
    BY <1>2, <2>1, ClusterFacts DEF Before, Live, LiveIn, EntryType
  <2>3. c \in Nat
    BY <1>6, ClusterFacts
  <2> QED BY <1>5, <1>6, <2>2, <2>3
<1>8. PICK new : new = [name |-> stored(name), size |-> 0, cluster |-> c]
  OBVIOUS
<1>9. new \in EntryType
  BY <1>6, <1>8, EntryTyped
<1>10. newEntry(name) = [dir EXCEPT ![f] = new]
  BY <1>1, <1>8 DEF newEntry
<1>11. /\ newEntry(name) \in [Entries -> EntryType]
       /\ newEntry(name)[f] = new
       /\ \A e \in Entries : e # f => newEntry(name)[e] = dir[e]
  BY <1>2, <1>4, <1>9, <1>10
<1> QED BY <1>1, <1>4, <1>6, <1>7, <1>8, <1>11

\* The entry of a deleted file belongs to no file any more.
LEMMA ClearedEntry ==
    ASSUME dir \in [Entries -> EntryType], NEW k \in Entries,
           NEW d2, d2 = [dir EXCEPT ![k].cluster = 0, ![k].name = E5]
    PROVE  /\ d2 \in [Entries -> EntryType] /\ d2[k].cluster = 0
           /\ \A e \in Entries : e # k => d2[e] = dir[e]
<1>1. PICK r : r = [[dir[k] EXCEPT !.cluster = 0] EXCEPT !.name = E5]
  OBVIOUS
<1>2. r \in EntryType /\ r.cluster = 0
  BY <1>1, ClusterFacts DEF EntryType
<1>3. d2 = [dir EXCEPT ![k] = r]
  BY <1>1
<1> QED BY <1>2, <1>3

\* Saving changes an entry's size only.
LEMMA ResizedEntry ==
    ASSUME dir \in [Entries -> EntryType], NEW k \in Entries, NEW text,
           NEW d2, d2 = [dir EXCEPT ![k].size = sizeOf(text)]
    PROVE  /\ d2 \in [Entries -> EntryType]
           /\ d2[k].cluster = dir[k].cluster /\ d2[k].name = dir[k].name
           /\ d2[k].size = sizeOf(text)
           /\ \A e \in Entries : e # k => d2[e] = dir[e]
<1>1. PICK old, r, n : /\ old = dir[k] /\ n = sizeOf(text)
                       /\ r = [old EXCEPT !.size = n]
  OBVIOUS
<1>2. /\ r \in EntryType /\ r.cluster = old.cluster /\ r.name = old.name
      /\ r.size = n
  <2>1. old \in EntryType /\ n \in {0, 1}
    BY <1>1, EntryTyped
  <2> QED BY <1>1, <2>1 DEF EntryType
<1>3. d2 = [dir EXCEPT ![k] = r]
  BY <1>1
<1> QED BY <1>2, <1>3

-----------------------------------------------------------------------------
(* The invariant of the clusters.                                          *)

LEMMA TypeParts ==
    /\ TypeOK <=>
         /\ {formatted, isMounted, lost, withFiles, unsafe} \subseteq BOOLEAN
         /\ link \in [Links -> BOOLEAN] /\ dir \in [Entries -> EntryType]
         /\ data \in [Clusters -> Texts]
         /\ bestIdx \in 0 .. TableEnd /\ bestRootDirIdx \in Entries
         /\ saved \in [StoredNames -> Texts]
    /\ TypeOK' <=>
         /\ {formatted, isMounted, lost, withFiles, unsafe}' \subseteq BOOLEAN
         /\ link' \in [Links -> BOOLEAN] /\ dir' \in [Entries -> EntryType]
         /\ data' \in [Clusters -> Texts]
         /\ bestIdx' \in 0 .. TableEnd /\ bestRootDirIdx' \in Entries
         /\ saved' \in [StoredNames -> Texts]
BY Zenon DEF TypeOK, EntryType, StoredNames

LEMMA EmptyText == "" \in Texts
BY FATAssumption, Zenon

\* The memory behind initFAT.
LEMMA MemoryReset ==
    ASSUME initFAT
    PROVE  /\ isMounted' = FALSE /\ isMounted' \in BOOLEAN /\ withFiles' \in BOOLEAN
           /\ bestIdx' \in 0 .. TableEnd /\ bestRootDirIdx' \in Entries
<1>1. isMounted' = FALSE /\ isMounted' \in BOOLEAN /\ withFiles' \in BOOLEAN
  BY Zenon DEF initFAT
<1>2. bestIdx' \in 0 .. TableEnd /\ bestRootDirIdx' \in Entries
  BY ClusterFacts DEF initFAT
<1> QED BY <1>1, <1>2

LEMMA EmptyDirectory ==
    ASSUME NEW d, d = [e \in Entries |-> EmptyEntry]
    PROVE  /\ d \in [Entries -> EntryType] /\ LiveIn(d) = {}
           /\ Apart(d) /\ (\A best : Before(d, best)) /\ (\A l : Marked(d, l))
<1>1. d \in [Entries -> EntryType] /\ LiveIn(d) = {}
  BY EntryTyped DEF LiveIn
<1> QED BY <1>1 DEF Apart, Before, Marked

LEMMA FilesInit == Init => FilesInv
<1> SUFFICES ASSUME Init PROVE FilesInv
  OBVIOUS
<1>1. /\ {formatted, isMounted, lost, withFiles, unsafe} \subseteq BOOLEAN
      /\ link \in [Links -> BOOLEAN]
  BY Zenon DEF Init
<1>2. data \in [Clusters -> Texts] /\ saved \in [StoredNames -> Texts]
  BY EmptyText DEF Init, StoredNames
<1>3. bestIdx \in 0 .. TableEnd /\ bestRootDirIdx \in Entries
  <2>1. bestIdx = 0 /\ bestRootDirIdx = 0
    BY DEF Init
  <2> QED BY <2>1, ClusterFacts
<1>4. /\ dir \in [Entries -> EntryType]
      /\ Apart(dir) /\ (\A best : Before(dir, best)) /\ (\A l : Marked(dir, l))
  BY EmptyDirectory DEF Init
<1>5. TypeOK
  BY <1>1, <1>2, <1>3, <1>4, TypeParts, Zenon
<1> QED BY <1>4, <1>5, Zenon DEF FilesInv

\* createFile: the new file is marked and bestIdx passes it; it shares no cluster,
\* unless it is not the first on a disk that was mounted with files.
LEMMA FilesCreate ==
    ASSUME FilesInv, NEW name \in Names, createFile(name)
    PROVE  FilesInv'
<1>1. PICK f \in Entries, c \in Links :
        /\ f = findFreeDirectoryEntry /\ f \notin Live
        /\ c = findFreeCluster
        /\ ~withFiles => \A e \in Live : dir[e].cluster < c
        /\ bestIdx = 0 => ~link[c]
        /\ newEntry(name) \in [Entries -> EntryType]
        /\ newEntry(name)[f] = [name |-> stored(name), size |-> 0, cluster |-> c]
        /\ \A e \in Entries : e # f => newEntry(name)[e] = dir[e]
  BY NewEntry DEF createFile
<1>2. /\ link' = [link EXCEPT ![c] = TRUE] /\ bestIdx' = c + 1 /\ bestRootDirIdx' = f
      /\ dir' = newEntry(name) /\ saved' = [saved EXCEPT ![stored(name)] = ""]
      /\ UNCHANGED <<formatted, data, isMounted, lost, withFiles>>
  BY <1>1 DEF createFile
<1>3. TypeOK /\ (~unsafe => Apart(dir) /\ Marked(dir, link))
  BY Zenon DEF FilesInv
<1>0. unsafe' = (unsafe \/ secondSearch)
  BY Zenon DEF createFile
<1>4. dir'[f].cluster = c /\ \A e \in Entries : e # f => dir'[e] = dir[e]
  <2>1. /\ dir'[f] = [name |-> stored(name), size |-> 0, cluster |-> c]
        /\ \A e \in Entries : e # f => dir'[e] = dir[e]
    BY <1>1, <1>2, Zenon
  <2>2. dir'[f].cluster = c
    BY <2>1
  <2> QED BY <2>1, <2>2
<1>5. \A e \in LiveIn(dir') : e \in Entries /\ (e = f \/ (e \in Live /\ dir'[e] = dir[e]))
  BY <1>4 DEF LiveIn, Live
<1>6. Links \subseteq Nat /\ dir \in [Entries -> EntryType]
  BY <1>3, ClusterFacts, TypeParts, Zenon
<1>7. \A e \in Live : dir[e].cluster \in Links
  BY <1>6 DEF Live, EntryType
<1>8. ASSUME ~unsafe' PROVE \A e \in Live : dir[e].cluster # c
  <2>1. ~withFiles \/ bestIdx = 0
    BY <1>0, <1>8, Zenon DEF secondSearch
  <2>2. CASE ~withFiles
    <3>1. \A e \in Live : dir[e].cluster < c /\ dir[e].cluster \in Nat
      BY <1>1, <1>6, <1>7, <2>2
    <3>2. c \in Nat
      BY <1>6
    <3> QED BY <3>1, <3>2
  <2>3. CASE bestIdx = 0
    <3>1. ~link[c] /\ Marked(dir, link)
      BY <1>0, <1>1, <1>3, <1>8, <2>3, Zenon
    <3> QED BY <3>1, Zenon DEF Marked, Live, LiveIn
  <2> QED BY <2>1, <2>2, <2>3
<1>14. ~unsafe' => Apart(dir')
  <2> SUFFICES ASSUME ~unsafe' PROVE Apart(dir')
    OBVIOUS
  <2>1. Apart(dir)
    BY <1>0, <1>3, Zenon
  <2> QED BY <1>4, <1>5, <1>8, <2>1 DEF Apart, Live, LiveIn
<1>9. ~withFiles' => Before(dir', bestIdx')
  <2> SUFFICES ASSUME ~withFiles' PROVE Before(dir', bestIdx')
    OBVIOUS
  <2>0. ~withFiles
    BY <1>2
  <2>1. \A e \in LiveIn(dir') : dir'[e].cluster \in Nat /\ dir'[e].cluster <= c
    <3> SUFFICES ASSUME NEW e \in LiveIn(dir')
                 PROVE  dir'[e].cluster \in Nat /\ dir'[e].cluster <= c
      BY Zenon
    <3>1. CASE e = f
      BY <1>1, <1>4, <1>6, <3>1
    <3>2. CASE e # f
      <4>1. e \in Live /\ dir'[e] = dir[e]
        BY <1>5, <3>2, Zenon
      <4>2. dir[e].cluster \in Nat /\ dir[e].cluster < c /\ c \in Nat
        BY <1>1, <1>6, <1>7, <2>0, <4>1
      <4> QED BY <4>1, <4>2
    <3> QED BY <3>1, <3>2
  <2>2. bestIdx' = c + 1 /\ c \in Nat
    BY <1>2, <1>6
  <2>3. \A e \in LiveIn(dir') : dir'[e].cluster < bestIdx'
    BY <2>1, <2>2
  <2> QED BY <2>3, Zenon DEF Before
<1>10. link \in [Links -> BOOLEAN]
  BY <1>3, TypeParts, Zenon
<1>11. link'[c] = TRUE /\ \A x \in Links : x # c => link'[x] = link[x]
  BY <1>2, <1>10
<1>12. ~unsafe' => Marked(dir', link')
  <2> SUFFICES ASSUME ~unsafe', NEW e \in LiveIn(dir') PROVE link'[dir'[e].cluster]
    BY Zenon DEF Marked
  <2>1. Marked(dir, link)
    BY <1>0, <1>3, Zenon
  <2>2. CASE e = f
    BY <1>4, <1>11, <2>2, Zenon
  <2>3. CASE e # f
    <3>1. e \in Live /\ dir'[e] = dir[e] /\ dir[e].cluster \in Links /\ dir[e].cluster # c
      BY <1>5, <1>7, <1>8, <2>3
    <3>2. link[dir[e].cluster]
      BY <2>1, <3>1, Zenon DEF Marked, Live, LiveIn
    <3> QED BY <1>11, <3>1, <3>2, Zenon
  <2> QED BY <2>2, <2>3
<1>13. TypeOK'
  <2>1. /\ {formatted, isMounted, lost, withFiles, unsafe}' \subseteq BOOLEAN
        /\ data' \in [Clusters -> Texts]
    BY <1>0, <1>2, <1>3, TypeParts, Zenon
  <2>2. link' \in [Links -> BOOLEAN]
    BY <1>2, <1>10
  <2>3. bestIdx' \in 0 .. TableEnd
    BY <1>2, ClusterFacts
  <2>4. saved' \in [StoredNames -> Texts]
    <3>1. saved \in [StoredNames -> Texts]
      BY <1>3, TypeParts, Zenon
    <3> QED BY <1>2, <3>1, EmptyText
  <2> QED BY <1>1, <1>2, <2>1, <2>2, <2>3, <2>4, TypeParts, Zenon
<1> QED BY <1>9, <1>12, <1>13, <1>14, Zenon DEF FilesInv

\* What the table f says of the clusters of the entries S, g says too.
SameOf(S, f, g) == \A e \in S : g[dir[e].cluster] = f[dir[e].cluster]

\* What deleteFile writes: the link of its cluster is free and its entry cleared.
LEMMA FilesDelete ==
    ASSUME FilesInv, NEW name, deletes(name),
           NEW k, k = deleted(name), NEW c, c = dir[k].cluster,
           NEW l2, l2 = [link EXCEPT ![c] = FALSE]
    PROVE  /\ k \in Entries /\ dir[k].name = name /\ c \in Links
           /\ l2 \in [Links -> BOOLEAN]
           /\ ~unsafe => SameOf(Live \ {k}, link, l2)
           /\ k \notin Live => SameOf(Live, link, l2)
<1>1. k \in Entries /\ dir[k].name = name
  BY DeletedFound
<1>2. TypeOK /\ (~unsafe => Apart(dir))
  BY Zenon DEF FilesInv
<1>3. link \in [Links -> BOOLEAN] /\ dir \in [Entries -> EntryType]
  BY <1>2, TypeParts, Zenon
<1>4. \A e \in Entries : dir[e].cluster \in Links
  BY <1>3 DEF EntryType
<1>5. c \in Links
  BY <1>1, <1>4
<1>6. l2 \in [Links -> BOOLEAN] /\ \A x \in Links : x # c => l2[x] = link[x]
  BY <1>3, <1>5
<1>7. k \in Live /\ ~unsafe => \A e \in Live : e # k => dir[e].cluster # c
  BY <1>1, <1>2 DEF Apart, Live, LiveIn
<1>8. k \notin Live => \A e \in Live : dir[e].cluster # c
  BY <1>1 DEF Live
<1>9. \A e \in Live : dir[e].cluster \in Links
  BY <1>4 DEF Live
<1>10. ~unsafe => SameOf(Live \ {k}, link, l2)
  BY <1>6, <1>7, <1>8, <1>9, Zenon DEF SameOf
<1>11. k \notin Live => SameOf(Live, link, l2)
  BY <1>6, <1>8, <1>9, Zenon DEF SameOf
<1> QED BY <1>1, <1>5, <1>6, <1>10, <1>11, Zenon

\* Writing the text of a file leaves the other clusters alone.
LEMMA FilesWrite ==
    ASSUME FilesInv, NEW name, writes(name), NEW text \in Texts,
           NEW k, k = written(name), writeCluster(dir[k].cluster, text)
    PROVE  /\ k \in Live /\ k \in Entries /\ dir[k].name = name
           /\ data' \in [Clusters -> Texts]
           /\ dir[k].cluster \in Clusters => data'[dir[k].cluster] = text
           /\ \A c \in Clusters : c # dir[k].cluster => data'[c] = data[c]
<1>1. k \in Live /\ k \in Entries /\ dir[k].name = name
  BY WrittenFound DEF Live
<1>2. data \in [Clusters -> Texts]
  BY TypeParts, Zenon DEF FilesInv
<1> QED BY <1>1, <1>2 DEF writeCluster

LEMMA SavedTyped ==
    ASSUME saved \in [StoredNames -> Texts], NEW text \in Texts, NEW name
    PROVE  [saved EXCEPT ![name] = text] \in [StoredNames -> Texts]
OBVIOUS

\* A step that changes the files' clusters and links nowhere keeps the invariant.
LEMMA FilesKept ==
    ASSUME FilesInv, TypeOK',
           \A e \in LiveIn(dir') : e \in Live /\ dir'[e].cluster = dir[e].cluster,
           isMounted' /\ ~withFiles' =>
             isMounted /\ ~withFiles /\ bestIdx' \in {bestIdx, TableEnd},
           ~unsafe' => /\ ~unsafe
                       /\ \A e \in LiveIn(dir') : link[dir[e].cluster] => link'[dir[e].cluster]
    PROVE  FilesInv'
<1>1. /\ isMounted /\ ~withFiles => Before(dir, bestIdx)
      /\ ~unsafe => Apart(dir) /\ Marked(dir, link)
  BY Zenon DEF FilesInv
<1>2. \A e \in LiveIn(dir') : e \in LiveIn(dir) /\ dir'[e].cluster = dir[e].cluster
  BY DEF Live, LiveIn
<1>3. /\ Apart(dir) => Apart(dir')
      /\ \A best : Before(dir, best) => Before(dir', best)
  BY <1>2, FewerFiles
<1>4. isMounted' /\ ~withFiles' => Before(dir', bestIdx')
  <2>1. Before(dir', TableEnd)
    BY BeforeEnd, TypeParts, Zenon
  <2> QED BY <1>1, <1>3, <2>1, Zenon
<1>5. ~unsafe' => Marked(dir', link')
  <2> SUFFICES ASSUME ~unsafe', NEW e \in LiveIn(dir') PROVE link'[dir'[e].cluster]
    BY Zenon DEF Marked
  <2>1. Marked(dir, link) /\ e \in LiveIn(dir) /\ dir'[e].cluster = dir[e].cluster
    BY <1>1, <1>2, Zenon
  <2>2. link[dir[e].cluster]
    BY <2>1, Zenon DEF Marked
  <2> QED BY <2>1, <2>2, Zenon
<1>6. ~unsafe' => Apart(dir')
  BY <1>1, <1>3, Zenon
<1> QED BY <1>4, <1>5, <1>6, Zenon DEF FilesInv

LEMMA FilesStep == FilesInv /\ [Next]_vars => FilesInv'
<1> SUFFICES ASSUME FilesInv, [Next]_vars PROVE FilesInv'
  OBVIOUS
<1> DEFINE Goal == FilesInv'
<1>0. /\ {formatted, isMounted, lost, withFiles, unsafe} \subseteq BOOLEAN
      /\ link \in [Links -> BOOLEAN] /\ dir \in [Entries -> EntryType]
      /\ data \in [Clusters -> Texts]
      /\ bestIdx \in 0 .. TableEnd /\ bestRootDirIdx \in Entries
      /\ saved \in [StoredNames -> Texts]
  BY TypeParts, Zenon DEF FilesInv
<1>1. ASSUME format PROVE Goal
  <2>1. /\ dir' \in [Entries -> EntryType]
        /\ Apart(dir') /\ (\A best : Before(dir', best)) /\ (\A l : Marked(dir', l))
    BY <1>1, EmptyDirectory DEF format
  <2>2. {formatted, isMounted, lost, withFiles, unsafe}' \subseteq BOOLEAN
    BY <1>0, <1>1, Zenon DEF format
  <2>3. bestIdx' = bestIdx /\ bestRootDirIdx' = bestRootDirIdx
    BY <1>1 DEF format
  <2>4. link' \in [Links -> BOOLEAN]
    BY <1>1 DEF format
  <2>5. data' \in [Clusters -> Texts] /\ saved' \in [StoredNames -> Texts]
    BY <1>0, <1>1, EmptyText DEF format
  <2>6. TypeOK'
    BY <1>0, <2>1, <2>2, <2>3, <2>4, <2>5, TypeParts, Zenon
  <2> QED BY <2>1, <2>6, Zenon DEF FilesInv
<1>2. ASSUME formatStops PROVE Goal
  <2>1. PICK sectors \in 0 .. LINK_SECTORS, n \in 0 .. MAX_FILECOUNT :
          /\ link' = [c \in Links |-> c >= sectors * LINKS /\ link[c]]
          /\ dir' = [e \in Entries |-> IF e < n THEN EmptyEntry ELSE dir[e]]
    BY <1>2 DEF formatStops
  <2>2. /\ formatted' = TRUE /\ unsafe' = (\E e \in Entries : dir'[e].cluster # 0)
        /\ UNCHANGED <<data, lost, saved>> /\ (initFAT \/ UNCHANGED memory)
    BY <1>2, Zenon DEF formatStops
  <2>3. dir' \in [Entries -> EntryType]
    BY <1>0, <2>1, EntryTyped
  <2>4. \A e \in LiveIn(dir') : e \in Live /\ dir'[e] = dir[e]
    BY <2>1, EntryTyped DEF LiveIn, Live
  <2>5. /\ isMounted' \in BOOLEAN /\ withFiles' \in BOOLEAN
        /\ bestIdx' \in 0 .. TableEnd /\ bestRootDirIdx' \in Entries
        /\ isMounted' /\ ~withFiles' => isMounted /\ ~withFiles /\ bestIdx' = bestIdx
    <3>1. CASE initFAT
      BY <3>1, MemoryReset, Zenon
    <3>2. CASE UNCHANGED memory
      <4>1. /\ isMounted' = isMounted /\ bestIdx' = bestIdx
            /\ bestRootDirIdx' = bestRootDirIdx /\ withFiles' = withFiles
        BY <3>2 DEF memory
      <4> QED BY <1>0, <4>1, Zenon
    <3> QED BY <2>2, <3>1, <3>2, Zenon
  <2>6. link' \in [Links -> BOOLEAN]
    BY <2>1
  <2>7. {formatted, isMounted, lost, withFiles, unsafe}' \subseteq BOOLEAN
    BY <1>0, <2>2, <2>5, Zenon
  <2>8. TypeOK'
    BY <1>0, <2>2, <2>3, <2>5, <2>6, <2>7, TypeParts, Zenon
  <2>9. LiveIn(dir') = {} => Apart(dir') /\ Marked(dir', link')
    BY Zenon DEF Apart, Marked
  <2>10. ~unsafe' => Apart(dir') /\ Marked(dir', link')
    BY <2>2, <2>9 DEF LiveIn
  <2>11. \A best : Before(dir, best) => Before(dir', best)
    BY <2>4, FewerFiles DEF Live, LiveIn
  <2>12. isMounted' /\ ~withFiles' => Before(dir', bestIdx')
    <3> SUFFICES ASSUME isMounted', ~withFiles' PROVE Before(dir', bestIdx')
      OBVIOUS
    <3>1. isMounted /\ ~withFiles /\ bestIdx' = bestIdx
      BY <2>5, Zenon
    <3>2. Before(dir, bestIdx)
      BY <3>1, Zenon DEF FilesInv
    <3> QED BY <2>11, <3>1, <3>2
  <2> QED BY <2>8, <2>10, <2>12, Zenon DEF FilesInv
<1>3. ASSUME TypeOK', UNCHANGED <<dir, link>>, ~unsafe' => ~unsafe,
             isMounted' /\ ~withFiles' =>
               isMounted /\ ~withFiles /\ bestIdx' \in {bestIdx, TableEnd}
      PROVE  Goal
  <2>1. /\ \A e \in LiveIn(dir') : e \in Live /\ dir'[e].cluster = dir[e].cluster
    BY <1>3 DEF LiveIn, Live
  <2>2. ~unsafe' => /\ ~unsafe
                    /\ \A e \in LiveIn(dir') : link[dir[e].cluster] => link'[dir[e].cluster]
    BY <1>3, Zenon
  <2> QED BY <1>3, <2>1, <2>2, FilesKept, Zenon
<1>4. ASSUME reboot PROVE Goal
  <2>1. UNCHANGED <<formatted, link, dir, data, lost, saved, unsafe>> /\ initFAT
    BY <1>4 DEF reboot
  <2>2. TypeOK'
    BY <1>0, <2>1, MemoryReset, TypeParts, Zenon
  <2>3. ~isMounted'
    BY <2>1, MemoryReset, Zenon
  <2> QED BY <1>3, <2>1, <2>2, <2>3, Zenon
<1>5. ASSUME mount PROVE Goal
  <2>1. withFiles' = (Live # {}) /\ UNCHANGED <<formatted, link, dir, data, lost, saved, unsafe>>
    BY <1>5, Zenon DEF mount
  <2>2. isMounted' \in BOOLEAN
    BY <1>5, Zenon DEF mount
  <2>3. bestIdx' \in 0 .. TableEnd /\ bestRootDirIdx' \in Entries
    <3>1. bestIdx' = 0 /\ bestRootDirIdx' = 0
      BY <1>5 DEF mount
    <3> QED BY <3>1, ClusterFacts
  <2>4. TypeOK'
    BY <1>0, <2>1, <2>2, <2>3, TypeParts, Zenon
  <2>5. ~withFiles' => Before(dir', bestIdx')
    BY <2>1 DEF Before, Live, LiveIn
  <2>6. ~unsafe' => Apart(dir') /\ Marked(dir', link')
    BY <2>1, Zenon DEF FilesInv
  <2> QED BY <2>4, <2>5, <2>6, Zenon DEF FilesInv
<1>6. ASSUME NEW name \in Names, createFile(name) PROVE Goal
  BY <1>6, FilesCreate
<1>7. ASSUME NEW name \in Names, createFileCut(name) PROVE Goal
  <2>1. PICK c : c = findFreeCluster
    OBVIOUS
  <2>2. c \in Links
    BY <1>7, <2>1 DEF createFileCut, creates, InTable
  <2>3. /\ link' = [link EXCEPT ![c] = TRUE] /\ initFAT
        /\ UNCHANGED <<formatted, dir, data, lost, saved, unsafe>>
    BY <1>7, <2>1 DEF createFileCut
  <2>4. /\ link' \in [Links -> BOOLEAN]
        /\ link'[c] = TRUE /\ \A x \in Links : x # c => link'[x] = link[x]
    BY <1>0, <2>2, <2>3
  <2>5. TypeOK'
    BY <1>0, <2>3, <2>4, MemoryReset, TypeParts, Zenon
  <2>6. \A e \in LiveIn(dir') : /\ e \in Live /\ dir'[e].cluster = dir[e].cluster
                                /\ dir[e].cluster \in Links
    BY <1>0, <2>3 DEF LiveIn, Live, EntryType
  <2>7. \A e \in LiveIn(dir') : link[dir[e].cluster] => link'[dir[e].cluster]
    BY <2>4, <2>6, Zenon
  <2>8. ~isMounted' /\ (~unsafe' => ~unsafe)
    BY <2>3, MemoryReset, Zenon
  <2> QED BY <2>5, <2>6, <2>7, <2>8, FilesKept, Zenon
<1>14. ASSUME NEW name \in Names, createFileFull(name) PROVE Goal
  <2>1. /\ UNCHANGED <<formatted, link, dir, data, isMounted, lost, saved, withFiles, unsafe>>
        /\ bestIdx' = TableEnd /\ bestRootDirIdx' = findFreeDirectoryEntry
    BY <1>14 DEF createFileFull
  <2>2. bestIdx' \in 0 .. TableEnd /\ bestRootDirIdx' \in Entries
    BY <1>0, <1>14, <2>1, ClusterFacts, EntryFound DEF createFileFull, mayCreate
  <2>3. TypeOK'
    BY <1>0, <2>1, <2>2, TypeParts, Zenon
  <2> QED BY <1>3, <2>1, <2>3, Zenon
<1>15. ASSUME NEW name \in Names, createFileBehindTable(name) PROVE Goal
  <2>1. /\ UNCHANGED <<formatted, link, dir, data, isMounted, saved, withFiles>>
        /\ bestIdx' = TableEnd /\ bestRootDirIdx' = findFreeDirectoryEntry
    BY <1>15 DEF createFileBehindTable
  <2>2. lost' = TRUE /\ unsafe' = TRUE
    BY <1>15, Zenon DEF createFileBehindTable
  <2>3. bestIdx' \in 0 .. TableEnd /\ bestRootDirIdx' \in Entries
    BY <1>0, <1>15, <2>1, ClusterFacts, EntryFound DEF createFileBehindTable, mayCreate
  <2>4. TypeOK'
    BY <1>0, <2>1, <2>2, <2>3, TypeParts, Zenon
  <2> QED BY <1>3, <2>1, <2>2, <2>4, Zenon
<1>8. ASSUME NEW name \in Names, deleteFile(name) PROVE Goal
  <2>1. PICK k, c : k = deleted(name) /\ c = dir[k].cluster
    OBVIOUS
  <2>2. /\ deletes(name) /\ link' = [link EXCEPT ![c] = FALSE]
        /\ dir' = [dir EXCEPT ![k].cluster = 0, ![k].name = E5]
        /\ UNCHANGED <<formatted, data, memory, lost, saved, unsafe>>
    BY <1>8, <2>1 DEF deleteFile
  <2>3. /\ k \in Entries /\ link' \in [Links -> BOOLEAN]
        /\ ~unsafe => SameOf(Live \ {k}, link, link')
    <3>1. k \in Entries
      BY <2>1, <2>2, DeletedFound
    <3>2. link' \in [Links -> BOOLEAN]
      BY <2>1, <2>2, FilesDelete
    <3>3. ~unsafe => SameOf(Live \ {k}, link, link')
      BY <2>1, <2>2, FilesDelete
    <3> QED BY <3>1, <3>2, <3>3
  <2>4. /\ dir' \in [Entries -> EntryType] /\ dir'[k].cluster = 0
        /\ \A e \in Entries : e # k => dir'[e] = dir[e]
    BY <1>0, <2>2, <2>3, ClearedEntry
  <2>5. TypeOK'
    BY <1>0, <2>2, <2>3, <2>4, TypeParts, Zenon DEF memory
  <2>6. \A e \in LiveIn(dir') : e \in Live /\ dir'[e].cluster = dir[e].cluster /\ e # k
    BY <2>4 DEF LiveIn, Live
  <2>7. ~unsafe => \A e \in LiveIn(dir') : link[dir[e].cluster] => link'[dir[e].cluster]
    BY <2>3, <2>6, Zenon DEF SameOf
  <2>8. /\ isMounted' /\ ~withFiles' => isMounted /\ ~withFiles /\ bestIdx' = bestIdx
        /\ ~unsafe' => ~unsafe
    BY <2>2, Zenon DEF memory
  <2> QED BY <2>5, <2>6, <2>7, <2>8, FilesKept, Zenon
<1>9. ASSUME NEW name \in Names, deleteFileCut(name) PROVE Goal
  <2>1. PICK k, c : k = deleted(name) /\ c = dir[k].cluster
    OBVIOUS
  <2>2. /\ deletes(name) /\ link' = [link EXCEPT ![c] = FALSE] /\ initFAT
        /\ UNCHANGED <<formatted, dir, data, lost, saved>>
    BY <1>9, <2>1 DEF deleteFileCut
  <2>3. unsafe' = (unsafe \/ k \in Live)
    BY <1>9, <2>1, Zenon DEF deleteFileCut
  <2>4. /\ link' \in [Links -> BOOLEAN]
        /\ k \notin Live => SameOf(Live, link, link')
    <3>1. link' \in [Links -> BOOLEAN]
      BY <2>1, <2>2, FilesDelete
    <3>2. k \notin Live => SameOf(Live, link, link')
      BY <2>1, <2>2, FilesDelete
    <3> QED BY <3>1, <3>2
  <2>5. unsafe' \in BOOLEAN
    BY <2>3, Zenon
  <2>6. TypeOK'
    BY <1>0, <2>2, <2>4, <2>5, MemoryReset, TypeParts, Zenon
  <2>7. \A e \in LiveIn(dir') : e \in Live /\ dir'[e].cluster = dir[e].cluster
    BY <2>2 DEF LiveIn, Live
  <2>8. ~unsafe' =>
          /\ ~unsafe
          /\ \A e \in LiveIn(dir') : link[dir[e].cluster] => link'[dir[e].cluster]
    BY <2>3, <2>4, <2>7, Zenon DEF SameOf
  <2>9. ~isMounted'
    BY <2>2, MemoryReset, Zenon
  <2> QED BY <2>6, <2>7, <2>8, <2>9, FilesKept, Zenon
<1>10. ASSUME NEW name \in Names, NEW text \in Texts, writeFile(name, text) PROVE Goal
  <2>1. PICK k : k = written(name)
    OBVIOUS
  <2>2. /\ writes(name) /\ writeCluster(dir[k].cluster, text)
        /\ dir' = [dir EXCEPT ![k].size = sizeOf(text)]
        /\ saved' = [saved EXCEPT ![name] = text]
        /\ UNCHANGED <<formatted, link, memory, lost, unsafe>>
    BY <1>10, <2>1 DEF writeFile
  <2>3. k \in Entries /\ data' \in [Clusters -> Texts]
    BY <2>1, <2>2, FilesWrite
  <2>4. /\ dir' \in [Entries -> EntryType] /\ dir'[k].cluster = dir[k].cluster
        /\ \A e \in Entries : e # k => dir'[e] = dir[e]
    BY <1>0, <2>2, <2>3, ResizedEntry
  <2>5. saved' \in [StoredNames -> Texts]
    BY <1>0, <2>2, SavedTyped
  <2>6. TypeOK'
    BY <1>0, <2>2, <2>3, <2>4, <2>5, TypeParts, Zenon DEF memory
  <2>7. \A e \in LiveIn(dir') : e \in Live /\ dir'[e].cluster = dir[e].cluster
    BY <2>4 DEF LiveIn, Live
  <2>8. \A e \in LiveIn(dir') : link[dir[e].cluster] => link'[dir[e].cluster]
    BY <2>2, Zenon
  <2>9. /\ isMounted' /\ ~withFiles' => isMounted /\ ~withFiles /\ bestIdx' = bestIdx
        /\ ~unsafe' => ~unsafe
    BY <2>2, Zenon DEF memory
  <2> QED BY <2>6, <2>7, <2>8, <2>9, FilesKept, Zenon
<1>11. ASSUME NEW name \in Names, NEW text \in Texts, writeFileCut(name, text) PROVE Goal
  <2>1. PICK k : k = written(name)
    OBVIOUS
  <2>2. /\ writes(name) /\ writeCluster(dir[k].cluster, text)
        /\ saved' = [saved EXCEPT ![name] = text] /\ initFAT
        /\ UNCHANGED <<formatted, link, dir, lost, unsafe>>
    BY <1>11, <2>1 DEF writeFileCut
  <2>3. data' \in [Clusters -> Texts]
    BY <2>1, <2>2, FilesWrite
  <2>4. saved' \in [StoredNames -> Texts]
    BY <1>0, <2>2, SavedTyped
  <2>5. TypeOK'
    BY <1>0, <2>2, <2>3, <2>4, MemoryReset, TypeParts, Zenon
  <2>6. ~isMounted'
    BY <2>2, MemoryReset, Zenon
  <2> QED BY <1>3, <2>2, <2>5, <2>6, Zenon
<1>12. ASSUME UNCHANGED vars PROVE Goal
  <2>1. TypeOK'
    BY <1>0, <1>12, TypeParts, Zenon DEF vars, memory
  <2> QED BY <1>3, <1>12, <2>1, Zenon DEF vars, memory
<1> HIDE DEF Goal
<1>13. Goal
  BY <1>1, <1>2, <1>4, <1>5, <1>6, <1>7, <1>8, <1>9, <1>10, <1>11, <1>12, <1>14, <1>15 DEF Next
<1> QED BY <1>13 DEF Goal

LEMMA FilesInvariant == Spec => []FilesInv
<1>1. Init => FilesInv
  BY FilesInit
<1>2. FilesInv /\ [Next]_vars => FilesInv'
  BY FilesStep
<1> QED BY <1>1, <1>2, PTL DEF Spec

\* createFile may take a cluster whose link it did not look at, but none in front
\* of bestIdx, and none in use when it is the first search behind a mount: no two
\* files share a cluster, whatever is created, deleted, cut short and formatted
\* again, until a second file is created on a disk that was mounted with files.
THEOREM FilesDisjointAlways == Spec => []FilesDisjoint
<1>1. FilesInv => FilesDisjoint
  BY DEF FilesInv, FilesDisjoint, Apart, Live, LiveIn
<1> QED BY <1>1, FilesInvariant, PTL

\* createFile marks the cluster before the entry makes it a file, and deleteFile
\* frees no other file's: the table marks every file's cluster, until a deletion
\* is cut short or a second file is created on a disk that was mounted with files.
THEOREM FilesLinkedAlways == Spec => []FilesLinked
<1>1. FilesInv => FilesLinked
  BY Zenon DEF FilesInv, FilesLinked, Marked, Live, LiveIn
<1> QED BY <1>1, FilesInvariant, PTL

-----------------------------------------------------------------------------
(* What was saved. Two files can have one stored name only when long names  *)
(* were cut; so a save meets the file it names, or one with such a name.    *)

Named(d)  == \A e \in LiveIn(d) : d[e].name \in StoredNames
Unique(d) == \A e, f \in LiveIn(d) :
               d[e].name = d[f].name /\ d[e].name # "cut" => e = f

\* The files of d with a size hold in t what s says of their names.
Holds(d, t, s) ==
    \A e \in LiveIn(d) :
        d[e].size # 0 /\ d[e].name # "cut" /\ d[e].cluster \in Clusters
        => t[d[e].cluster] = s[d[e].name]

NamesInv ==
    /\ Named(dir) /\ Unique(dir)
    /\ ~unsafe => Holds(dir, data, saved)

\* A directory whose files are files of d, text and history unchanged.
LEMMA NamesKept ==
    ASSUME NEW d, NEW d2, Named(d), Unique(d),
           \A e \in LiveIn(d2) : e \in LiveIn(d) /\ d2[e] = d[e]
    PROVE  /\ Named(d2) /\ Unique(d2)
           /\ \A t, s : Holds(d, t, s) => Holds(d2, t, s)
<1>1. Named(d2) /\ Unique(d2)
  BY DEF Named, Unique
<1>2. \A t, s : Holds(d, t, s) => Holds(d2, t, s)
  BY DEF Holds
<1> QED BY <1>1, <1>2

LEMMA NamesInit == Init => NamesInv
<1> SUFFICES ASSUME Init PROVE NamesInv
  OBVIOUS
<1>1. LiveIn(dir) = {}
  BY EmptyDirectory DEF Init
<1> QED BY <1>1 DEF NamesInv, Named, Unique, Holds

\* A short name is stored as it is.
LEMMA StoredFacts ==
    ASSUME NEW name \in Names
    PROVE  /\ stored(name) \in StoredNames
           /\ stored(name) # "cut" => stored(name) = name
<1>1. stored(name) \in StoredNames
  BY DEF StoredNames
<1>2. stored(name) # "cut" => stored(name) = name
  BY DEF stored
<1> QED BY <1>1, <1>2

\* createFile: no file has the new name, and an empty file has nothing to show.
LEMMA NamesCreate ==
    ASSUME FilesInv, NamesInv, NEW name \in Names, createFile(name)
    PROVE  NamesInv'
<1>1. PICK f \in Entries, c \in Links :
        /\ f = findFreeDirectoryEntry /\ f \notin Live
        /\ c = findFreeCluster
        /\ ~withFiles => \A e \in Live : dir[e].cluster < c
        /\ bestIdx = 0 => ~link[c]
        /\ newEntry(name) \in [Entries -> EntryType]
        /\ newEntry(name)[f] = [name |-> stored(name), size |-> 0, cluster |-> c]
        /\ \A e \in Entries : e # f => newEntry(name)[e] = dir[e]
  BY NewEntry DEF createFile
<1>2. PICK n : n = stored(name)
  OBVIOUS
<1>3. /\ dir' = newEntry(name) /\ saved' = [saved EXCEPT ![n] = ""]
      /\ data' = data
  BY <1>2 DEF createFile
<1>4. ~unsafe' => ~unsafe
  BY Zenon DEF createFile
<1>5. /\ n \in StoredNames
      /\ n # "cut" => n = name
  BY <1>2, StoredFacts
<1>6. \A e \in Live : dir[e].name # name
  BY DEF createFile, creates, mayCreate
<1>7. /\ dir'[f].name = n /\ dir'[f].size = 0
      /\ \A e \in Entries : e # f => dir'[e] = dir[e]
  <2>1. /\ dir'[f] = [name |-> stored(name), size |-> 0, cluster |-> c]
        /\ \A e \in Entries : e # f => dir'[e] = dir[e]
    BY <1>1, <1>3, Zenon
  <2> QED BY <1>2, <2>1
<1>8. \A e \in LiveIn(dir') : e = f \/ (e \in LiveIn(dir) /\ e # f /\ dir'[e] = dir[e])
  BY <1>7 DEF LiveIn
<1>9. \A e \in LiveIn(dir) : dir[e].name # name
  BY <1>6 DEF Live, LiveIn
<1>10. Named(dir')
  <2>1. Named(dir)
    BY Zenon DEF NamesInv
  <2> QED BY <1>5, <1>7, <1>8, <2>1 DEF Named
<1>11. Unique(dir')
  <2>1. Unique(dir)
    BY Zenon DEF NamesInv
  <2> SUFFICES ASSUME NEW d \in LiveIn(dir'), NEW e \in LiveIn(dir'),
                      dir'[d].name = dir'[e].name, dir'[d].name # "cut"
               PROVE  d = e
    BY Zenon DEF Unique
  <2>2. d # f => d \in LiveIn(dir) /\ dir'[d] = dir[d] /\ dir[d].name # name
    BY <1>8, <1>9
  <2>3. e # f => e \in LiveIn(dir) /\ dir'[e] = dir[e] /\ dir[e].name # name
    BY <1>8, <1>9
  <2>4. dir'[f].name # "cut" => dir'[f].name = name
    BY <1>5, <1>7
  <2>5. d = f <=> e = f
    BY <2>2, <2>3, <2>4
  <2>6. d # f /\ e # f => d = e
    BY <2>1, <2>2, <2>3 DEF Unique
  <2> QED BY <2>5, <2>6
<1>12. saved \in [StoredNames -> Texts]
  BY TypeParts, Zenon DEF FilesInv
<1>13. Holds(dir, data, saved) => Holds(dir', data', saved')
  <2> SUFFICES ASSUME Holds(dir, data, saved), NEW e \in LiveIn(dir'),
                      dir'[e].size # 0, dir'[e].name # "cut", dir'[e].cluster \in Clusters
               PROVE  data'[dir'[e].cluster] = saved'[dir'[e].name]
    BY DEF Holds
  <2>1. e \in LiveIn(dir) /\ dir'[e] = dir[e]
    BY <1>7, <1>8
  <2>2. dir[e].name \in StoredNames /\ dir[e].name # n
    BY <1>5, <1>9, <2>1 DEF NamesInv, Named
  <2>3. saved'[dir[e].name] = saved[dir[e].name]
    BY <1>3, <1>12, <2>2
  <2> QED BY <1>3, <2>1, <2>3 DEF Holds
<1> QED BY <1>4, <1>10, <1>11, <1>13, Zenon DEF NamesInv

\* A save meets exactly the file that has the name, whether or not the power was
\* lost before its size was written.
LEMMA NamesWrite ==
    ASSUME FilesInv, NamesInv, NEW name \in Names, NEW text \in Texts,
           writes(name), NEW k, k = written(name),
           dir' \in [Entries -> EntryType],
           dir'[k].cluster = dir[k].cluster, dir'[k].name = dir[k].name,
           \A e \in Entries : e # k => dir'[e] = dir[e],
           writeCluster(dir[k].cluster, text),
           saved' = [saved EXCEPT ![name] = text], unsafe' = unsafe
    PROVE  NamesInv'
<1>1. k \in Live /\ k \in Entries /\ k \in LiveIn(dir) /\ dir[k].name = name
  BY WrittenFound DEF Live, LiveIn
<1>2. \A e \in LiveIn(dir') :
        /\ e \in LiveIn(dir) /\ dir'[e].name = dir[e].name
        /\ dir'[e].cluster = dir[e].cluster
        /\ e # k => dir'[e] = dir[e]
  BY DEF LiveIn
<1>3. Named(dir') /\ Unique(dir')
  BY <1>2 DEF NamesInv, Named, Unique
<1>4. \A e \in LiveIn(dir) : e # k /\ dir[e].name # "cut" => dir[e].name # name
  BY <1>1 DEF NamesInv, Unique
<1>5. /\ dir[k].cluster \in Clusters => data'[dir[k].cluster] = text
      /\ \A c \in Clusters : c # dir[k].cluster => data'[c] = data[c]
  BY FilesWrite
<1>6. saved \in [StoredNames -> Texts]
  BY TypeParts, Zenon DEF FilesInv
<1>7. ~unsafe => Apart(dir)
  BY Zenon DEF FilesInv
<1>8. ~unsafe /\ Holds(dir, data, saved) => Holds(dir', data', saved')
  <2> SUFFICES ASSUME ~unsafe, Holds(dir, data, saved), NEW e \in LiveIn(dir'),
                      dir'[e].size # 0, dir'[e].name # "cut", dir'[e].cluster \in Clusters
               PROVE  data'[dir'[e].cluster] = saved'[dir'[e].name]
    BY DEF Holds
  <2>1. /\ e \in LiveIn(dir) /\ e \in Live /\ dir'[e].name = dir[e].name
        /\ dir'[e].cluster = dir[e].cluster /\ dir[e].name \in StoredNames
    BY <1>2 DEF NamesInv, Named, Live, LiveIn
  <2>2. CASE e = k
    <3>1. saved'[name] = text
      BY <1>1, <1>6, <2>1, <2>2
    <3> QED BY <1>1, <1>5, <2>1, <2>2, <3>1
  <2>3. CASE e # k
    <3>1. dir'[e] = dir[e] /\ dir[e].name # name
      BY <1>2, <1>4, <2>1, <2>3
    <3>2. saved'[dir[e].name] = saved[dir[e].name]
      BY <1>6, <2>1, <3>1
    <3>3. dir[e].cluster # dir[k].cluster
      BY <1>1, <1>7, <2>1, <2>3 DEF Apart
    <3>4. data'[dir[e].cluster] = data[dir[e].cluster]
      BY <1>5, <2>1, <3>3
    <3>5. data[dir[e].cluster] = saved[dir[e].name]
      BY <2>1, <3>1 DEF Holds
    <3> QED BY <2>1, <3>2, <3>4, <3>5
  <2> QED BY <2>2, <2>3
<1> QED BY <1>3, <1>8, Zenon DEF NamesInv

LEMMA NamesStep == FilesInv /\ NamesInv /\ [Next]_vars => NamesInv'
<1> SUFFICES ASSUME FilesInv, NamesInv, [Next]_vars PROVE NamesInv'
  OBVIOUS
<1> DEFINE Goal == NamesInv'
<1>0. dir \in [Entries -> EntryType]
  BY TypeParts, Zenon DEF FilesInv
<1>1. ASSUME \A e \in LiveIn(dir') : e \in LiveIn(dir) /\ dir'[e] = dir[e],
             UNCHANGED <<data, saved>>, ~unsafe' => ~unsafe \/ LiveIn(dir') = {}
      PROVE  Goal
  <2>1. /\ Named(dir') /\ Unique(dir')
        /\ Holds(dir, data, saved) => Holds(dir', data', saved')
    BY <1>1, NamesKept DEF NamesInv
  <2>2. LiveIn(dir') = {} => Holds(dir', data', saved')
    BY DEF Holds
  <2> QED BY <1>1, <2>1, <2>2, Zenon DEF NamesInv
<1>2. ASSUME UNCHANGED <<dir, data, saved>>, ~unsafe' => ~unsafe PROVE Goal
  <2>1. \A e \in LiveIn(dir') : e \in LiveIn(dir) /\ dir'[e] = dir[e]
    BY <1>2
  <2> QED BY <1>1, <1>2, <2>1
<1>3. ASSUME format PROVE Goal
  <2>1. LiveIn(dir') = {}
    BY <1>3, EmptyDirectory DEF format
  <2> QED BY <2>1 DEF NamesInv, Named, Unique, Holds
<1>4. ASSUME formatStops PROVE Goal
  <2>1. PICK n \in 0 .. MAX_FILECOUNT :
          dir' = [e \in Entries |-> IF e < n THEN EmptyEntry ELSE dir[e]]
    BY <1>4 DEF formatStops
  <2>2. \A e \in LiveIn(dir') : e \in LiveIn(dir) /\ dir'[e] = dir[e]
    BY <2>1, EntryTyped DEF LiveIn
  <2>3. unsafe' = (\E e \in Entries : dir'[e].cluster # 0) /\ UNCHANGED <<data, saved>>
    BY <1>4, Zenon DEF formatStops
  <2>4. ~unsafe' => LiveIn(dir') = {}
    BY <2>3 DEF LiveIn
  <2> QED BY <1>1, <2>2, <2>3, <2>4
<1>5. ASSUME reboot PROVE Goal
  BY <1>2, <1>5, Zenon DEF reboot
<1>6. ASSUME mount PROVE Goal
  BY <1>2, <1>6, Zenon DEF mount
<1>7. ASSUME NEW name \in Names, createFile(name) PROVE Goal
  BY <1>7, NamesCreate
<1>8. ASSUME NEW name \in Names, createFileCut(name) PROVE Goal
  BY <1>2, <1>8, Zenon DEF createFileCut
<1>15. ASSUME NEW name \in Names, createFileFull(name) PROVE Goal
  BY <1>2, <1>15, Zenon DEF createFileFull
<1>16. ASSUME NEW name \in Names, createFileBehindTable(name) PROVE Goal
  BY <1>2, <1>16, Zenon DEF createFileBehindTable
<1>9. ASSUME NEW name \in Names, deleteFile(name) PROVE Goal
  <2>1. PICK k : k = deleted(name)
    OBVIOUS
  <2>2. k \in Entries /\ dir' = [dir EXCEPT ![k].cluster = 0, ![k].name = E5]
    BY <1>9, <2>1, DeletedFound DEF deleteFile
  <2>3. dir'[k].cluster = 0 /\ \A e \in Entries : e # k => dir'[e] = dir[e]
    BY <1>0, <2>2, ClearedEntry
  <2>4. \A e \in LiveIn(dir') : e \in LiveIn(dir) /\ dir'[e] = dir[e]
    BY <2>3 DEF LiveIn
  <2>5. UNCHANGED <<data, saved>> /\ (~unsafe' => ~unsafe)
    BY <1>9, Zenon DEF deleteFile
  <2> QED BY <1>1, <2>4, <2>5
<1>10. ASSUME NEW name \in Names, deleteFileCut(name) PROVE Goal
  BY <1>2, <1>10, Zenon DEF deleteFileCut
<1>11. ASSUME NEW name \in Names, NEW text \in Texts, writeFile(name, text) PROVE Goal
  <2>1. PICK k : k = written(name)
    OBVIOUS
  <2>2. /\ writes(name) /\ writeCluster(dir[k].cluster, text)
        /\ dir' = [dir EXCEPT ![k].size = sizeOf(text)]
        /\ saved' = [saved EXCEPT ![name] = text]
    BY <1>11, <2>1 DEF writeFile
  <2>3. unsafe' = unsafe
    BY <1>11, Zenon DEF writeFile
  <2>4. k \in Entries
    BY <2>1, <2>2, WrittenFound DEF Live
  <2>5. /\ dir' \in [Entries -> EntryType]
        /\ dir'[k].cluster = dir[k].cluster /\ dir'[k].name = dir[k].name
        /\ \A e \in Entries : e # k => dir'[e] = dir[e]
    BY <1>0, <2>2, <2>4, ResizedEntry
  <2> QED BY <2>1, <2>2, <2>3, <2>5, NamesWrite, Zenon
<1>12. ASSUME NEW name \in Names, NEW text \in Texts, writeFileCut(name, text) PROVE Goal
  <2>1. PICK k : k = written(name)
    OBVIOUS
  <2>2. /\ writes(name) /\ writeCluster(dir[k].cluster, text)
        /\ saved' = [saved EXCEPT ![name] = text] /\ dir' = dir
    BY <1>12, <2>1 DEF writeFileCut
  <2>3. unsafe' = unsafe
    BY <1>12, Zenon DEF writeFileCut
  <2> QED BY <1>0, <2>1, <2>2, <2>3, NamesWrite, Zenon
<1>13. ASSUME UNCHANGED vars PROVE Goal
  BY <1>2, <1>13, Zenon DEF vars
<1> HIDE DEF Goal
<1>14. Goal
  BY <1>3, <1>4, <1>5, <1>6, <1>7, <1>8, <1>9, <1>10, <1>11, <1>12, <1>13, <1>15,
     <1>16 DEF Next
<1> QED BY <1>14 DEF Goal

\* writeFile writes the cluster of the file with that name, which no other file
\* has: what was saved is read again, whatever happened to other files since.
THEOREM SavedIsReadAlways == Spec => []SavedIsRead
<1>1. Init => NamesInv
  BY NamesInit
<1>2. FilesInv /\ NamesInv /\ [Next]_vars => NamesInv'
  BY NamesStep
<1>3. NamesInv => SavedIsRead
  BY Zenon DEF NamesInv, Holds, SavedIsRead, readFile, Live, LiveIn
<1> QED BY <1>1, <1>2, <1>3, FilesInvariant, PTL DEF Spec
=============================================================================
