-------------------------------- MODULE Boot --------------------------------
(***************************************************************************)
(* From the built files to the kernel's Main: ImageMaker.c joins the files *)
(* and patches the sector counts into the boot sector, BootLoader.asm      *)
(* reads the image to low memory, the loader zeroes high memory, writes    *)
(* the page tables and copies the kernel over their upper part, and the    *)
(* kernel clears its .bss.                                                 *)
(*                                                                         *)
(* Memory is a function from addresses to what was stored there last. One  *)
(* address stands for the unit that is copied, and also holds one PTE.     *)
(***************************************************************************)
EXTENDS Integers, Sequences

CONSTANTS SECTOR_SIZE,
          SHORT_RANGE,              \* values of an unsigned short
          LoaderSizes, KernelSizes, BssSizes,
          PROTECTED_START,
          SCREEN_START, SCREEN_END, \* the text at 0xB8000
          PAGE_TABLE_START, PTABLE_BASE,
          IA32_START, IA32_END,     \* addresses
          PAGE_SIZE, PRESENT_PAGES, \* KERNEL_SIZE * 512 in the loader
          MAX_PAGES                 \* MAX_MEMORY_SIZE * TABLE_COUNT * 512

Sectors(size) == (size + SECTOR_SIZE - 1) \div SECTOR_SIZE

\* What nothing in the build checks: the image ends below the screen and its sectors
\* can be counted, the kernel lies behind the entries of the mapped pages and is
\* itself mapped.
ASSUME BootAssumption ==
    /\ {SECTOR_SIZE, PAGE_SIZE} \subseteq Nat \ {0}
    /\ {SHORT_RANGE, PROTECTED_START, SCREEN_START, SCREEN_END, PAGE_TABLE_START,
        PTABLE_BASE, IA32_START, IA32_END, PRESENT_PAGES, MAX_PAGES} \subseteq Nat
    /\ LoaderSizes \cup KernelSizes \cup BssSizes \subseteq Nat
    /\ \A l \in LoaderSizes, k \in KernelSizes, b \in BssSizes :
         LET sectors == Sectors(l) + Sectors(k)
         IN  /\ sectors < SHORT_RANGE
             /\ PROTECTED_START + sectors * SECTOR_SIZE <= SCREEN_START
             /\ IA32_START + Sectors(k) * SECTOR_SIZE <= IA32_END
             /\ IA32_START + k + b <= IA32_END
    /\ SCREEN_START <= SCREEN_END /\ SCREEN_END <= PAGE_TABLE_START
    /\ PAGE_TABLE_START <= PTABLE_BASE
    /\ PTABLE_BASE + PRESENT_PAGES <= IA32_START
    /\ IA32_END <= PRESENT_PAGES * PAGE_SIZE
    /\ PRESENT_PAGES <= MAX_PAGES

Addresses == 0 .. IA32_END - 1
ZERO   == <<"zero", 0>>
Junk   == <<"junk", 0>>
Absent == <<"absent", 0>>      \* a PTE without the present bit

VARIABLES
    step,       \* what runs next
    loader, kernel, bss,       \* sizes of the built files and of .bss
    image,      \* the disk behind the boot sector
    total, loaderCount,        \* BootInfo
    di,         \* register: sectors still to read
    lba,        \* sectors read (DAP)
    memory

bootVars == <<step, loader, kernel, bss, image, total, loaderCount, di, lba, memory>>

BootInit ==
    /\ step = "build"
    /\ loader \in LoaderSizes /\ kernel \in KernelSizes /\ bss \in BssSizes
    /\ image = <<>> /\ total = 0 /\ loaderCount = 0 /\ di = 0 /\ lba = 0
    /\ memory = [a \in Addresses |-> Junk]

unchangedBuild == UNCHANGED <<loader, kernel, bss, image, total, loaderCount>>

\* A file as it stands in the image: filled with zeros up to a whole sector.
appendFile(name, size) ==
    [i \in 1 .. Sectors(size) * SECTOR_SIZE |->
        IF i <= size THEN <<name, i - 1>> ELSE ZERO]

\* main and writeBootInfo. A missing file, an input that is the output, or a boot
\* sector without exactly one signature ends the build.
imageMaker ==
    /\ step = "build"
    /\ \/ /\ image' = appendFile("loader", loader) \o appendFile("kernel", kernel)
          /\ total' = (Sectors(loader) + Sectors(kernel)) % SHORT_RANGE
          /\ loaderCount' = Sectors(loader) % SHORT_RANGE
          /\ step' = "reset"
       \/ step' = "failed" /\ UNCHANGED <<image, total, loaderCount>>
    /\ UNCHANGED <<loader, kernel, bss, di, lba, memory>>

\* A message is printed: what else the area of the screen held counts as lost.
Puts(mem) == [a \in Addresses |-> IF a \in SCREEN_START .. SCREEN_END - 1 THEN Junk
                                  ELSE mem[a]]

\* A BIOS call that sets the carry flag ends in DiskError.
diskError(from) ==
    /\ step = from /\ step' = "failed"
    /\ memory' = Puts(memory)
    /\ unchangedBuild /\ UNCHANGED <<di, lba>>

ResetDisk ==
    /\ step = "reset" /\ step' = "read"
    /\ di' = total
    /\ memory' = Puts(memory)
    /\ unchangedBuild /\ UNCHANGED lba

\* One sector of the image, to the address the DAP has counted up to.
ReadDisk ==
    /\ step = "read" /\ di > 0
    /\ di' = di - 1 /\ lba' = lba + 1
    /\ memory' = [a \in Addresses |->
         LET i == a - PROTECTED_START - lba * SECTOR_SIZE
         IN  IF i \in 0 .. SECTOR_SIZE - 1 THEN image[lba * SECTOR_SIZE + i + 1]
             ELSE memory[a]]
    /\ UNCHANGED step /\ unchangedBuild

ReadEnd ==
    /\ step = "read" /\ di = 0 /\ step' = "zero"
    /\ memory' = Puts(memory)
    /\ unchangedBuild /\ UNCHANGED <<di, lba>>

\* The loader prints, zeroes, prints the outcome, and stops when memory does not hold
\* what it writes (how far it came no longer matters).
InitializeMemory ==
    /\ step = "zero"
    /\ \/ /\ memory' = [a \in Addresses |->
               IF a >= PAGE_TABLE_START THEN ZERO ELSE Puts(memory)[a]]
          /\ step' = "paging"
       \/ step' = "failed" /\ memory' = Puts(memory)
    /\ unchangedBuild /\ UNCHANGED <<di, lba>>

pageEntry(page) == IF page < PRESENT_PAGES THEN <<"pte", page>> ELSE Absent

\* Main prints what comes next. The upper levels map all of memory and are not shown.
InitializePaging ==
    /\ step = "paging" /\ step' = "copy"
    /\ memory' = [a \in Addresses |->
         IF a \in PTABLE_BASE .. PTABLE_BASE + MAX_PAGES - 1
         THEN pageEntry(a - PTABLE_BASE) ELSE Puts(memory)[a]]
    /\ unchangedBuild /\ UNCHANGED <<di, lba>>

\* findBootInfo finds the counts in the boot sector and the kernel's sectors are
\* copied, or it finds no signature and the loader stops.
copyIA32ModeImage ==
    /\ step = "copy"
    /\ \/ /\ step' = "bss"
          /\ memory' = [a \in Addresses |->
               LET i == a - IA32_START
               IN  IF i \in 0 .. SECTOR_SIZE * (total - loaderCount) - 1
                   THEN memory[PROTECTED_START + loaderCount * SECTOR_SIZE + i]
                   ELSE memory[a]]
       \/ step' = "failed" /\ memory' = Puts(memory)
    /\ unchangedBuild /\ UNCHANGED <<di, lba>>

\* Mutant of clearBss: it is left to the loader, which zeroed all memory once.
clearBssSkipped ==
    /\ step = "bss" /\ step' = "run"
    /\ unchangedBuild /\ UNCHANGED <<di, lba, memory>>

\* __bss_start is the end of the loaded file.
clearBss ==
    /\ step = "bss" /\ step' = "run"
    /\ memory' = [a \in Addresses |->
         IF a - IA32_START - kernel \in 0 .. bss - 1 THEN ZERO ELSE memory[a]]
    /\ unchangedBuild /\ UNCHANGED <<di, lba>>

BootNext ==
    \/ imageMaker \/ diskError("reset") \/ diskError("read")
    \/ ResetDisk \/ ReadDisk \/ ReadEnd
    \/ InitializeMemory \/ InitializePaging \/ copyIA32ModeImage \/ clearBss

BootSpec == BootInit /\ [][BootNext]_bootVars

-----------------------------------------------------------------------------
\* The kernel is copied over page table entries, but never over one the processor
\* needs for the tables, the loader or the kernel itself: these pages are mapped
\* one to one from the moment paging can be switched on.
KernelMapped ==
    step \in {"copy", "bss", "run"} =>
        \A a \in Addresses :
            memory[PTABLE_BASE + a \div PAGE_SIZE] = <<"pte", a \div PAGE_SIZE>>

\* kernel/Main.c: the loader's page tables cover the kernel area, so .bss is
\* garbage unless cleared. When Main goes on, the kernel's file is where it was
\* linked, byte for byte, its .bss is zero, and all of it is mapped.
KernelReady ==
    /\ KernelMapped
    /\ step = "run" =>
         /\ \A i \in 0 .. kernel - 1 : memory[IA32_START + i] = <<"kernel", i>>
         /\ \A i \in 0 .. bss - 1 : memory[IA32_START + kernel + i] = ZERO
=============================================================================
