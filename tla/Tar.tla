------------------------------- MODULE Tar --------------------------------
(***************************************************************************)
(* The read-only tar file system (system/include/devices/tar.h: TarHeader, *)
(* TarFile, TarFS), the file system calls (system/syscall.cpp: open, seek, *)
(* read and alloc_proc_filehandle) and the two programs that read files:   *)
(* the kernel's wallpaper loader load_background_tga (gui.cpp), which      *)
(* calls TarFS and TarFile directly, and the user-mode ELF loader          *)
(* (elfparser.h: elf_exec, loadModule, loadNeededLibs), which goes through *)
(* the system calls.                                                       *)
(*                                                                         *)
(* A byte of the disk is identified by its position <<sector, index>>, so  *)
(* a read is checked by where its bytes come from.  BYTES_PER_SECTOR is    *)
(* the constant SECT.  The archive on the disk is laid out by tar; its     *)
(* headers carry the size as octal digits, which TarFS decodes with        *)
(* parse_octal.  syscall_open calls sti(), so a thread may be preempted    *)
(* between allocating a TarFile, filling it in and storing its handle;     *)
(* seek and read are single steps (a TarFile is only shared by threads     *)
(* that already share a slot, which the properties below rule out first).  *)
(***************************************************************************)
EXTENDS Integers, Sequences, SequencesExt, FiniteSets

CONSTANTS
    SECT,            \* BYTES_PER_SECTOR
    Archives,        \* the disks: tar entries in order, [name, size]
    MaxFiles,        \* TarFS::max_files
    MAX_PROC_FILES,  \* length of Process::files
    Threads,         \* threads that read files
    ProcOf,          \* the process of each thread
    Kind,            \* "tga" (kernel wallpaper loader) or "elf"
    Loads,           \* the names each thread opens, in order
    ElfImage,        \* per name: e_phoff, e_phnum, LOAD segments, PT_DYNAMIC
    EHDR_LEN,        \* sizeof(Elf32_Ehdr)
    PHDR_LEN,        \* sizeof(Elf32_Phdr)
    TGA_HDR_LEN,     \* sizeof(TGAHeader)
    TGA_CHUNK        \* sizeof(raw_data) in load_background_tga

NULLF == -1          \* nullptr in a File* slot
DEV == -2            \* the stdin/stdout/stderr files set by new_user_process
root_sector == 1
Slots == 0..(MaxFiles - 1)
Handles == 0..(MAX_PROC_FILES - 1)
NUL == -1            \* a character that is not a digit
NoRead == [ok |-> FALSE, bytes |-> <<>>]
Final == {"done", "frozen", "fault"}

VARIABLES
    archive,                 \* the disk's tar entries
    fsize, hdr, cur, csec,   \* TarFile size, header_sector, cursor, current_sector
    files,                   \* Process::files
    pc, tfile, hf, fh,       \* each thread: its step, its File*, scanned and returned handle
    li, si, ncalls,          \* index into Loads, LOAD segment index, calls made
    fpos,                    \* the position the File contract gives the caller
    last                     \* the caller's last read: what it got and what the contract says

tarfs == <<fsize, hdr, cur, csec>>
caller == <<pc, tfile, hf, fh, li, si, ncalls, fpos, last>>
vars == <<archive, tarfs, files, caller>>

(***************************************************************************)
(* The disk: what tar writes.                                              *)
(***************************************************************************)
RECURSIVE ToOctal(_)
ToOctal(n) == IF n < 8 THEN <<n>> ELSE ToOctal(n \div 8) \o <<n % 8>>

SectorsOf(n) == (n + SECT - 1) \div SECT

\* tar's layout: each header is followed by its data sectors
RECURSIVE HeaderAt(_, _)
HeaderAt(a, k) ==
    IF k = 1 THEN root_sector
    ELSE HeaderAt(a, k - 1) + 1 + SectorsOf(a[k - 1].size)

\* an archive with each entry's header sector
Placed(a) == [k \in DOMAIN a |-> [name |-> a[k].name, size |-> a[k].size,
                                   at |-> HeaderAt(a, k)]]

HeaderSector(k) == archive[k].at
DiskEnd == HeaderSector(Len(archive)) + 1 + SectorsOf(archive[Len(archive)].size)

\* the header sector as TarHeader: name and the size field; a sector that is
\* no header reads as data (a name no query has) or, past the archive, zeros
DiskHeader(sec) ==
    IF \E k \in DOMAIN archive : HeaderSector(k) = sec
    THEN LET k == CHOOSE k \in DOMAIN archive : HeaderSector(k) = sec
         IN [name |-> archive[k].name, size |-> ToOctal(archive[k].size) \o <<NUL>>]
    ELSE IF sec < DiskEnd THEN [name |-> <<NUL>>, size |-> <<NUL>>]
    ELSE [name |-> <<>>, size |-> <<NUL>>]

\* the entry a name denotes in the File contract: the first with that name
Entry(n) == CHOOSE k \in DOMAIN archive :
                archive[k].name = n /\ \A j \in 1..(k - 1) : archive[j].name # n
InArchive(n) == \E k \in DOMAIN archive : archive[k].name = n

\* the bytes at offsets from..from+len-1 of the file whose header is at h
FileBytes(h, from, len) ==
    [i \in 1..len |-> <<h + 1 + (from + i - 1) \div SECT, (from + i - 1) % SECT>>]

(***************************************************************************)
(* TarHeader and TarFS lookups.                                            *)
(***************************************************************************)
\* the uint result cannot wrap: a 12-character field holds at most 11 digits
\* before its NUL, and the model's sizes are small
RECURSIVE OctalFrom(_, _, _, _)
OctalFrom(str, len, i, result) ==
    IF i < len /\ i < Len(str) /\ str[i + 1] \in 0..9
    THEN OctalFrom(str, len, i + 1, result * 8 + str[i + 1])
    ELSE result

parse_octal(str, len) == OctalFrom(str, len, 0, 0)

get_size(h) == parse_octal(h.size, 12)

\* strncmp(tar_header.name, name, strnlen(name)) == 0
NameMatches(hname, name) == IsPrefix(name, hname)

RECURSIVE FindFrom(_, _)
FindFrom(sec, name) ==
    LET h == DiskHeader(sec) IN
    IF h.name = <<>> THEN 0
    ELSE IF NameMatches(h.name, name) THEN sec
    ELSE FindFrom(sec + 1 + (get_size(h) + SECT - 1) \div SECT, name)

find_file_sector(name) == FindFrom(root_sector, name)

\* alloc_file: the first TarFile whose size is 0, or nullptr
alloc_file == IF \E i \in Slots : fsize[i] = 0
              THEN CHOOSE i \in Slots : fsize[i] = 0 /\ \A j \in 0..(i - 1) : fsize[j] # 0
              ELSE NULLF

(***************************************************************************)
(* TarFile::read after its EOF check: the bytes copied, current_sector     *)
(* after.  The unaligned head, the whole sectors, the unaligned tail.      *)
(***************************************************************************)
BytesAt(sec, from, n) == [i \in 1..n |-> <<sec, from + i - 1>>]
WholeSectors(sec, k) == [i \in 1..(k * SECT) |-> <<sec + (i - 1) \div SECT, (i - 1) % SECT>>]

\* (mutant) no current_sector++ after the unaligned head
ReadOut_nohead(cs, cursor, length) ==
    LET m    == cursor % SECT
        btr  == IF m # 0 THEN (IF m + length > SECT THEN SECT ELSE m + length) - m ELSE 0
        len1 == length - btr
        cs2  == cs + len1 \div SECT
    IN [bytes |-> BytesAt(cs, m, btr) \o WholeSectors(cs, len1 \div SECT)
                  \o BytesAt(cs2, 0, len1 % SECT),
        cs |-> cs2]

ReadOut(cs, cursor, length) ==
    LET m    == cursor % SECT
        btr  == IF m # 0 THEN (IF m + length > SECT THEN SECT ELSE m + length) - m ELSE 0
        cs1  == IF m # 0 THEN cs + 1 ELSE cs
        len1 == length - btr
        cs2  == cs1 + len1 \div SECT
    IN [bytes |-> BytesAt(cs, m, btr) \o WholeSectors(cs1, len1 \div SECT)
                  \o BytesAt(cs2, 0, len1 % SECT),
        cs |-> cs2]

\* (mutant) read past the end returns -1, as File's default read does
ReadResult_eofneg(s, length) ==
    IF cur[s] + length > fsize[s] THEN NoRead
    ELSE [ok |-> TRUE, bytes |-> ReadOut(csec[s], cur[s], length).bytes]

\* TarFile::read on slot s: what it returns (0 past the end, else length)
ReadResult(s, length) ==
    IF cur[s] + length > fsize[s] THEN [ok |-> TRUE, bytes |-> <<>>]
    ELSE [ok |-> TRUE, bytes |-> ReadOut(csec[s], cur[s], length).bytes]

\* (mutant) the EOF check is missing
TarFileRead_noeof(s, length) ==
    /\ csec' = [csec EXCEPT ![s] = ReadOut(csec[s], cur[s], length).cs]
    /\ cur' = [cur EXCEPT ![s] = cur[s] + length]

TarFileRead(s, length) ==
    IF cur[s] + length > fsize[s] THEN UNCHANGED <<cur, csec>>
    ELSE /\ csec' = [csec EXCEPT ![s] = ReadOut(csec[s], cur[s], length).cs]
         /\ cur' = [cur EXCEPT ![s] = cur[s] + length]

\* the int a read returns
ReadLen(r) == IF r.ok THEN Len(r.bytes) ELSE -1

\* TarFile::seek: 0 and no change outside 0..size-1
SeekResult(s, offset) == IF offset < 0 \/ offset >= fsize[s] THEN 0 ELSE 1

TarFileSeek(s, offset) ==
    IF offset < 0 \/ offset >= fsize[s] THEN UNCHANGED <<cur, csec>>
    ELSE /\ cur' = [cur EXCEPT ![s] = offset]
         /\ csec' = [csec EXCEPT ![s] = hdr[s] + 1 + offset \div SECT]

(***************************************************************************)
(* The callers.                                                            *)
(***************************************************************************)
Procs == Range(ProcOf)
Target(t) == Loads[t][li[t]]
Image(t) == ElfImage[Target(t)]

\* what the File contract gives a read of len at the caller's position: -1
\* on a handle whose open failed, nothing across the end, else the bytes
Want(t, len) ==
    IF ~InArchive(Target(t)) THEN NoRead
    ELSE LET k == Entry(Target(t)) IN
         IF fpos[t] + len > archive[k].size THEN [ok |-> TRUE, bytes |-> <<>>]
         ELSE [ok |-> TRUE, bytes |-> FileBytes(HeaderSector(k), fpos[t], len)]

ContractRead(t, len) ==
    fpos' = [fpos EXCEPT ![t] =
                IF InArchive(Target(t)) /\ fpos[t] + len <= archive[Entry(Target(t))].size
                THEN fpos[t] + len ELSE fpos[t]]

ContractSeek(t, offset) ==
    fpos' = [fpos EXCEPT ![t] =
                IF InArchive(Target(t)) /\ 0 <= offset
                   /\ offset < archive[Entry(Target(t))].size
                THEN offset ELSE fpos[t]]

\* a read of the TarFile s (NULLF: syscall_read's -1 for a null file)
ReadFile(t, s, len) ==
    /\ IF s = NULLF THEN UNCHANGED <<cur, csec>> ELSE TarFileRead(s, len)
    /\ last' = [last EXCEPT ![t] =
                   [got |-> IF s = NULLF THEN NoRead ELSE ReadResult(s, len),
                    want |-> Want(t, len)]]
    /\ ContractRead(t, len)

\* get_file_by_handle
FileOf(t) == IF fh[t] \in Handles THEN files[ProcOf[t]][fh[t]] ELSE NULLF

\* syscall_seek's return value
SysSeekResult(t, offset) == IF FileOf(t) = NULLF THEN -1 ELSE SeekResult(FileOf(t), offset)

SysSeek(t, offset) ==
    /\ IF FileOf(t) = NULLF THEN UNCHANGED <<cur, csec>>
       ELSE TarFileSeek(FileOf(t), offset)
    /\ ContractSeek(t, offset)

SysRead(t, len) == ReadFile(t, FileOf(t), len)

BootDone(t) == Kind[t] # "tga" => \A u \in Threads : Kind[u] = "tga" => pc[u] \in Final
TypeOK ==
    /\ fsize \in [Slots -> Nat] /\ hdr \in [Slots -> Nat]
    /\ csec \in [Slots -> Nat]
    /\ cur \in [Slots -> Nat] /\ \A s \in Slots : cur[s] <= fsize[s]
    /\ files \in [Procs -> [Handles -> Slots \cup {NULLF, DEV}]]
    /\ tfile \in [Threads -> Slots \cup {NULLF}]
    /\ fh \in [Threads -> Handles \cup {-1}]
    /\ pc \in [Threads -> {"open", "find", "scan", "store", "ehdr", "phseek",
                           "phread", "segseek", "segread", "hdr", "chunk",
                           "call"} \cup Final]

Init ==
    /\ archive \in {Placed(a) : a \in Archives}
    /\ fsize = [s \in Slots |-> 0] /\ hdr = [s \in Slots |-> 0]
    /\ cur = [s \in Slots |-> 0] /\ csec = [s \in Slots |-> 0]
    /\ files = [p \in Procs |-> [f \in Handles |-> IF f < 3 THEN DEV ELSE NULLF]]
    /\ pc = [t \in Threads |-> "open"]
    /\ tfile = [t \in Threads |-> NULLF]
    /\ hf = [t \in Threads |-> -1] /\ fh = [t \in Threads |-> -1]
    /\ li = [t \in Threads |-> 1] /\ si = [t \in Threads |-> 1]
    /\ ncalls = [t \in Threads |-> 0] /\ fpos = [t \in Threads |-> 0]
    /\ last = [t \in Threads |-> [got |-> NoRead, want |-> NoRead]]

(***************************************************************************)
(* Opening: TarFS::open (alloc_file; find_file_sector, size and seek(0) or *)
(* free_file), then for the system call alloc_proc_filehandle's scan and   *)
(* store.  The wallpaper loader dereferences a null TarFS::open result.    *)
(***************************************************************************)
Opened(t, file) ==
    pc' = [pc EXCEPT ![t] = IF Kind[t] # "tga" THEN "scan"
                            ELSE IF file = NULLF THEN "fault" ELSE "hdr"]

Open(t) ==
    /\ pc[t] = "open" /\ BootDone(t)
    /\ tfile' = [tfile EXCEPT ![t] = alloc_file]
    /\ IF alloc_file = NULLF THEN Opened(t, NULLF) ELSE pc' = [pc EXCEPT ![t] = "find"]
    /\ fpos' = [fpos EXCEPT ![t] = 0]
    /\ UNCHANGED <<tarfs, files, hf, fh, li, si, ncalls, last>>

Find(t) ==
    /\ pc[t] = "find"
    /\ \E h \in {find_file_sector(Target(t))} :   \* the lookup, evaluated once
       LET s == tfile[t]
           n == get_size(DiskHeader(h))
       IN /\ hdr' = [hdr EXCEPT ![s] = h]
          /\ IF h = 0
             THEN /\ tfile' = [tfile EXCEPT ![t] = NULLF]
                  /\ Opened(t, NULLF)
                  /\ UNCHANGED <<fsize, cur, csec>>
             ELSE /\ fsize' = [fsize EXCEPT ![s] = n]
                  /\ IF 0 < n
                     THEN /\ cur' = [cur EXCEPT ![s] = 0]
                          /\ csec' = [csec EXCEPT ![s] = h + 1]
                     ELSE UNCHANGED <<cur, csec>>
                  /\ Opened(t, s)
                  /\ UNCHANGED tfile
    /\ UNCHANGED <<files, hf, fh, li, si, ncalls, fpos, last>>

Scan(t) ==
    /\ pc[t] = "scan"
    /\ LET free == {f \in Handles : files[ProcOf[t]][f] = NULLF}
       IN hf' = [hf EXCEPT ![t] = IF free = {} THEN -1
                                  ELSE CHOOSE f \in free : \A g \in free : f <= g]
    /\ pc' = [pc EXCEPT ![t] = "store"]
    /\ UNCHANGED <<tarfs, files, tfile, fh, li, si, ncalls, fpos, last>>

Store(t) ==
    /\ pc[t] = "store"
    /\ IF hf[t] = -1 THEN UNCHANGED files
       ELSE files' = [files EXCEPT ![ProcOf[t]][hf[t]] = tfile[t]]
    /\ fh' = [fh EXCEPT ![t] = hf[t]]
    /\ pc' = [pc EXCEPT ![t] = IF Kind[t] = "elf" THEN "ehdr" ELSE "call"]
    /\ UNCHANGED <<tarfs, tfile, hf, li, si, ncalls, fpos, last>>

(***************************************************************************)
(* The ELF loader on each image of Loads (the executable, then each        *)
(* DT_NEEDED library): readElfHeader, the program-header seek (a failed    *)
(* seek freezes), the program headers, a seek and a read per LOAD segment, *)
(* then findDynamicSection, which freezes when there is no PT_DYNAMIC.     *)
(* The header fields are taken from ElfImage, the file's contents.         *)
(***************************************************************************)
NextImage(t) ==
    IF ~Image(t).dynamic THEN pc' = [pc EXCEPT ![t] = "frozen"] /\ UNCHANGED li
    ELSE IF li[t] < Len(Loads[t])
    THEN pc' = [pc EXCEPT ![t] = "open"] /\ li' = [li EXCEPT ![t] = li[t] + 1]
    ELSE pc' = [pc EXCEPT ![t] = "done"] /\ UNCHANGED li

ElfHeader(t) ==
    /\ pc[t] = "ehdr"
    /\ SysRead(t, EHDR_LEN)
    /\ pc' = [pc EXCEPT ![t] = "phseek"]
    /\ UNCHANGED <<hdr, fsize, files, tfile, hf, fh, li, si, ncalls>>

PhdrSeek(t) ==
    /\ pc[t] = "phseek"
    /\ SysSeek(t, Image(t).phoff)
    /\ pc' = [pc EXCEPT ![t] = IF SysSeekResult(t, Image(t).phoff) = 0
                               THEN "frozen" ELSE "phread"]
    /\ UNCHANGED <<hdr, fsize, files, tfile, hf, fh, li, si, ncalls, last>>

PhdrRead(t) ==
    /\ pc[t] = "phread"
    /\ SysRead(t, Image(t).phnum * PHDR_LEN)
    /\ si' = [si EXCEPT ![t] = 1]
    /\ IF Image(t).loads = <<>> THEN NextImage(t)
       ELSE pc' = [pc EXCEPT ![t] = "segseek"] /\ UNCHANGED li
    /\ UNCHANGED <<hdr, fsize, files, tfile, hf, fh, ncalls>>

SegmentSeek(t) ==
    /\ pc[t] = "segseek"
    /\ SysSeek(t, Image(t).loads[si[t]].off)
    /\ pc' = [pc EXCEPT ![t] = "segread"]
    /\ UNCHANGED <<hdr, fsize, files, tfile, hf, fh, li, si, ncalls, last>>

SegmentRead(t) ==
    /\ pc[t] = "segread"
    /\ SysRead(t, Image(t).loads[si[t]].len)
    /\ si' = [si EXCEPT ![t] = si[t] + 1]
    /\ IF si[t] = Len(Image(t).loads) THEN NextImage(t)
       ELSE pc' = [pc EXCEPT ![t] = "segseek"] /\ UNCHANGED li
    /\ UNCHANGED <<hdr, fsize, files, tfile, hf, fh, ncalls>>

(***************************************************************************)
(* load_background_tga: the header, then chunks until a read returns 0.    *)
(***************************************************************************)
TgaHeader(t) ==
    /\ pc[t] = "hdr"
    /\ ReadFile(t, tfile[t], TGA_HDR_LEN)
    /\ pc' = [pc EXCEPT ![t] = "chunk"]
    /\ UNCHANGED <<hdr, fsize, files, tfile, hf, fh, li, si, ncalls>>

TgaChunk(t) ==
    /\ pc[t] = "chunk"
    /\ ReadFile(t, tfile[t], TGA_CHUNK)
    /\ pc' = [pc EXCEPT ![t] = IF ReadLen(ReadResult(tfile[t], TGA_CHUNK)) = 0
                               THEN "done" ELSE "chunk"]
    /\ UNCHANGED <<hdr, fsize, files, tfile, hf, fh, li, si, ncalls>>

Step(t) ==
    /\ UNCHANGED archive
    /\ \/ Open(t) \/ Find(t) \/ Scan(t) \/ Store(t)
       \/ ElfHeader(t) \/ PhdrSeek(t) \/ PhdrRead(t) \/ SegmentSeek(t) \/ SegmentRead(t)
       \/ TgaHeader(t) \/ TgaChunk(t)

\* every program has stopped
Quiescent == (\A t \in Threads : pc[t] \in Final) /\ UNCHANGED vars

Next == (\E t \in Threads : Step(t)) \/ Quiescent

\* the timer's round robin runs every RUNNING thread again
Fairness == \A t \in Threads : WF_vars(Step(t))

Spec == Init /\ [][Next]_vars /\ Fairness

(***************************************************************************)
(* Properties                                                              *)
(***************************************************************************)

\* The File contract for TarFile::read through every caller: each read
\* returns exactly the bytes at the caller's position of the file it named
\* (nothing across the end, -1 when the open failed).  TarFS::open's name
\* match, alloc_file's slot choice, parse_octal, seek and read's sector
\* arithmetic all have to be right for this to hold.
ReadsMatchFile == \A t \in Threads : last[t].got = last[t].want

\* Who holds a TarFile: a handle in a process table, a thread between
\* alloc_file and storing the handle, or the wallpaper loader's img_file.
HandleHolders(s) == {<<p, f>> \in Procs \X Handles : files[p][f] = s}
ThreadHolders(s) == {t \in Threads : tfile[t] = s
                        /\ (pc[t] \in {"find", "scan", "store"} \/ Kind[t] = "tga")}
NumHolders(s) == Cardinality(HandleHolders(s)) + Cardinality(ThreadHolders(s))

\* alloc_file hands out each TarFile to one holder, and no open TarFile is
\* left without one (alloc_proc_filehandle's -1 on a full table, or two
\* opens racing through alloc_file before either sets size).
SlotsAccounted ==
    \A s \in Slots : NumHolders(s) <= 1 /\ (fsize[s] > 0 => NumHolders(s) = 1)

\* Every loader runs to the end: the wallpaper loader's loop ends and the ELF
\* loader neither freezes nor faults on a well-formed archive.
LoadersFinish == <>(\A t \in Threads : pc[t] = "done")
====
