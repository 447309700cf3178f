------------------------------- MODULE ElfLoader -------------------------------
(***************************************************************************)
(* elf64-loader: find a section of an ELF file, map the segments of the    *)
(* file, enter the section.  A file is what can be read of it: its headers *)
(* in order, each there or cut off.  Offsets and addresses count bytes;    *)
(* memory is a function from page numbers to what is mapped there.         *)
(***************************************************************************)
EXTENDS Integers, Sequences

CONSTANTS
  Files,        (* files the loader may be given                           *)
  Names,        (* names of sections                                       *)
  Target,       (* the section asked for                                   *)
  Unreadable,   (* the name of a section that the file is too short for    *)
  PageSize,     (* 0x1000                                                  *)
  LastPage,     (* the last page of the user's address space               *)
  WordMod,      (* 2^64                                                    *)
  Own,          (* pages that are taken before: the loader, its libraries  *)
  NoPage, OwnPage, NoSection

EIO == 5
EINVAL == 22
ENOENT == 2

Flags == {"R", "W", "X"}

(* A page of the file in memory, and its rights.                           *)
Page == [page : Int, prot : SUBSET Flags]

Section == [name : Names \union {Unreadable}, exec : BOOLEAN, addr : Nat, offset : Nat]
Segment == [load : BOOLEAN, vaddr : Nat, offset : Nat, filesz : Nat, memsz : Nat, flags : SUBSET Flags]

(* shnum, strndx and phnum are what the header says; sections and segments *)
(* the headers the file is long enough for.                                *)
File ==
  [argc : Nat, opens : BOOLEAN, header : {"short", "wrong", "good"},
   shnum : Nat, strndx : Nat, phnum : Nat, sections : Seq(Section), segments : Seq(Segment)]

ASSUME ElfAssumption ==
  /\ PageSize \in Nat \ {0} /\ LastPage \in Nat /\ WordMod \in Nat
  /\ (LastPage + 1) * PageSize < WordMod
  /\ Own \subseteq 0 .. LastPage
  /\ NoPage # OwnPage /\ NoPage \notin Page /\ OwnPage \notin Page
  /\ Target \in Names /\ Unreadable \notin Names
  /\ \A f \in Files : f \in File

VARIABLES
  file,
  pc,       (* where main is                                               *)
  i,        (* the loop variable of find_section and of load_headers       *)
  section,  (* target_section_header                                       *)
  memory,   (* page |-> what is mapped: NoPage, OwnPage, or a page of the  *)
            (*          file with its protection                           *)
  status    (* what main returns                                           *)

vars == <<file, pc, i, section, memory, status>>

Init ==
  /\ file \in Files
  /\ pc = "open" /\ i = 0 /\ section = NoSection /\ status = 0
  /\ memory = [p \in 0 .. LastPage |-> IF p \in Own THEN OwnPage ELSE NoPage]

Return(code) == pc' = "returned" /\ status' = code

Goto(l) == pc' = l /\ UNCHANGED status

(* The arguments of main, open_file and read_header. *)
WrongUsage ==
  /\ pc = "open" /\ file.argc # 3
  /\ Return(EINVAL)
  /\ UNCHANGED <<file, i, section, memory>>

OpenFile ==
  /\ pc = "open" /\ file.argc = 3
  /\ IF file.opens THEN Goto("header") ELSE Return(ENOENT)
  /\ UNCHANGED <<file, i, section, memory>>

ReadHeader ==
  /\ pc = "header"
  /\ CASE file.header = "short" -> Return(EIO)
       [] file.header = "wrong" -> Return(EINVAL)
       [] file.header = "good"  -> Goto("names")
  /\ UNCHANGED <<file, i, section, memory>>
-------------------------------------------------------------------------------
(* find_section *)
HasSection(n) == n < Len(file.sections)
SectionAt(n) == file.sections[n + 1]

GetNamesHeader ==
  /\ pc = "names"
  /\ IF HasSection(file.strndx) THEN Goto("search") ELSE Return(EIO)
  /\ UNCHANGED <<file, i, section, memory>>

Searching == pc = "search" /\ i < file.shnum

SectionCutOff ==
  /\ Searching /\ ~HasSection(i)
  /\ Return(EIO)
  /\ UNCHANGED <<file, i, section, memory>>

(* A name that cannot be read is another name: check_names_equals leaves   *)
(* res at 1, and nobody looks at what it returns.                          *)
NextSection ==
  /\ Searching /\ HasSection(i) /\ SectionAt(i).name # Target
  /\ i' = i + 1
  /\ UNCHANGED <<file, pc, section, memory, status>>

(* Mutant: sh_flags is not looked at. *)
FoundAnySection ==
  /\ Searching /\ HasSection(i) /\ SectionAt(i).name = Target
  /\ section' = SectionAt(i) /\ i' = 0 /\ Goto("load")
  /\ UNCHANGED <<file, memory>>

FoundSection ==
  /\ Searching /\ HasSection(i) /\ SectionAt(i).name = Target /\ SectionAt(i).exec
  /\ section' = SectionAt(i) /\ i' = 0 /\ Goto("load")
  /\ UNCHANGED <<file, memory>>

FoundData ==
  /\ Searching /\ HasSection(i) /\ SectionAt(i).name = Target /\ ~SectionAt(i).exec
  /\ Return(EINVAL)
  /\ UNCHANGED <<file, i, section, memory>>

NoSuchSection ==
  /\ pc = "search" /\ i = file.shnum
  /\ Return(EINVAL)
  /\ UNCHANGED <<file, i, section, memory>>
-------------------------------------------------------------------------------
(* load_headers *)
SegmentAt(n) == file.segments[n + 1]

Loading == pc = "load" /\ i < file.phnum

SegmentCutOff ==
  /\ Loading /\ i >= Len(file.segments)
  /\ Return(EIO)
  /\ UNCHANGED <<file, i, section, memory>>

HasSegment == Loading /\ i < Len(file.segments)

(* Mutant: the loop does not go on. *)
SkipSegmentStays ==
  /\ HasSegment /\ ~SegmentAt(i).load
  /\ UNCHANGED vars

SkipSegment ==
  /\ HasSegment /\ ~SegmentAt(i).load
  /\ i' = i + 1
  /\ UNCHANGED <<file, pc, section, memory, status>>

(* Mutant: the length is not extended by what the address is rounded down. *)
PagesOfUnextended(s) ==
  LET first == s.vaddr \div PageSize
      mem == s.memsz % WordMod
  IN first .. (first + ((mem + PageSize - 1) \div PageSize) - 1)

(* The pages mmap is asked for: the address rounded down, the length       *)
(* extended by as much, in 64 bits, and rounded up by the kernel.          *)
PagesOf(s) ==
  LET first == s.vaddr \div PageSize
      mem == (s.memsz + (s.vaddr % PageSize)) % WordMod
  IN first .. (first + ((mem + PageSize - 1) \div PageSize) - 1)

(* Mutant: MAP_FIXED only. *)
MappableOver(s) ==
  /\ PagesOf(s) # {} /\ PagesOf(s) \subseteq 0 .. LastPage
  /\ s.offset % PageSize = s.vaddr % PageSize

(* mmap refuses an empty mapping, one outside of the address space, an     *)
(* offset inside of a page, and, for MAP_FIXED_NOREPLACE, pages that are   *)
(* taken.                                                                  *)
Mappable(s) ==
  /\ PagesOf(s) # {} /\ PagesOf(s) \subseteq 0 .. LastPage
  /\ s.offset % PageSize = s.vaddr % PageSize
  /\ \A p \in PagesOf(s) : memory[p] = NoPage

Mapped(s, p) ==
  [page |-> (s.offset \div PageSize) + (p - (s.vaddr \div PageSize)), prot |-> s.flags]

MapSegment ==
  /\ HasSegment /\ SegmentAt(i).load /\ Mappable(SegmentAt(i))
  /\ memory' = [p \in 0 .. LastPage |->
                  IF p \in PagesOf(SegmentAt(i)) THEN Mapped(SegmentAt(i), p) ELSE memory[p]]
  /\ i' = i + 1
  /\ UNCHANGED <<file, pc, section, status>>

MapFails ==
  /\ HasSegment /\ SegmentAt(i).load /\ ~Mappable(SegmentAt(i))
  /\ Return(EIO)
  /\ UNCHANGED <<file, i, section, memory>>
-------------------------------------------------------------------------------
(* program_start.  What is entered may come back; it is not the loader's.  *)
(* A jump to anything but an executable page of a segment goes astray.     *)
Executable(a) ==
  /\ a \div PageSize \in 0 .. LastPage
  /\ memory[a \div PageSize] \notin {NoPage, OwnPage}
  /\ "X" \in memory[a \div PageSize].prot

Enter ==
  /\ pc = "load" /\ i = file.phnum
  /\ Goto(IF Executable(section.addr) THEN "entered" ELSE "astray")
  /\ UNCHANGED <<file, i, section, memory>>

ComeBack ==
  /\ pc = "entered"
  /\ Return(0)
  /\ UNCHANGED <<file, i, section, memory>>

Next ==
  \/ WrongUsage \/ OpenFile \/ ReadHeader \/ GetNamesHeader
  \/ SectionCutOff \/ NextSection \/ FoundSection \/ FoundData \/ NoSuchSection
  \/ SegmentCutOff \/ SkipSegment \/ MapSegment \/ MapFails
  \/ Enter \/ ComeBack

Spec == Init /\ [][Next]_vars
FairSpec == Spec /\ WF_vars(Next)
-------------------------------------------------------------------------------
(* Properties.                                                             *)

(* The variables keep their types.                                         *)
TypeOK ==
  /\ file \in File
  /\ pc \in {"open", "header", "names", "search", "load", "entered", "astray", "returned"}
  /\ i \in Nat
  /\ section \in Section \union {NoSection}
  /\ memory \in [0 .. LastPage -> Page \union {NoPage, OwnPage}]
  /\ status \in {0, EIO, EINVAL, ENOENT}

FromFile(a) ==
  /\ a \div PageSize \in 0 .. LastPage
  /\ memory[a \div PageSize] \notin {NoPage, OwnPage}

ByteOfFile(a) == memory[a \div PageSize].page * PageSize + (a % PageSize)

LoadSegments == {n \in 1 .. Len(file.segments) : n <= file.phnum /\ file.segments[n].load}

(* The address space ends before the segment does.                         *)
Wraps(s) == s.vaddr + s.memsz >= WordMod

(* When the section is entered, every loadable segment is in memory as the *)
(* file describes it: each of its memsz bytes is mapped with its rights,   *)
(* and each of its filesz bytes is the byte of the file at that place      *)
(* (memory_allocation rounds three numbers down and up to make it so).     *)
SegmentsLoaded ==
  pc = "entered" =>
    \A n \in LoadSegments :
      LET s == file.segments[n]
      IN ~Wraps(s) =>
           \A k \in 0 .. s.memsz - 1 :
             /\ FromFile(s.vaddr + k)
             /\ memory[(s.vaddr + k) \div PageSize].prot = s.flags
             /\ k < s.filesz => ByteOfFile(s.vaddr + k) = s.offset + k

SharePage(s, t) ==
  \E a \in s.vaddr .. s.vaddr + s.memsz - 1, b \in t.vaddr .. t.vaddr + t.memsz - 1 :
    a \div PageSize = b \div PageSize

(* Segments of which two have bytes on one page, or one has bytes on a page*)
(* of the loader itself, are never entered: one of them could not have its *)
(* own bytes and rights (MAP_FIXED_NOREPLACE in memory_allocation).        *)
SharedPagesAreRefused ==
  pc = "entered" =>
    \A m, n \in LoadSegments :
      LET s == file.segments[m] t == file.segments[n]
      IN ~Wraps(s) /\ ~Wraps(t) =>
           /\ m # n => ~SharePage(s, t)
           /\ \A k \in 0 .. s.memsz - 1 : (s.vaddr + k) \div PageSize \notin Own

(* What an ELF file promises and the loader does not check: an executable  *)
(* section that has a name lies in a segment that is loaded and executable,*)
(* as far from its start in memory as in the file.                         *)
SectionsInSegments ==
  \A n \in 1 .. Len(file.sections) :
    file.sections[n].exec =>
      \E m \in LoadSegments :
        LET x == file.sections[n] s == file.segments[m]
        IN /\ "X" \in s.flags /\ s.filesz <= s.memsz /\ ~Wraps(s)
           /\ x.addr - s.vaddr \in 0 .. s.filesz - 1
           /\ x.addr - s.vaddr = x.offset - s.offset

(* Of such a file the loader enters the section asked for, at the first    *)
(* byte the file has of it, and never an address that cannot be executed:  *)
(* find_section and load_headers read different headers, and nothing in    *)
(* main relates what they found.                                           *)
EntersTheSection ==
  SectionsInSegments =>
    /\ pc # "astray"
    /\ pc = "entered" =>
         /\ section.name = Target
         /\ ByteOfFile(section.addr) = section.offset

(* The loader enters the section, jumps astray, or returns.                *)
Decides == <>(pc \in {"entered", "astray", "returned"})
===============================================================================
