----------------------------- MODULE AsmElfProofs -----------------------------
(***************************************************************************)
(* The two programs that face bytes as they are: the dictionary in         *)
(* assembly, and the ELF loader.                                           *)
(***************************************************************************)
EXTENDS AsmDictionary, ElfLoader, TLAPS
-------------------------------------------------------------------------------
(* The dictionary: what .read_string hands to find_word, for every size of *)
(* the buffer, every dictionary and every input.                           *)

(* What has been stored and what is still to be read make up what was      *)
(* typed, and no end of input comes after a read that fails.               *)
KeyInv ==
  /\ AsmTypeOK
  /\ Len(input_string) <= SIZE
  /\ rip = "skip" => input = typed /\ input_string = <<>>
  /\ (rip = "loop" /\ ~fails) => input_string \o input = typed
  /\ rip \in {"find", "differs"} => input_string = Append(typed, NUL)

(* Only the end of the input has a 0 above the byte (read_char). *)
LEMMA OnlyTheEndIsZero ==
  ASSUME NEW x, read_char = [al |-> x, above |-> 0]
  PROVE  input = <<>> /\ ~fails
<1>1. read_char.above = 0
  OBVIOUS
<1>2. ReturnAddress # 0
  BY AsmDictionaryAssumption
<1> QED
  BY <1>1, <1>2 DEF read_char

(* read_char answers a byte (lib.asm:131-144). *)
LEMMA ReadsAByte ==
  ASSUME AsmTypeOK
  PROVE  read_char.al \in Bytes
<1>1. CASE input # <<>>
  BY <1>1 DEF read_char, AsmTypeOK
<1>2. CASE input = <<>>
  BY <1>2, AsmDictionaryAssumption DEF read_char, AsmTypeOK, EndOfInput
<1> QED
  BY <1>1, <1>2

(* A byte moves from the input to what has been stored. *)
LEMMA HeadMoves ==
  ASSUME NEW S, NEW s \in Seq(S), NEW t \in Seq(S), t # <<>>
  PROVE  Append(s, Head(t)) \o Tail(t) = s \o t
BY SMTT(30)

(* Reading keeps the types (lib.asm:131-137). *)
LEMMA ConsumedTypes ==
  ASSUME AsmTypeOK, Consumed
  PROVE  input' \in Seq(Bytes) /\ slot' \in Bytes
BY DEF AsmTypeOK, Consumed

(* What is stored and what is typed start as KeyInv says. *)
LEMMA InitKeyInv == AsmInit => KeyInv
BY AsmDictionaryAssumption DEF AsmInit, KeyInv, AsmTypeOK

(* Skipping the blanks before the key keeps KeyInv (main.asm:60-76). *)
LEMMA SkipKeyInv == KeyInv /\ Skip => KeyInv'
<1> SUFFICES ASSUME KeyInv, Skip PROVE KeyInv'
  OBVIOUS
<1> USE DEF KeyInv
<1>1. input = typed /\ input_string = <<>> /\ typed \in Seq(Bytes) /\ Consumed
  BY DEF Skip, AsmTypeOK
<1>2. input' \in Seq(Bytes) /\ slot' \in Bytes /\ read_char.al \in Bytes
  BY ConsumedTypes, ReadsAByte DEF Skip
<1>3. CASE \E c \in {SPACE, TAB, NEWLINE} : Is(read_char, c)
  <2>1. input = <<>> /\ ~fails
    BY <1>3, OnlyTheEndIsZero DEF Is
  <2>2. input' = <<>> /\ UNCHANGED <<rip, err, input_string, typed, fails>>
    BY <1>3, <2>1 DEF Skip, Consumed
  <2> QED
    BY <1>1, <1>2, <2>1, <2>2 DEF AsmTypeOK, Skip
<1>4. CASE ~(\E c \in {SPACE, TAB, NEWLINE} : Is(read_char, c)) /\ read_char = EndOfInput
  BY <1>2, <1>4 DEF Skip, TooLong, AsmTypeOK
<1>5. CASE ~(\E c \in {SPACE, TAB, NEWLINE} : Is(read_char, c)) /\ read_char # EndOfInput
  <2>1. input_string' = <<read_char.al>> /\ rip' = "loop" /\ UNCHANGED <<typed, fails, err>>
    BY <1>1, <1>5 DEF Skip, Store
  <2>2. ASSUME ~fails PROVE input # <<>> /\ read_char.al = Head(input) /\ input' = Tail(input)
    BY <1>5, <2>2 DEF read_char, Skip, Consumed
  <2>3. ASSUME ~fails PROVE input_string' \o input' = typed'
    <3>1. <<Head(input)>> \o Tail(input) = input
      BY <1>1, <2>2, <2>3
    <3> QED
      BY <1>1, <2>1, <2>2, <2>3, <3>1
  <2>4. input_string' \in Seq(Bytes) /\ Len(input_string') <= SIZE
    BY <1>2, <2>1, AsmDictionaryAssumption
  <2> QED
    BY <1>2, <2>1, <2>3, <2>4 DEF AsmTypeOK
<1> QED
  BY <1>3, <1>4, <1>5

(* Storing a byte, ending the key or finding it too long keeps KeyInv      *)
(* (main.asm:78-103).                                                      *)
LEMMA LoopKeyInv == KeyInv /\ Loop => KeyInv'
<1> SUFFICES ASSUME KeyInv, Loop PROVE KeyInv'
  OBVIOUS
<1> USE DEF KeyInv
<1>1. /\ ~fails => input_string \o input = typed
      /\ typed \in Seq(Bytes) /\ input_string \in Seq(Bytes) /\ Consumed
  BY DEF Loop, AsmTypeOK
<1>2. input' \in Seq(Bytes) /\ slot' \in Bytes /\ read_char.al \in Bytes
  BY ConsumedTypes, ReadsAByte DEF Loop
<1>3. CASE Len(input_string) > Limit
  BY <1>2, <1>3 DEF Loop, TooLong, AsmTypeOK
<1>4. ASSUME ~(Len(input_string) > Limit), NEW byte \in Bytes, Store(byte)
      PROVE  input_string' \in Seq(Bytes) /\ Len(input_string') <= SIZE
  BY <1>1, <1>4, AsmDictionaryAssumption DEF Limit, Store
<1>5. CASE /\ ~(Len(input_string) > Limit)
           /\ read_char = EndOfInput \/ \E c \in {TAB, NEWLINE} : Is(read_char, c)
  <2>1. input = <<>> /\ ~fails
    BY <1>5, OnlyTheEndIsZero DEF Is, EndOfInput
  <2>2. Store(NUL) /\ rip' = "find" /\ UNCHANGED <<err, typed, fails>>
    BY <1>5 DEF Loop
  <2>3. input_string = typed
    BY <1>1, <2>1
  <2> QED
    BY <1>2, <1>4, <1>5, <2>2, <2>3, AsmDictionaryAssumption DEF AsmTypeOK, Store
<1>6. CASE /\ ~(Len(input_string) > Limit)
           /\ ~(read_char = EndOfInput \/ \E c \in {TAB, NEWLINE} : Is(read_char, c))
  <2>1. Store(read_char.al) /\ rip' = "loop" /\ UNCHANGED <<err, typed, fails>>
    BY <1>6 DEF Loop
  <2>2. ASSUME ~fails PROVE input_string' \o input' = typed'
    <3>1. input # <<>> /\ read_char.al = Head(input) /\ input' = Tail(input)
      BY <1>6, <2>2 DEF read_char, Loop, Consumed
    <3>2. input_string' = Append(input_string, Head(input))
      BY <2>1, <3>1 DEF Store
    <3>3. Append(input_string, Head(input)) \o Tail(input) = input_string \o input
      BY <1>1, <3>1, HeadMoves DEF AsmTypeOK
    <3> QED
      BY <1>1, <2>1, <2>2, <3>1, <3>2, <3>3
  <2> QED
    BY <1>2, <1>4, <1>6, <2>1, <2>2 DEF AsmTypeOK
<1> QED
  BY <1>3, <1>5, <1>6

(* What follows the reading leaves the key as it is (find_word, main). *)
LEMMA SearchKeyInv ==
  KeyInv /\ (Compare \/ StepBack \/ PrintValue \/ PrintError \/ UNCHANGED asm_vars) => KeyInv'
BY DEF KeyInv, AsmTypeOK, Compare, StepBack, PrintValue, PrintError, asm_vars

(* find_word looks for all that was typed, with its end, and no byte is    *)
(* stored behind input_string, whatever is typed and wherever reads fail   *)
(* (main.asm:55-103).                                                      *)
THEOREM KeyIsTyped == AsmSpec => []KeyIsWhatWasTyped
<1>1. KeyInv /\ [AsmNext]_asm_vars => KeyInv'
  BY SkipKeyInv, LoopKeyInv, SearchKeyInv DEF AsmNext
<1>2. KeyInv => KeyIsWhatWasTyped
  BY DEF KeyInv, KeyIsWhatWasTyped
<1> QED
  BY InitKeyInv, <1>1, <1>2, PTL DEF AsmSpec

(* Bytes stay bytes: what is stored is what was read or the final 0        *)
(* (main.asm:74, 86, 92).                                                  *)
THEOREM ReadTypes == AsmSpec => []AsmTypeOK
<1>1. KeyInv /\ [AsmNext]_asm_vars => KeyInv'
  BY SkipKeyInv, LoopKeyInv, SearchKeyInv DEF AsmNext
<1>2. KeyInv => AsmTypeOK
  BY DEF KeyInv
<1> QED
  BY InitKeyInv, <1>1, <1>2, PTL DEF AsmSpec
-------------------------------------------------------------------------------
(* The ELF loader: what is in memory when the section is entered, for      *)
(* every file, page size and address space.                                *)

(* The pages of s are mapped as mmap was asked to map them. *)
MappedIn(pages, s) ==
  /\ s.offset % PageSize = s.vaddr % PageSize
  /\ PagesOf(s) \subseteq 0 .. LastPage
  /\ \A p \in PagesOf(s) : pages[p] = Mapped(s, p)

IsMapped(s) == MappedIn(memory, s)

Later == {"load", "entered", "astray"}

Mine == {n \in LoadSegments : n <= i}

LoaderInv ==
  /\ TypeOK
  /\ \A p \in Own : memory[p] = OwnPage
  /\ pc \in Later =>
       /\ \E n \in 1 .. Len(file.sections) : section = file.sections[n]
       /\ section.name = Target /\ section.exec
       /\ \A n \in Mine : IsMapped(file.segments[n])
       /\ \A m, n \in Mine : m # n => PagesOf(file.segments[m]) \cap PagesOf(file.segments[n]) = {}
  /\ pc \in {"entered", "astray"} => i = file.phnum
  /\ pc = "astray" => ~SectionsInSegments
-------------------------------------------------------------------------------
(* Arithmetic of pages. *)

(* An address is its page and its place in the page. *)
LEMMA DivMod ==
  ASSUME NEW a \in Int
  PROVE  /\ a \div PageSize \in Int /\ a % PageSize \in 0 .. PageSize - 1
         /\ a = PageSize * (a \div PageSize) + (a % PageSize)
         /\ a >= 0 => a \div PageSize >= 0 /\ a % PageSize <= a
BY ElfAssumption, SMTT(30)

(* What lies below the end of a page lies in it or in a lower one. *)
LEMMA Less ==
  ASSUME NEW x \in Int, NEW y \in Int, PageSize * x < PageSize * y + PageSize
  PROVE  x <= y
<1>1. PageSize \in Nat /\ PageSize > 0
  BY ElfAssumption
<1>2. SUFFICES ASSUME x >= y + 1 PROVE FALSE
  OBVIOUS
<1>3. PageSize * x >= PageSize * (y + 1)
  BY <1>1, <1>2, SMTT(30)
<1>4. PageSize * (y + 1) = PageSize * y + PageSize
  BY <1>1, SMTT(30)
<1> QED
  BY <1>1, <1>3, <1>4, SMTT(30)

(* Every byte of a segment is on one of the pages that mmap is asked for   *)
(* (memory_allocation, utils.c:154-176).                                   *)
LEMMA BytesOnPages ==
  ASSUME NEW s \in Segment, ~Wraps(s), NEW k \in 0 .. s.memsz - 1
  PROVE  (s.vaddr + k) \div PageSize \in PagesOf(s)
<1>1. /\ s.vaddr \in Nat /\ s.memsz \in Nat /\ k \in Nat /\ k < s.memsz
      /\ PageSize \in Nat /\ PageSize > 0 /\ WordMod \in Nat
  BY ElfAssumption DEF Segment
<1> DEFINE first == s.vaddr \div PageSize
           rest == s.vaddr % PageSize
           mem == s.memsz + rest
           all == mem + PageSize - 1
           count == all \div PageSize
           end == s.vaddr + k
           page == end \div PageSize
<1>2. /\ first \in Int /\ rest \in 0 .. PageSize - 1 /\ s.vaddr = PageSize * first + rest
      /\ first >= 0 /\ rest <= s.vaddr
  <2>1. s.vaddr \in Int /\ s.vaddr >= 0
    BY <1>1
  <2> QED
    BY <2>1, DivMod
<1>3. /\ page \in Int /\ end % PageSize \in 0 .. PageSize - 1
      /\ end = PageSize * page + (end % PageSize)
  <2>1. end \in Int
    BY <1>1
  <2> HIDE DEF end
  <2> QED
    BY <2>1, DivMod
<1>4. /\ count \in Int /\ all % PageSize \in 0 .. PageSize - 1
      /\ all = PageSize * count + (all % PageSize)
  <2>1. all \in Int
    BY <1>1, <1>2
  <2> HIDE DEF all
  <2> QED
    BY <2>1, DivMod
<1>5. mem % WordMod = mem
  <2>1. s.vaddr + s.memsz < WordMod
    BY <1>1 DEF Wraps
  <2>2. mem \in 0 .. WordMod - 1
    BY <1>1, <1>2, <2>1
  <2> QED
    BY <1>1, <2>2
<1> HIDE DEF first, rest, count, page
<1>6. first <= page
  <2>1. PageSize * first < PageSize * page + PageSize
    BY <1>1, <1>2, <1>3
  <2> QED
    BY <1>2, <1>3, <2>1, Less
<1>7. page <= first + count - 1
  <2>1. PageSize * (first + count - 1) + PageSize = PageSize * first + PageSize * count
    BY <1>1, <1>2, <1>4, SMTT(30)
  <2>2. PageSize * page < PageSize * first + PageSize * count
    <3> DEFINE x == PageSize * page  y == PageSize * first  z == PageSize * count
    <3>1. x \in Int /\ y \in Int /\ z \in Int
      BY <1>1, <1>2, <1>3, <1>4
    <3>2. x <= s.vaddr + k /\ s.vaddr = y + rest /\ s.memsz + rest <= z /\ rest \in Int
      BY <1>1, <1>2, <1>3, <1>4, <3>1
    <3> HIDE DEF x, y, z
    <3>3. x < y + z
      BY <1>1, <3>1, <3>2
    <3> QED
      BY <3>3 DEF x, y, z
  <2>3. first + count - 1 \in Int
    BY <1>2, <1>4
  <2> QED
    BY <1>3, <2>1, <2>2, <2>3, Less
<1>8. PagesOf(s) = first .. (first + count - 1)
  BY <1>5 DEF PagesOf, first, count, rest
<1> QED
  BY <1>2, <1>3, <1>4, <1>6, <1>7, <1>8 DEF page

(* A byte of a mapped segment is in memory with the segment's rights, and  *)
(* is the byte of the file at that place.                                  *)
LEMMA MappedBytes ==
  ASSUME NEW s \in Segment, NEW a \in Int, a \div PageSize \in PagesOf(s), IsMapped(s)
  PROVE  /\ FromFile(a)
         /\ memory[a \div PageSize].prot = s.flags
         /\ ByteOfFile(a) = s.offset + (a - s.vaddr)
<1> DEFINE page == a \div PageSize
           first == s.vaddr \div PageSize
           place == s.offset \div PageSize
<1>1. /\ page \in Int /\ a % PageSize \in Int /\ a = PageSize * page + (a % PageSize)
      /\ first \in Int /\ s.vaddr % PageSize \in Int /\ s.vaddr = PageSize * first + (s.vaddr % PageSize)
      /\ place \in Int /\ s.offset % PageSize \in Int /\ s.offset = PageSize * place + (s.offset % PageSize)
      /\ PageSize \in Int /\ s.vaddr \in Int /\ s.offset \in Int
  <2>1. s.vaddr \in Int /\ s.offset \in Int /\ PageSize \in Int
    BY ElfAssumption DEF Segment
  <2> QED
    BY <2>1, DivMod
<1>2. memory[page] = [page |-> place + (page - first), prot |-> s.flags] /\ page \in 0 .. LastPage
  BY DEF IsMapped, MappedIn, Mapped
<1>3. memory[page] \in Page
  <2>1. s.flags \in SUBSET Flags
    BY DEF Segment
  <2> HIDE DEF page, first, place
  <2> QED
    BY <1>1, <1>2, <2>1 DEF Page
<1>4. FromFile(a)
  BY <1>2, <1>3, ElfAssumption DEF FromFile
<1>5. ByteOfFile(a) = s.offset + (a - s.vaddr)
  <2>1. ByteOfFile(a) = (place + (page - first)) * PageSize + (a % PageSize)
    BY <1>2 DEF ByteOfFile
  <2> HIDE DEF page, first, place
  <2>2. (place + (page - first)) * PageSize = PageSize * place + (PageSize * page - PageSize * first)
    BY <1>1, SMTT(30)
  <2>3. s.offset % PageSize = s.vaddr % PageSize
    BY DEF IsMapped, MappedIn
  <2> DEFINE x == PageSize * place  y == PageSize * page  z == PageSize * first
  <2>4. x \in Int /\ y \in Int /\ z \in Int
    BY <1>1
  <2>5. a = y + (a % PageSize) /\ s.vaddr = z + (s.vaddr % PageSize) /\ s.offset = x + (s.offset % PageSize)
    BY <1>1
  <2>6. ByteOfFile(a) = x + (y - z) + (a % PageSize)
    BY <2>1, <2>2
  <2> DEFINE r == a % PageSize  o == s.offset % PageSize  v == s.vaddr % PageSize
  <2>7. /\ a = y + r /\ s.vaddr = z + v /\ s.offset = x + o /\ o = v
        /\ ByteOfFile(a) = x + (y - z) + r
        /\ r \in Int /\ o \in Int /\ v \in Int /\ s.vaddr \in Int /\ s.offset \in Int
    BY <1>1, <2>3, <2>5, <2>6
  <2> HIDE DEF x, y, z, r, o, v
  <2> QED
    BY <2>4, <2>7
<1> QED
  BY <1>2, <1>4, <1>5

-------------------------------------------------------------------------------
(* The invariant. *)

(* At the start only the loader's own pages are mapped. *)
LEMMA InitLoaderInv == Init => LoaderInv
<1> SUFFICES ASSUME Init PROVE LoaderInv
  OBVIOUS
<1>1. file \in File /\ section = NoSection /\ i = 0 /\ pc = "open" /\ status = 0
  BY ElfAssumption DEF Init
<1>2. memory = [p \in 0 .. LastPage |-> IF p \in Own THEN OwnPage ELSE NoPage]
  BY DEF Init
<1>3. \A p \in Own : memory[p] = OwnPage
  BY <1>2, ElfAssumption
<1>4. memory \in [0 .. LastPage -> Page \union {NoPage, OwnPage}]
  BY <1>2
<1>5. TypeOK
  BY <1>1, <1>4 DEF TypeOK
<1> QED
  BY <1>1, <1>3, <1>5 DEF LoaderInv, Later

(* A step that leaves memory and what was found as they are keeps the      *)
(* invariant if it keeps the types and does not enter.                     *)
LEMMA QuietStep ==
  ASSUME LoaderInv, TypeOK', UNCHANGED <<file, memory>>,
         pc' \in Later => pc' = "load" /\ pc = "load" /\ UNCHANGED <<section, i>>
  PROVE  LoaderInv'
<1>1. \A p \in Own : memory'[p] = OwnPage
  BY DEF LoaderInv
<1>2. CASE pc' \notin Later
  BY <1>1, <1>2 DEF LoaderInv, Later
<1>3. CASE pc' \in Later
  <2>1. pc = "load" /\ pc' = "load" /\ UNCHANGED <<file, memory, section, i>>
    BY <1>3
  <2>2. Mine' = Mine /\ \A s : IsMapped(s)' <=> IsMapped(s)
    BY <2>1 DEF Mine, LoadSegments, IsMapped
  <2> QED
    BY <1>1, <2>1, <2>2 DEF LoaderInv, Later
<1> QED
  BY <1>2, <1>3

(* Every step keeps the types. *)
LEMMA TypesKept == TypeOK /\ [Next]_vars => TypeOK'
<1> SUFFICES ASSUME TypeOK, [Next]_vars PROVE TypeOK'
  OBVIOUS
<1> USE DEF TypeOK, Return, Goto
<1>1. CASE WrongUsage \/ OpenFile \/ ReadHeader \/ GetNamesHeader
  BY <1>1 DEF WrongUsage, OpenFile, ReadHeader, GetNamesHeader, File
<1>2. CASE SectionCutOff \/ NextSection \/ FoundData \/ NoSuchSection
  BY <1>2 DEF SectionCutOff, NextSection, FoundData, NoSuchSection, Searching
<1>3. CASE FoundSection
  <2>1. file.sections \in Seq(Section) /\ i + 1 \in 1 .. Len(file.sections)
    BY <1>3 DEF FoundSection, Searching, HasSection, File
  <2>2. SectionAt(i) \in Section
    BY <2>1 DEF SectionAt
  <2> QED
    BY <1>3, <2>2 DEF FoundSection
<1>4. CASE SegmentCutOff \/ SkipSegment \/ MapFails \/ Enter \/ ComeBack
  BY <1>4 DEF SegmentCutOff, SkipSegment, MapFails, Enter, ComeBack, Loading, HasSegment
<1>5. CASE MapSegment
  <2>1. SegmentAt(i) \in Segment
    BY <1>5 DEF MapSegment, HasSegment, Loading, SegmentAt, File
  <2>2. \A p \in 0 .. LastPage : Mapped(SegmentAt(i), p) \in Page
    <3>1. SegmentAt(i).offset \div PageSize \in Int /\ SegmentAt(i).vaddr \div PageSize \in Int
      BY <2>1, DivMod DEF Segment
    <3> QED
      BY <2>1, <3>1, ElfAssumption DEF Mapped, Page, Segment
  <2> QED
    BY <1>5, <2>2 DEF MapSegment
<1>6. CASE UNCHANGED vars
  BY <1>6 DEF vars
<1> QED
  BY <1>1, <1>2, <1>3, <1>4, <1>5, <1>6 DEF Next

(* Finding the section keeps what is known of memory (nothing is mapped    *)
(* yet).                                                                   *)
LEMMA FoundKeeps == LoaderInv /\ FoundSection => LoaderInv'
<1> SUFFICES ASSUME LoaderInv, FoundSection PROVE LoaderInv'
  OBVIOUS
<1>1. TypeOK /\ TypeOK'
  BY TypesKept DEF LoaderInv, Next
<1>2. i \in Nat /\ i + 1 \in 1 .. Len(file.sections) /\ section' = file.sections[i + 1]
  BY <1>1 DEF FoundSection, Searching, HasSection, SectionAt, TypeOK, File
<1>3. section'.name = Target /\ section'.exec /\ i' = 0 /\ pc' = "load" /\ UNCHANGED <<file, memory>>
  BY DEF FoundSection, SectionAt, Goto
<1>4. Mine' = {}
  BY <1>3 DEF Mine, LoadSegments
<1> QED
  BY <1>1, <1>2, <1>3, <1>4 DEF LoaderInv, Later

(* The segments with numbers up to i + 1 are those up to i and that one. *)
LEMMA MineGrows ==
  ASSUME TypeOK, HasSegment, i' = i + 1, file' = file
  PROVE  Mine' = Mine \union (IF SegmentAt(i).load THEN {i + 1} ELSE {})
<1>1. i \in Nat /\ file.phnum \in Nat /\ Len(file.segments) \in Nat
      /\ i + 1 \in 1 .. Len(file.segments) /\ i + 1 <= file.phnum
  BY DEF TypeOK, HasSegment, Loading, File
<1>2. \A n \in LoadSegments : n <= i + 1 <=> n <= i \/ n = i + 1
  BY <1>1 DEF LoadSegments
<1>3. i + 1 \in LoadSegments <=> SegmentAt(i).load
  BY <1>1 DEF LoadSegments, SegmentAt
<1>4. LoadSegments' = LoadSegments
  BY DEF LoadSegments
<1> QED
  BY <1>2, <1>3, <1>4 DEF Mine

(* Passing a segment that is not loaded keeps what is known of memory. *)
LEMMA SkipKeeps == LoaderInv /\ SkipSegment => LoaderInv'
<1> SUFFICES ASSUME LoaderInv, SkipSegment PROVE LoaderInv'
  OBVIOUS
<1>1. TypeOK /\ TypeOK'
  BY TypesKept DEF LoaderInv, Next
<1>2. Mine' = Mine
  BY <1>1, MineGrows DEF SkipSegment
<1>3. pc = "load" /\ UNCHANGED <<pc, file, memory, section>> /\ \A s : IsMapped(s)' <=> IsMapped(s)
  BY DEF SkipSegment, HasSegment, Loading, IsMapped
<1> QED
  BY <1>1, <1>2, <1>3 DEF LoaderInv, Later

(* mmap does not touch what is mapped (MAP_FIXED_NOREPLACE). *)
LEMMA MapKeeps == LoaderInv /\ MapSegment => LoaderInv'
<1> SUFFICES ASSUME LoaderInv, MapSegment PROVE LoaderInv'
  OBVIOUS
<1> DEFINE s == SegmentAt(i)
<1>1. TypeOK /\ TypeOK'
  BY TypesKept DEF LoaderInv, Next
<1>2. Mine' = Mine \union {i + 1} /\ s = file.segments[i + 1]
  BY <1>1, MineGrows DEF MapSegment, SegmentAt
<1>3. /\ pc = "load" /\ UNCHANGED <<pc, file, section>>
      /\ PagesOf(s) \subseteq 0 .. LastPage /\ s.offset % PageSize = s.vaddr % PageSize
      /\ \A p \in PagesOf(s) : memory[p] = NoPage /\ memory'[p] = Mapped(s, p)
      /\ \A p \in 0 .. LastPage : p \notin PagesOf(s) => memory'[p] = memory[p]
  BY DEF MapSegment, HasSegment, Loading, Mappable
<1>4. MappedIn(memory', s)
  BY <1>3 DEF MappedIn
<1>5. ASSUME NEW n \in Mine
      PROVE  PagesOf(file.segments[n]) \cap PagesOf(s) = {} /\ MappedIn(memory', file.segments[n])
  <2> DEFINE t == file.segments[n]
  <2>1. IsMapped(t)
    BY <1>3 DEF LoaderInv, Later
  <2>2. t \in Segment
    BY <1>1 DEF Mine, LoadSegments, TypeOK, File
  <2>3. \A p \in PagesOf(t) : memory[p] # NoPage
    <3> SUFFICES ASSUME NEW p \in PagesOf(t) PROVE memory[p] # NoPage
      OBVIOUS
    <3>1. memory[p] = Mapped(t, p) /\ p \in 0 .. LastPage
      BY <2>1 DEF IsMapped, MappedIn
    <3>2. t.offset \div PageSize \in Int /\ t.vaddr \div PageSize \in Int /\ t.flags \in SUBSET Flags
      BY <2>2, DivMod DEF Segment
    <3>3. Mapped(t, p) \in Page
      BY <3>1, <3>2 DEF Mapped, Page
    <3> QED
      BY <3>1, <3>3, ElfAssumption
  <2>4. PagesOf(t) \cap PagesOf(s) = {}
    BY <1>3, <2>3
  <2>5. \A p \in PagesOf(t) : memory'[p] = memory[p]
    BY <1>3, <2>1, <2>4 DEF IsMapped, MappedIn
  <2> QED
    BY <1>3, <2>1, <2>4, <2>5 DEF IsMapped, MappedIn
<1>6. \A p \in Own : memory'[p] = OwnPage
  BY <1>3, ElfAssumption DEF LoaderInv
<1>7. \A n \in Mine' : MappedIn(memory', file.segments[n])
  BY <1>2, <1>4, <1>5
<1>8. \A m, n \in Mine' : m # n => PagesOf(file.segments[m]) \cap PagesOf(file.segments[n]) = {}
  BY <1>2, <1>3, <1>5 DEF LoaderInv, Later
<1> QED
  BY <1>1, <1>3, <1>6, <1>7, <1>8 DEF LoaderInv, Later, IsMapped
-------------------------------------------------------------------------------
(* What the invariant says when all segments are mapped: each byte of each *)
(* loadable segment is where and what it should be.                        *)
LEMMA AllLoaded ==
  ASSUME LoaderInv, pc \in Later, i = file.phnum, NEW n \in LoadSegments,
         ~Wraps(file.segments[n]), NEW k \in 0 .. file.segments[n].memsz - 1
  PROVE  LET s == file.segments[n]
         IN /\ (s.vaddr + k) \div PageSize \in PagesOf(s)
            /\ FromFile(s.vaddr + k)
            /\ memory[(s.vaddr + k) \div PageSize].prot = s.flags
            /\ ByteOfFile(s.vaddr + k) = s.offset + k
<1> DEFINE s == file.segments[n]
<1>1. s \in Segment /\ n \in Mine
  BY DEF LoaderInv, TypeOK, File, LoadSegments, Mine
<1>2. IsMapped(s)
  BY <1>1 DEF LoaderInv
<1>3. s.vaddr + k \in Int /\ s.offset \in Int /\ s.vaddr \in Int /\ k \in Int
  BY <1>1 DEF Segment
<1>4. (s.vaddr + k) \div PageSize \in PagesOf(s)
  BY <1>1, BytesOnPages
<1>5. /\ FromFile(s.vaddr + k)
      /\ memory[(s.vaddr + k) \div PageSize].prot = s.flags
      /\ ByteOfFile(s.vaddr + k) = s.offset + ((s.vaddr + k) - s.vaddr)
  <2> DEFINE a == s.vaddr + k
  <2>1. a \in Int /\ a \div PageSize \in PagesOf(s)
    BY <1>3, <1>4
  <2> HIDE DEF a, s
  <2>2. /\ FromFile(a) /\ memory[a \div PageSize].prot = s.flags
        /\ ByteOfFile(a) = s.offset + (a - s.vaddr)
    BY <1>1, <1>2, <2>1, MappedBytes
  <2> QED
    BY <2>2 DEF a
<1>6. s.offset + ((s.vaddr + k) - s.vaddr) = s.offset + k
  BY <1>3
<1> QED
  BY <1>4, <1>5, <1>6

(* The section that was found is in memory, executable, at its first byte, *)
(* if the file keeps what ELF promises.                                    *)
LEMMA SectionLoaded ==
  ASSUME LoaderInv, pc \in Later, i = file.phnum, SectionsInSegments
  PROVE  Executable(section.addr) /\ ByteOfFile(section.addr) = section.offset
<1>1. PICK n \in 1 .. Len(file.sections) : section = file.sections[n]
  BY DEF LoaderInv
<1>2. section.exec /\ section \in Section
  BY <1>1 DEF LoaderInv, TypeOK, File
<1>3. PICK m \in LoadSegments :
        LET s == file.segments[m]
        IN /\ "X" \in s.flags /\ s.filesz <= s.memsz /\ ~Wraps(s)
           /\ section.addr - s.vaddr \in 0 .. s.filesz - 1
           /\ section.addr - s.vaddr = section.offset - s.offset
  BY <1>1, <1>2 DEF SectionsInSegments
<1> DEFINE s == file.segments[m]
           k == section.addr - s.vaddr
<1>4. s \in Segment
  BY DEF LoaderInv, TypeOK, File, LoadSegments
<1>5. k \in 0 .. s.memsz - 1 /\ s.vaddr + k = section.addr /\ s.offset + k = section.offset
  <2>1. /\ section.addr \in Int /\ section.offset \in Int /\ s.vaddr \in Int /\ s.offset \in Int
        /\ s.filesz \in Int /\ s.memsz \in Int
    BY <1>2, <1>4 DEF Segment, Section
  <2>2. k \in 0 .. s.filesz - 1 /\ s.filesz <= s.memsz /\ k = section.offset - s.offset
    BY <1>3
  <2>3. s.vaddr + k = section.addr /\ k \in Int
    BY <2>1
  <2> HIDE DEF s, k
  <2> QED
    BY <2>1, <2>2, <2>3
<1>6. /\ FromFile(section.addr) /\ memory[section.addr \div PageSize].prot = s.flags
      /\ ByteOfFile(section.addr) = section.offset
  <2> HIDE DEF k
  <2>1. /\ FromFile(s.vaddr + k) /\ memory[(s.vaddr + k) \div PageSize].prot = s.flags
        /\ ByteOfFile(s.vaddr + k) = s.offset + k
    BY <1>3, <1>5, AllLoaded
  <2> QED
    BY <1>5, <2>1
<1> QED
  BY <1>3, <1>6 DEF Executable, FromFile

(* The loader jumps outside what the file holds only if the section lies   *)
(* outside the segments.                                                   *)
LEMMA EnterKeeps == LoaderInv /\ Enter => LoaderInv'
<1> SUFFICES ASSUME LoaderInv, Enter PROVE LoaderInv'
  OBVIOUS
<1>1. TypeOK /\ TypeOK'
  BY TypesKept DEF LoaderInv, Next
<1>2. /\ pc = "load" /\ i = file.phnum /\ UNCHANGED <<file, i, section, memory>>
      /\ pc' \in {"entered", "astray"} /\ (pc' = "astray" => ~Executable(section.addr))
  BY DEF Enter, Goto
<1>3. Mine' = Mine /\ \A s : IsMapped(s)' <=> IsMapped(s)
  BY <1>2 DEF Mine, LoadSegments, IsMapped
<1>4. pc' = "astray" => ~SectionsInSegments'
  <2>1. SectionsInSegments' <=> SectionsInSegments
    BY <1>2 DEF SectionsInSegments, LoadSegments
  <2> QED
    BY <1>2, <2>1, SectionLoaded DEF Later
<1> QED
  BY <1>1, <1>2, <1>3, <1>4 DEF LoaderInv, Later

(* Every step keeps what is known of memory. *)
LEMMA StepKeeps == LoaderInv /\ [Next]_vars => LoaderInv'
<1> SUFFICES ASSUME LoaderInv, [Next]_vars PROVE LoaderInv'
  OBVIOUS
<1>1. TypeOK'
  BY TypesKept DEF LoaderInv
<1>2. CASE \/ WrongUsage \/ OpenFile \/ ReadHeader \/ GetNamesHeader \/ SectionCutOff
           \/ NextSection \/ FoundData \/ NoSuchSection \/ SegmentCutOff \/ MapFails \/ ComeBack
  BY <1>1, <1>2, QuietStep
     DEF WrongUsage, OpenFile, ReadHeader, GetNamesHeader, SectionCutOff, NextSection, FoundData,
         NoSuchSection, SegmentCutOff, MapFails, ComeBack, Searching, Return, Goto, Later,
         LoaderInv, TypeOK, File
<1>3. CASE UNCHANGED vars
  <2>1. Mine' = Mine /\ (\A s : IsMapped(s)' <=> IsMapped(s)) /\ (SectionsInSegments' <=> SectionsInSegments)
    BY <1>3 DEF vars, Mine, LoadSegments, IsMapped, SectionsInSegments
  <2> QED
    BY <1>1, <1>3, <2>1 DEF vars, LoaderInv
<1> QED
  BY <1>2, <1>3, FoundKeeps, SkipKeeps, MapKeeps, EnterKeeps DEF Next
-------------------------------------------------------------------------------
(* The invariant holds of every file. *)
THEOREM LoaderInvariant == Spec => []LoaderInv
BY InitLoaderInv, StepKeeps, PTL DEF Spec

(* The variables keep their types. *)
THEOREM LoaderTypes == Spec => []TypeOK
<1>1. LoaderInv => TypeOK
  BY DEF LoaderInv
<1> QED
  BY LoaderInvariant, <1>1, PTL

(* For files of any number of segments: what is entered has every segment  *)
(* in memory as the file describes it (load_headers, memory_allocation).   *)
THEOREM SegmentsAreLoaded == Spec => []SegmentsLoaded
<1>1. LoaderInv => SegmentsLoaded
  <2> SUFFICES ASSUME LoaderInv, pc = "entered", NEW n \in LoadSegments, ~Wraps(file.segments[n]),
                      NEW k \in 0 .. file.segments[n].memsz - 1
               PROVE  LET s == file.segments[n]
                      IN /\ FromFile(s.vaddr + k)
                         /\ memory[(s.vaddr + k) \div PageSize].prot = s.flags
                         /\ k < s.filesz => ByteOfFile(s.vaddr + k) = s.offset + k
    BY DEF SegmentsLoaded
  <2> QED
    BY AllLoaded DEF LoaderInv, Later
<1> QED
  BY LoaderInvariant, <1>1, PTL

(* Whatever the page size: two segments on one page, or one on a page of   *)
(* the loader, are not entered (MAP_FIXED_NOREPLACE, utils.c:165-171).     *)
THEOREM SharedPagesRefused == Spec => []SharedPagesAreRefused
<1>1. LoaderInv => SharedPagesAreRefused
  <2> SUFFICES ASSUME LoaderInv, pc = "entered", NEW m \in LoadSegments, NEW n \in LoadSegments,
                      ~Wraps(file.segments[m]), ~Wraps(file.segments[n])
               PROVE  LET s == file.segments[m] t == file.segments[n]
                      IN /\ m # n => ~SharePage(s, t)
                         /\ \A k \in 0 .. s.memsz - 1 : (s.vaddr + k) \div PageSize \notin Own
    BY DEF SharedPagesAreRefused
  <2> DEFINE s == file.segments[m]
             t == file.segments[n]
  <2>1. s \in Segment /\ t \in Segment /\ m \in Mine /\ n \in Mine
    BY DEF LoaderInv, TypeOK, File, LoadSegments, Mine
  <2>2. ASSUME NEW x \in Segment, ~Wraps(x), NEW a \in x.vaddr .. x.vaddr + x.memsz - 1
        PROVE  a \div PageSize \in PagesOf(x)
    <3>1. a - x.vaddr \in 0 .. x.memsz - 1 /\ x.vaddr + (a - x.vaddr) = a
      BY DEF Segment
    <3>2. (x.vaddr + (a - x.vaddr)) \div PageSize \in PagesOf(x)
      BY <2>2, <3>1, BytesOnPages
    <3> QED
      BY <3>1, <3>2
  <2>3. m # n => ~SharePage(s, t)
    <3> SUFFICES ASSUME m # n, NEW a \in s.vaddr .. s.vaddr + s.memsz - 1,
                        NEW b \in t.vaddr .. t.vaddr + t.memsz - 1, a \div PageSize = b \div PageSize
                 PROVE  FALSE
      BY DEF SharePage
    <3>1. a \div PageSize \in PagesOf(s) /\ b \div PageSize \in PagesOf(t)
      BY <2>1, <2>2
    <3>2. PagesOf(s) \cap PagesOf(t) = {}
      BY <2>1 DEF LoaderInv, Later
    <3> QED
      BY <3>1, <3>2
  <2>4. ASSUME NEW k \in 0 .. s.memsz - 1 PROVE (s.vaddr + k) \div PageSize \notin Own
    <3>1. FromFile(s.vaddr + k)
      BY AllLoaded DEF LoaderInv, Later
    <3> QED
      BY <3>1 DEF FromFile, LoaderInv
  <2> QED
    BY <2>3, <2>4
<1> QED
  BY LoaderInvariant, <1>1, PTL

(* For files that keep what ELF promises of sections and segments: the     *)
(* section asked for is entered, at its first byte (main.c:31-36).         *)
THEOREM SectionIsEntered == Spec => []EntersTheSection
<1>1. LoaderInv => EntersTheSection
  BY SectionLoaded DEF EntersTheSection, LoaderInv, Later
<1> QED
  BY LoaderInvariant, <1>1, PTL
===============================================================================
