------------------------------ MODULE ElfLoaderMC ------------------------------
(***************************************************************************)
(* Small ELF files for the loader: pages of 2 bytes, the address space     *)
(* 0 .. 9 with the loader itself on its last page, arithmetic modulo 16.   *)
(***************************************************************************)
EXTENDS ElfLoader

CONSTANTS code, data

MCNames == {code, data}

Seg(load, vaddr, offset, filesz, memsz, flags) ==
  [load |-> load, vaddr |-> vaddr, offset |-> offset, filesz |-> filesz, memsz |-> memsz, flags |-> flags]
Sec(name, exec, addr, offset) == [name |-> name, exec |-> exec, addr |-> addr, offset |-> offset]

(* Segments that begin at and inside of a page, aligned with the file or   *)
(* not, empty, shorter and longer than a page, with less and with as much  *)
(* in the file as in memory, and so long that the length wraps (15).       *)
Loadable ==
  {Seg(TRUE, v, o, IF fs > ms THEN ms ELSE fs, ms, fl) :
     v \in {2, 3, 5}, o \in {1, 2}, fs \in {1, 4}, ms \in {0, 2, 4, 15}, fl \in {{"R"}, {"R", "X"}}}

Notes == {Seg(FALSE, 0, 0, 1, 1, {"R"})}

SegmentLists == {<<>>} \union {<<s>> : s \in Loadable \union Notes}
  \union {<<s, t>> : s \in Notes \union {x \in Loadable : x.vaddr = 3 /\ x.memsz \in {2, 4}}, t \in Loadable}

SectionLists ==
  {<<>>, <<Sec(data, FALSE, 0, 0)>>, <<Sec(Unreadable, FALSE, 0, 0), Sec(code, FALSE, 3, 1)>>}
    \union {<<Sec(data, FALSE, 0, 0), Sec(code, TRUE, a, a - 2)>> : a \in {2, 3, 4, 6}}

Good(sections, segments) ==
  [argc |-> 3, opens |-> TRUE, header |-> "good", shnum |-> Len(sections), strndx |-> 0,
   phnum |-> Len(segments), sections |-> sections, segments |-> segments]

Some == Good(<<Sec(code, TRUE, 2, 0)>>, <<Seg(TRUE, 2, 0, 2, 2, {"R", "X"})>>)

(* Files that do not open, begin with something else, or end within their  *)
(* header, their sections or their segments.                               *)
Broken ==
  {[Some EXCEPT !.argc = 2], [Some EXCEPT !.opens = FALSE],
   [Some EXCEPT !.header = "short"], [Some EXCEPT !.header = "wrong"],
   [Some EXCEPT !.strndx = 1], [Some EXCEPT !.sections = <<Sec(data, FALSE, 0, 0)>>, !.shnum = 2],
   [Some EXCEPT !.phnum = 2], [Some EXCEPT !.phnum = 0]}

MCFiles == Broken \union {Some} \union {Good(x, y) : x \in SectionLists, y \in SegmentLists}

MCOwn == {4}
===============================================================================
