----------------------------- MODULE AsmDictionary -----------------------------
(***************************************************************************)
(* asm-dictionary: reads a key from stdin, finds it in a linked list laid  *)
(* out by the macro colon, and prints the value that follows it.  A step   *)
(* is one iteration of a loop, or the rest of main.                        *)
(***************************************************************************)
EXTENDS Integers, Sequences, SequencesExt, FiniteSetsExt

CONSTANTS
  SIZE,        (* bytes of input_string                                    *)
  WORD,        (* bytes of a link, and of a register: 8                    *)
  Words,       (* what words.inc says, in its order: keys and values       *)
  Bytes,       (* the values of a byte                                     *)
  Typed,       (* what may be typed                                        *)
  NUL, SPACE, TAB, NEWLINE,
  ReturnAddress  (* the upper bytes of rax when read_char has loaded it    *)

ASSUME AsmDictionaryAssumption ==
  /\ SIZE \in Nat \ {0} /\ WORD \in Nat \ {0} /\ Words # <<>>
  /\ ReturnAddress # 0 /\ Typed \subseteq Seq(Bytes) /\ NUL \in Bytes
  /\ \A i \in DOMAIN Words :
       /\ Len(Words[i].key) >= WORD
       /\ NUL \notin ToSet(Words[i].key) \union ToSet(Words[i].value)

(* The section .data: a link, the key, its value, for each colon.          *)
Entry(i) == [k \in 1 .. WORD |-> "link"] \o Words[i].key \o <<NUL>> \o Words[i].value \o <<NUL>>

Data == FlattenSeq([i \in DOMAIN Words |-> Entry(i)])

(* last: the address of the entry that was declared last.                  *)
first_word == Len(Data) - Len(Entry(Len(Words))) + 1

string_length(bytes, address) == Min({k \in address .. Len(bytes) : bytes[k] = NUL}) - address

StringAt(bytes, address) == SubSeq(bytes, address, address + string_length(bytes, address) - 1)

string_equals(a, b) == a = b

VARIABLES
  typed, fails,  (* what is typed, and whether reads fail after it         *)
  input,         (* what is still to be read                               *)
  slot,          (* the byte of stack that read_char reads into            *)
  input_string,  (* what has been stored; r14 is its length                *)
  rsi,           (* find_word: the entry, or its key, that it looks at      *)
  rax,           (* the address of the key it found, or 0                  *)
  rip, out, err

asm_vars == <<typed, fails, input, slot, input_string, rsi, rax, rip, out, err>>

AsmInit ==
  /\ typed \in Typed /\ fails \in BOOLEAN /\ input = typed
  /\ slot = NUL /\ input_string = <<>> /\ rsi = first_word /\ rax = 0
  /\ rip = "skip" /\ out = <<>> /\ err = "none"
-------------------------------------------------------------------------------
(* read_char answers 0 at the end of the input.  Else it loads eight bytes *)
(* from the one that was read up: the others are of the return address.    *)
(* An error of read is no 0, and leaves the byte as it was.                *)
EndOfInput == [al |-> NUL, above |-> 0]

read_char ==
  IF input # <<>> THEN [al |-> Head(input), above |-> ReturnAddress]
  ELSE IF fails THEN [al |-> slot, above |-> ReturnAddress]
  ELSE EndOfInput

Consumed ==
  IF input = <<>> THEN UNCHANGED <<input, slot>> ELSE input' = Tail(input) /\ slot' = Head(input)

(* cmp rax, with a character: all of rax takes part.                       *)
Is(answer, character) == answer = [al |-> character, above |-> 0]

(* Mutant: the limit that main passes is the whole size. *)
LimitIsSize == SIZE

(* The parameter that main passes for the size of the buffer.              *)
Limit == SIZE - 1

TooLong == rip' = "error" /\ err' = "too_long" /\ UNCHANGED input_string

Store(byte) == input_string' = Append(input_string, byte)

(* .skip *)
Skip ==
  /\ rip = "skip"
  /\ Consumed
  /\ IF \E c \in {SPACE, TAB, NEWLINE} : Is(read_char, c)
     THEN UNCHANGED <<rip, err, input_string>>
     ELSE IF read_char = EndOfInput THEN TooLong
     ELSE Store(read_char.al) /\ rip' = "loop" /\ UNCHANGED err
  /\ UNCHANGED <<typed, fails, rsi, rax, out>>

(* .loop *)
Loop ==
  /\ rip = "loop"
  /\ Consumed
  /\ IF Len(input_string) > Limit THEN TooLong
     ELSE IF read_char = EndOfInput \/ \E c \in {TAB, NEWLINE} : Is(read_char, c)
     THEN Store(NUL) /\ rip' = "find" /\ UNCHANGED err
     ELSE Store(read_char.al) /\ UNCHANGED <<rip, err>>
  /\ UNCHANGED <<typed, fails, rsi, rax, out>>
-------------------------------------------------------------------------------
(* Mutant: the key is taken where the entry begins. *)
EntryItself(entry) == entry

KeyOf(entry) == entry + WORD

(* find_word: the key of the entry is compared, and if it differs rsi goes *)
(* back to the entry, which is no 0.                                       *)
Compare ==
  /\ rip = "find"
  /\ rsi' = KeyOf(rsi)
  /\ IF string_equals(StringAt(input_string, 1), StringAt(Data, KeyOf(rsi)))
     THEN rax' = KeyOf(rsi) /\ rip' = "print"
     ELSE rip' = "differs" /\ UNCHANGED rax
  /\ UNCHANGED <<typed, fails, input, slot, input_string, out, err>>

StepBack ==
  /\ rip = "differs"
  /\ rsi' = rsi - WORD
  /\ IF rsi - WORD = 0
     THEN rax' = 0 /\ rip' = "error" /\ err' = "not_found"
     ELSE rip' = "find" /\ UNCHANGED <<rax, err>>
  /\ UNCHANGED <<typed, fails, input, slot, input_string, out>>

(* main goes WORD bytes on from the key, then past the end of the string.  *)
PrintValue ==
  LET from == rax + WORD
      value == from + string_length(Data, from) + 1
  IN /\ rip = "print"
     /\ out' = StringAt(Data, value) /\ rip' = "exit"
     /\ UNCHANGED <<typed, fails, input, slot, input_string, rsi, rax, err>>

(* .print_error; the exit status is 0 here too.                            *)
PrintError ==
  /\ rip = "error" /\ rip' = "exit"
  /\ UNCHANGED <<typed, fails, input, slot, input_string, rsi, rax, out, err>>

AsmNext == Skip \/ Loop \/ Compare \/ StepBack \/ PrintValue \/ PrintError

AsmSpec == AsmInit /\ [][AsmNext]_asm_vars

(* The program runs as long as it can.                                     *)
AsmFairSpec == AsmSpec /\ WF_asm_vars(AsmNext)
-------------------------------------------------------------------------------
(* Properties.                                                             *)

(* What is read and stored keeps its type.                                 *)
AsmTypeOK ==
  /\ typed \in Seq(Bytes) /\ fails \in BOOLEAN /\ input \in Seq(Bytes)
  /\ slot \in Bytes /\ input_string \in Seq(Bytes)
  /\ rip \in {"skip", "loop", "find", "differs", "print", "error", "exit"}
  /\ err \in {"none", "too_long", "not_found"}

(* No byte is stored past input_string, and what find_word looks for is    *)
(* all that was typed, with its end: no byte of a long input is dropped    *)
(* silently (read_string; the only bound is the test of r14).              *)
KeyIsWhatWasTyped ==
  /\ Len(input_string) <= SIZE
  /\ rip = "find" => input_string = Append(typed, NUL)

First == Words[Len(Words)]

(* The program ends whenever it can know the answer: the value of the      *)
(* first entry for its key, and an error for what does not fit into        *)
(* input_string (main.asm:97), or whose end never comes as reads fail.     *)
Ended(output, error) == rip = "exit" /\ out = output /\ err = error

AnswersFirstWord ==
  /\ (typed = First.key /\ ~fails) ~> Ended(First.value, "none")
  /\ (Len(typed) >= SIZE \/ fails) ~> Ended(<<>>, "too_long")

(* test.py, lines 4 and 5: the program prints the explanation of every word*)
(* of the dictionary.                                                      *)
AnswersEveryWord ==
  \A i \in DOMAIN Words :
    (typed = Words[i].key /\ ~fails) ~> Ended(Words[i].value, "none")
===============================================================================
