--------------------------------- MODULE Shell ---------------------------------
(***************************************************************************)
(* The shell: a loop that prompts, reads a line and executes a command,    *)
(* and the child of the command "run".  The child is made by vfork: until  *)
(* it calls execvp or _exit it runs in the shell's memory, where std::cout *)
(* keeps its buffer, and the shell is suspended.                           *)
(***************************************************************************)
EXTENDS Integers, SequencesExt

CONSTANTS
  Directories, Home,   (* directories, and the one the shell starts in     *)
  Words, Lines,        (* words, and the lines of them a user may type     *)
  Blank,               (* what is between two spaces                       *)
  Codes,               (* exit codes                                       *)
  Killed,              (* how a program ends that a signal ends            *)
  NoDirectory,
  EXIT_FAILURE,
  MaxLines,            (* bound: lines in the input                        *)
  Mishaps               (* what may go wrong around the shell               *)

ASSUME ShellAssumption ==
  /\ Home \in Directories /\ NoDirectory \notin Directories
  /\ Codes \subseteq Nat /\ 0 \in Codes /\ EXIT_FAILURE \in Codes /\ Killed \notin Codes
  /\ MaxLines \in Nat /\ Lines \subseteq Seq(Words)
  /\ Mishaps \subseteq {"vfork", "removal", "entry", "sigchld"}

VARIABLES
  shell_pc,            (* where the shell is                               *)
  is_running_, current_directory_,
  prompt,              (* the directory the last prompt shows              *)
  args,                (* the words of the command                         *)
  status,              (* as waitpid leaves it                             *)
  buffer,              (* what std::cout holds back: names of programs, and *)
  terminal,            (*   how they ended; the same, written              *)
  child,               (* none, forked, named, running, ended              *)
  cwd, dirs,           (* the process's directory; directories that exist  *)
  sigchld, tty,        (* SIGCHLD's disposition; whether output is a terminal *)
  lines,               (* lines read                                       *)
  started, ends        (* history: programs forked for, ends of children   *)

shell == <<shell_pc, is_running_, current_directory_, prompt, args, status, lines>>
output == <<buffer, terminal>>
system == <<cwd, dirs, sigchld, tty>>
history == <<started, ends>>
shell_vars == <<shell, output, child, system, history>>

NoText == [name |-> <<>>, end |-> <<>>]

ShellInit ==
  /\ shell_pc = "directory" /\ is_running_ = TRUE /\ current_directory_ = NoDirectory
  /\ prompt = NoDirectory /\ args = <<>> /\ status = 0 /\ lines = 0
  /\ buffer = NoText /\ terminal = NoText /\ child = "none"
  /\ cwd = Home /\ dirs = Directories
  /\ sigchld \in {"default"} \union IF "sigchld" \in Mishaps THEN {"ignored"} ELSE {}
  /\ tty \in BOOLEAN
  /\ started = <<>> /\ ends = <<>>
-------------------------------------------------------------------------------
(* std::cout keeps text until a newline goes to a terminal, until std::cin *)
(* is read or std::cerr is written, which are tied to it, or the end.      *)
Put(text) ==
  /\ terminal' = [name |-> terminal.name \o text.name, end |-> terminal.end \o text.end]
  /\ buffer' = NoText

Flush == Put(buffer)

(* The text in the buffer now ends with a newline. *)
Line(text) == IF tty THEN Put(text) ELSE buffer' = text /\ UNCHANGED terminal

ParseCommand(line) == SelectSeq(line, LAMBDA w : w # Blank)

Goto(l) == shell_pc' = l
-------------------------------------------------------------------------------
(* fs::current_path throws if the directory is gone; nobody catches it.    *)
SetDirectory ==
  /\ shell_pc = "directory"
  /\ IF cwd \in dirs THEN current_directory_' = cwd /\ Goto("loop")
                     ELSE Goto("aborted") /\ UNCHANGED current_directory_
  /\ UNCHANGED <<is_running_, prompt, args, status, lines, output, child, system, history>>

Prompt ==
  /\ shell_pc = "loop" /\ is_running_
  /\ prompt' = current_directory_ /\ Goto("read")
  /\ UNCHANGED <<is_running_, current_directory_, args, status, lines, output, child, system, history>>

Leave ==
  /\ shell_pc = "loop" /\ ~is_running_
  /\ Flush /\ Goto("done")
  /\ UNCHANGED <<is_running_, current_directory_, prompt, args, status, lines, child, system, history>>

(* Lines without words are passed over. *)
ReadLine ==
  /\ shell_pc = "read" /\ lines < MaxLines
  /\ lines' = lines + 1
  /\ \E line \in Lines :
       /\ args' = ParseCommand(line)
       /\ IF args' = <<>> THEN Goto("loop") ELSE Goto("execute")
  /\ Flush
  /\ UNCHANGED <<is_running_, current_directory_, prompt, status, child, system, history>>

(* At the end of input every line is empty, and the loop goes on.          *)
EndOfInput ==
  /\ shell_pc = "read"
  /\ lines' = MaxLines /\ args' = <<>> /\ Goto("loop")
  /\ Flush
  /\ UNCHANGED <<is_running_, current_directory_, prompt, status, child, system, history>>

Executes(command) == shell_pc = "execute" /\ Head(args) = command
Argument(x) == Len(args) > 1 /\ args[2] = x

(* Commands that do nothing but write: one that is not found, cd without a *)
(* directory, run without a program.                                       *)
Complain ==
  /\ \/ shell_pc = "execute" /\ Head(args) \notin {"ls", "cd", "exit", "run"} /\ Flush
     \/ Executes("cd") /\ (~ \E d \in dirs : Argument(d)) /\ Flush
     \/ Executes("run") /\ Len(args) = 1 /\ Line(buffer)
  /\ Goto("loop")
  /\ UNCHANGED <<is_running_, current_directory_, prompt, args, status, lines, child, system, history>>

Cd ==
  /\ Executes("cd")
  /\ \E d \in dirs : Argument(d) /\ cwd' = d
  /\ Goto("directory")
  /\ UNCHANGED <<is_running_, current_directory_, prompt, args, status, lines, output, child, dirs, sigchld, tty, history>>

Ls ==
  /\ Executes("ls")
  /\ IF Len(args) > 2 \/ current_directory_ \in dirs THEN Line(buffer) ELSE Flush
  /\ Goto("loop")
  /\ UNCHANGED <<is_running_, current_directory_, prompt, args, status, lines, child, system, history>>

(* is_directory, outside of the try block, may throw. *)
LsThrows ==
  /\ Executes("ls") /\ "entry" \in Mishaps /\ Len(args) <= 2 /\ current_directory_ \in dirs
  /\ Goto("aborted")
  /\ UNCHANGED <<is_running_, current_directory_, prompt, args, status, lines, output, child, system, history>>

Exit ==
  /\ Executes("exit")
  /\ is_running_' = FALSE /\ Goto("loop")
  /\ UNCHANGED <<current_directory_, prompt, args, status, lines, output, child, system, history>>
-------------------------------------------------------------------------------
(* run *)
Vfork ==
  /\ Executes("run")
  /\ \E program \in Words : Argument(program) /\ started' = Append(started, program)
  /\ child' = "forked" /\ Goto("suspended")
  /\ UNCHANGED <<is_running_, current_directory_, prompt, args, status, lines, output, system, ends>>

VforkFails ==
  /\ Executes("run") /\ Len(args) > 1 /\ "vfork" \in Mishaps
  /\ Goto("loop")
  /\ UNCHANGED <<is_running_, current_directory_, prompt, args, status, lines, output, child, system, history>>

(* Mutant: fork, so that the child writes to a copy of the buffer. *)
ChildNamesInCopy ==
  /\ child = "forked" /\ child' = "named"
  /\ UNCHANGED <<shell, output, system, history>>

ChildNames ==
  /\ child = "forked" /\ child' = "named"
  /\ buffer' = [buffer EXCEPT !.name = Append(@, args[2])]
  /\ UNCHANGED <<terminal, shell, system, history>>

ChildExecs ==
  /\ child = "named" /\ child' = "running"
  /\ UNCHANGED <<shell, output, system, history>>

(* Mutant: without _exit the child returns and goes on as a second shell. *)
ChildExecFailsAstray ==
  /\ child = "named" /\ child' = "astray"
  /\ UNCHANGED <<shell, output, system, history>>

ChildExecFails ==
  /\ child = "named" /\ child' = "ended"
  /\ ends' = Append(ends, EXIT_FAILURE)
  /\ UNCHANGED <<shell, output, system, started>>

ProgramEnds ==
  /\ child = "running" /\ child' = "ended"
  /\ \E e \in Codes \union {Killed} : ends' = Append(ends, e)
  /\ UNCHANGED <<shell, output, system, started>>

(* Mutant: the shell does not wait for the program. *)
ResumeAtOnce ==
  /\ shell_pc = "suspended" /\ child \in {"running", "ended"}
  /\ Goto("loop")
  /\ UNCHANGED <<is_running_, current_directory_, prompt, args, status, lines, output, child, system, history>>

Resume ==
  /\ shell_pc = "suspended" /\ child \in {"running", "ended"}
  /\ Goto("wait")
  /\ UNCHANGED <<is_running_, current_directory_, prompt, args, status, lines, output, child, system, history>>

(* Mutant: WNOHANG. *)
WaitpidNoHang ==
  /\ shell_pc = "wait"
  /\ status' = IF child = "ended" THEN Last(ends) ELSE 0
  /\ child' = IF child = "ended" THEN "none" ELSE child
  /\ Goto("report")
  /\ UNCHANGED <<is_running_, current_directory_, prompt, args, lines, output, system, history>>

(* With SIGCHLD ignored, waitpid waits, fails, and leaves status alone:    *)
(* its result is not looked at.                                            *)
Waitpid ==
  /\ shell_pc = "wait" /\ child = "ended"
  /\ status' = IF sigchld = "default" THEN Last(ends) ELSE 0
  /\ child' = "none" /\ Goto("report")
  /\ UNCHANGED <<is_running_, current_directory_, prompt, args, lines, output, system, history>>

(* WIFEXITED, WEXITSTATUS *)
Report ==
  /\ shell_pc = "report"
  /\ LET text == [buffer EXCEPT !.end = Append(@, status)]
     IN IF status \in Codes THEN Line(text) ELSE Put(text)
  /\ Goto("loop")
  /\ UNCHANGED <<is_running_, current_directory_, prompt, args, status, lines, child, system, history>>
-------------------------------------------------------------------------------
(* Somebody else removes a directory. *)
RemoveDirectory ==
  /\ "removal" \in Mishaps
  /\ \E d \in dirs \ {Home} : dirs' = dirs \ {d}
  /\ UNCHANGED <<shell, output, child, cwd, sigchld, tty, history>>

ShellStep ==
  \/ SetDirectory \/ Prompt \/ Leave \/ ReadLine \/ EndOfInput \/ Complain \/ Cd \/ Ls \/ LsThrows
  \/ Exit \/ Vfork \/ VforkFails \/ Resume \/ Waitpid \/ Report

ChildStep == ChildNames \/ ChildExecs \/ ChildExecFails

ShellNext == ShellStep \/ ChildStep \/ ProgramEnds \/ RemoveDirectory

ShellSpec == ShellInit /\ [][ShellNext]_shell_vars

(* The system runs a process that can run.  A program need not end.        *)
ShellFairSpec == ShellSpec /\ WF_shell_vars(ShellStep) /\ WF_shell_vars(ChildStep)
-------------------------------------------------------------------------------
(* PROPERTIES *)
Ends == Codes \union {Killed}

ShellTypeOK ==
  /\ shell_pc \in {"directory", "loop", "read", "execute", "suspended", "wait", "report", "done", "aborted"}
  /\ is_running_ \in BOOLEAN
  /\ current_directory_ \in Directories \union {NoDirectory}
  /\ prompt \in Directories \union {NoDirectory}
  /\ status \in Ends
  /\ child \in {"none", "forked", "named", "running", "ended"}
  /\ cwd \in Directories /\ dirs \subseteq Directories
  /\ sigchld \in {"default", "ignored"} /\ tty \in BOOLEAN
  /\ lines \in 0 .. MaxLines
  /\ {terminal, buffer} \subseteq [name : Seq(Words), end : Seq(Ends)]
  /\ started \in Seq(Words) /\ ends \in Seq(Ends)

(* What is written, sooner or later. *)
Names == terminal.name \o buffer.name
Reports == terminal.end \o buffer.end

(* The shell does not prompt for the next command, or run one, before the  *)
(* program of the last one has ended and has been waited for: no zombies.  *)
ChildIsReaped == shell_pc \in {"directory", "loop", "read", "execute", "done"} => child = "none"

(* The name of every program is written once, in order, although the child *)
(* that writes it never flushes.                                           *)
NamesShownOnce == Names = IF child = "forked" THEN Front(started) ELSE started

(* The reports are how the children ended, one each, in order.             *)
ReportsTellTheEnd ==
  sigchld = "default" =>
    Reports = IF child = "ended" \/ shell_pc = "report" THEN Front(ends) ELSE ends

(* A prompt shows the directory the shell is in. *)
PromptTellsDirectory == shell_pc = "read" => prompt = cwd

(* If programs end, every command comes back to the loop. *)
CommandsComeBack ==
  []<>(child # "running") => (shell_pc = "execute" ~> shell_pc \in {"loop", "aborted"})
===============================================================================
