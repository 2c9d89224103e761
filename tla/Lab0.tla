--------------------------------- MODULE Lab0 ---------------------------------
(***************************************************************************)
(* Project 0, lab0.c: descriptors 0 and 1 are redirected to the files of   *)
(* --input and --output, --segfault runs into a fault, which --catch turns *)
(* into an exit, and then descriptor 0 is copied to 1 byte by byte.        *)
(* Descriptors may be closed when the program is started; files are        *)
(* sequences of bytes.                                                     *)
(***************************************************************************)
EXTENDS Integers, Sequences, SequencesExt

CONSTANTS
  FileNames,   \* the names of files
  Bytes,
  Contents,    \* what a file may hold, and what comes in on the standard input
  Errnos       \* the errors of a read or a write on an open descriptor

ASSUME Lab0Assumption ==
  /\ {"none", "closed", "stdin", "stdout"} \intersect FileNames = {}
  /\ Contents \subseteq Seq(Bytes)
  /\ Errnos \subseteq 1..133

EBADF == 9
Descriptors == 0..3
Closed == [file |-> "closed", at |-> 0]

VARIABLES
  args,         \* the arguments; "none" is an option that is not given
  before,       \* history: what the files held at the start
  file,         \* what they hold now
  fd,           \* the file and the position behind each descriptor
  place,        \* where the program is, or how it has ended
  exit_status,  \* the status of its exit
  byte          \* the byte that has been read, as a sequence

lab0Vars == <<args, before, file, fd, place, exit_status, byte>>

Options == [input : FileNames \union {"none"}, output : FileNames \union {"none"},
            segfault : BOOLEAN, catch : BOOLEAN]

Files == [FileNames \union {"stdin", "stdout"} -> Contents]

Init0 ==
  /\ args \in Options
  /\ before \in {files \in Files : files["stdout"] = <<>>}
  /\ file = before
  /\ \E closed \in SUBSET {0, 1} :
       fd = [d \in Descriptors |->
              IF d = 3 \/ d \in closed THEN Closed
              ELSE [file |-> <<"stdin", "stdout", "stderr">>[d + 1], at |-> 0]]
  /\ place = "arguments" /\ exit_status = 0 /\ byte = <<>>

-----------------------------------------------------------------------------
Lowest(fds) ==
  CHOOSE d \in Descriptors : fds[d] = Closed /\ \A e \in 0..d - 1 : fds[e] # Closed

Close(fds, d) == [fds EXCEPT ![d] = Closed]

\* dup of a closed descriptor fails, which is not looked at.
Dup(fds, d) == IF fds[d] = Closed THEN fds ELSE [fds EXCEPT ![Lowest(fds)] = fds[d]]

\* A file is opened, made the target by close and dup, and closed.
Redirect(name, target) ==
  LET d == Lowest(fd)
      opened == [fd EXCEPT ![d] = [file |-> name, at |-> 0]]
  IN fd' = Close(Dup(Close(opened, target), d), d)

End(how, code) == place' = how /\ exit_status' = code /\ UNCHANGED <<file, fd, byte>>

Arguments ==
  /\ place = "arguments"
  /\ \/ place' = "input" /\ UNCHANGED <<file, fd, exit_status, byte>>
     \/ End("usage", 1)

\* Whether the file is there and may be read is left open.
RedirectInput ==
  /\ place = "input"
  /\ IF args.input = "none"
       THEN place' = "output" /\ UNCHANGED <<file, fd, exit_status, byte>>
       ELSE \/ /\ Redirect(args.input, 0)
               /\ place' = "output"
               /\ UNCHANGED <<file, exit_status, byte>>
            \/ End("no_input", 2)

\* Mutant of RedirectOutput: the file is emptied although it cannot be opened.
RedirectEmptied ==
  /\ place = "output"
  /\ IF args.output = "none"
       THEN place' = "fault" /\ UNCHANGED <<file, fd, exit_status, byte>>
       ELSE \/ /\ Redirect(args.output, 1)
               /\ file' = [file EXCEPT ![args.output] = <<>>]
               /\ place' = "fault"
               /\ UNCHANGED <<exit_status, byte>>
            \/ /\ file' = [file EXCEPT ![args.output] = <<>>]
               /\ place' = "no_output" /\ exit_status' = 3
               /\ UNCHANGED <<fd, byte>>

\* creat empties the file.
RedirectOutput ==
  /\ place = "output"
  /\ IF args.output = "none"
       THEN place' = "fault" /\ UNCHANGED <<file, fd, exit_status, byte>>
       ELSE \/ /\ Redirect(args.output, 1)
               /\ file' = [file EXCEPT ![args.output] = <<>>]
               /\ place' = "fault"
               /\ UNCHANGED <<exit_status, byte>>
            \/ End("no_output", 3)

segFault ==
  /\ place = "fault"
  /\ IF ~args.segfault THEN place' = "read" /\ UNCHANGED <<file, fd, exit_status, byte>>
     ELSE IF args.catch THEN End("caught", 4)
     ELSE End("killed", 139)

\* Mutant of Read: the position does not move on.
ReadAgain ==
  /\ place = "read"
  /\ fd[0] # Closed
  /\ IF fd[0].at < Len(file[fd[0].file])
       THEN /\ byte' = <<file[fd[0].file][fd[0].at + 1]>>
            /\ place' = "write"
            /\ UNCHANGED <<file, fd, exit_status>>
       ELSE End("copied", 0)

Read ==
  /\ place = "read"
  /\ fd[0] # Closed
  /\ IF fd[0].at < Len(file[fd[0].file])
       THEN /\ byte' = <<file[fd[0].file][fd[0].at + 1]>>
            /\ fd' = [fd EXCEPT ![0].at = @ + 1]
            /\ place' = "write"
            /\ UNCHANGED <<file, exit_status>>
       ELSE End("copied", 0)

Write ==
  /\ place = "write"
  /\ fd[1] # Closed
  /\ file' = [file EXCEPT ![fd[1].file] = @ \o byte]
  /\ byte' = <<>>
  /\ place' = "read"
  /\ UNCHANGED <<fd, exit_status>>

\* The status is the error, whatever other meaning it has.  If the standard output is a
\* pipe that nobody reads, the write kills the program by SIGPIPE.
CopyFails ==
  \/ place = "read" /\ \E errno \in IF fd[0] = Closed THEN {EBADF} ELSE Errnos : End("read_error", errno)
  \/ place = "write" /\ \E errno \in IF fd[1] = Closed THEN {EBADF} ELSE Errnos : End("write_error", errno)
  \/ place = "write" /\ fd[1].file = "stdout" /\ End("broken_pipe", 141)

Next0 ==
  /\ \/ Arguments \/ RedirectInput \/ RedirectOutput \/ segFault
     \/ Read \/ Write \/ CopyFails
  /\ UNCHANGED <<args, before>>

Spec0 == Init0 /\ [][Next0]_lab0Vars

-----------------------------------------------------------------------------
In == IF args.input = "none" THEN "stdin" ELSE args.input
Out == IF args.output = "none" THEN "stdout" ELSE args.output

\* Every variable has its type; no file gets longer than the longest was, and what is
\* read never lies behind the end of the file.
Lab0TypeOK ==
  /\ args \in Options
  /\ before \in Files
  /\ DOMAIN file = DOMAIN before
  /\ \A name \in DOMAIN file :
       /\ file[name] \in Seq(Bytes)
       /\ \E longest \in DOMAIN before : Len(file[name]) <= Len(before[longest])
  /\ \A d \in Descriptors : fd[d].file \in FileNames \union {"closed", "stdin", "stdout", "stderr"}
  /\ fd[0] # Closed => fd[0].at <= Len(before[fd[0].file])
  /\ place \in {"arguments", "input", "output", "fault", "read", "write", "usage", "no_input",
                "no_output", "caught", "killed", "read_error", "write_error", "broken_pipe",
                "copied"}
  /\ exit_status \in 0..141
  /\ byte \in Seq(Bytes) /\ Len(byte) = IF place \in {"write", "write_error", "broken_pipe"} THEN 1 ELSE 0

\* How it ends tells what has become of the files.  A copy that ends well is the input
\* as it was, but for an output that is the input, which is emptied; when the input
\* or the output cannot be opened nothing has been touched; a fault, caught or not,
\* comes before the first byte; and a copy that is broken off has a part of the input.
EndingTells ==
  LET lost == {"usage", "no_input", "no_output"}
      faulted == {"caught", "killed"}
  IN /\ \A name \in DOMAIN before \ {Out} : file[name] = before[name]
     /\ place = "copied" => file[Out] = IF In = Out THEN <<>> ELSE before[In]
     /\ place \in lost => file = before
     /\ place \in faulted => file[Out] = <<>>
     /\ place \in {"read_error", "write_error", "broken_pipe"} => IsPrefix(file[Out], before[In])
=============================================================================
