------------------------------ MODULE ShellHost ------------------------------
(***************************************************************************)
(* Projects 1A and 1B: a user at a terminal, a shell, and the process that *)
(* runs the shell, its host: lab1a.c itself, or lab1b-server.c for a       *)
(* client.  The host's loop is the same in both programs: it passes what   *)
(* it has read to the shell byte by byte, through pipe_p, with line feeds  *)
(* for carriage returns, ^C as a signal and ^D as the end of the pipe, and *)
(* reads the shell's output from pipe_c.                                   *)
(*                                                                         *)
(* A byte is one of x (any ordinary character), CR, LF, ETX (^C) and EOT   *)
(* (^D).  The user and the shell are modelled from how the programs use    *)
(* them.  The actions speak of this module's variables only.               *)
(***************************************************************************)
EXTENDS Integers, Sequences, SequencesExt

CONSTANTS
  Scripts,        \* the sequences of bytes the user may type
  OutputPieces,   \* the sequences of bytes the shell may write at once
  MaxOutput       \* the shell stops writing once it has written this much

Bytes == {"x", "CR", "LF", "ETX", "EOT"}

ASSUME ShellHostAssumption ==
  /\ Scripts \subseteq Seq(Bytes)
  /\ OutputPieces \subseteq Seq(Bytes)
  /\ MaxOutput \in Nat

VARIABLES
  opt,          \* the session: script, and the options of the programs
  typed,        \* how many bytes of the script have been typed
  hungup,       \* the terminal has been hung up
  terminal,     \* the modes of the terminal, "normal" or "raw"
  taken,        \* how many typed bytes have been read from the terminal
  shown,        \* history: what has been displayed of the shell's output
  host,         \* where the host is
  pipe_event,   \* what the host's last poll said of the shell's output
  buffer,       \* the bytes the host is still to pass on
  shell,        \* "none", "reading", "command" or "gone"
  sigint,       \* a SIGINT is pending for the shell
  to_shell,     \* the pipe pipe_p
  to_shell_open,    \* the host holds its write end
  from_shell,       \* the pipe pipe_c
  from_shell_open,  \* the host holds its read end
  fed,          \* history: what the host has written to to_shell
  written       \* history: what the shell has written

terminalVars == <<typed, hungup>>
hostVars == <<host, pipe_event, buffer>>
shellVars == <<shell, sigint, written>>
inputPipe == <<to_shell, to_shell_open, fed>>
outputPipe == <<from_shell, from_shell_open>>

SessionInit ==
  /\ opt.script \in Scripts
  /\ typed = 0 /\ hungup = FALSE /\ terminal = "normal" /\ taken = 0 /\ shown = <<>>
  /\ host = "start" /\ pipe_event = "none" /\ buffer = <<>>
  /\ shell = "none" /\ sigint = FALSE /\ written = <<>>
  /\ to_shell = <<>> /\ to_shell_open = FALSE /\ fed = <<>>
  /\ from_shell = <<>> /\ from_shell_open = FALSE

-----------------------------------------------------------------------------
(***************************************************************************)
(* The user at the terminal.                                               *)
(***************************************************************************)
Type ==
  /\ ~hungup
  /\ typed < Len(opt.script)
  /\ typed' = typed + 1
  /\ UNCHANGED hungup

HangUp ==
  /\ ~hungup
  /\ hungup' = TRUE
  /\ UNCHANGED typed

TerminalReadable == taken < typed

NewlyTyped == SubSeq(opt.script, taken + 1, typed)

\* On the display a line feed is spelled out.
OnScreen(byte) == IF byte = "LF" THEN <<"CR", "LF">> ELSE <<byte>>

Screen(bytes) == FlattenSeq([i \in 1..Len(bytes) |-> OnScreen(bytes[i])])

-----------------------------------------------------------------------------
(***************************************************************************)
(* The shell: it reads its input byte by byte and runs a command for each  *)
(* line; a command may read on, write, and end the shell ("exit").         *)
(***************************************************************************)
ShellEnds == shell' = "gone" /\ to_shell' = <<>>

ShellReads ==
  /\ shell \in {"reading", "command"}
  /\ to_shell # <<>>
  /\ to_shell' = Tail(to_shell)
  /\ shell' = IF Head(to_shell) = "LF" THEN "command" ELSE shell
  /\ UNCHANGED <<sigint, written, to_shell_open, fed, outputPipe>>

\* The write raises SIGPIPE when the host has closed the pipe.
ShellWrites ==
  /\ shell = "command"
  /\ Len(written) < MaxOutput
  /\ IF from_shell_open
       THEN \E piece \in OutputPieces :
              /\ from_shell' = from_shell \o piece
              /\ written' = written \o piece
              /\ UNCHANGED <<shell, to_shell>>
       ELSE ShellEnds /\ UNCHANGED <<from_shell, written>>
  /\ UNCHANGED <<sigint, to_shell_open, from_shell_open, fed>>

\* A SIGINT during the command ends the shell with it, or is over with it.
CommandEnds ==
  /\ shell = "command"
  /\ sigint' = FALSE
  /\ \/ shell' = "reading" /\ UNCHANGED to_shell
     \/ ShellEnds
  /\ UNCHANGED <<written, to_shell_open, fed, outputPipe>>

\* The end of its input, or a SIGINT between commands.
ShellQuits ==
  /\ shell = "reading"
  /\ sigint \/ (to_shell = <<>> /\ ~to_shell_open)
  /\ ShellEnds
  /\ UNCHANGED <<sigint, written, to_shell_open, fed, outputPipe>>

-----------------------------------------------------------------------------
(***************************************************************************)
(* The host.                                                               *)
(***************************************************************************)
ForkShell ==
  /\ host' = "poll"
  /\ shell' = "reading"
  /\ to_shell_open' = TRUE
  /\ from_shell_open' = TRUE
  /\ UNCHANGED <<pipe_event, buffer, sigint, written, to_shell, fed, from_shell>>

\* The child cannot run the shell: it writes an error message to its output and exits.
ExecFails ==
  /\ host' = "poll"
  /\ shell' = "gone"
  /\ to_shell_open' = TRUE
  /\ from_shell_open' = TRUE
  /\ from_shell' = <<"x">>
  /\ written' = <<"x">>
  /\ UNCHANGED <<pipe_event, buffer, sigint, to_shell, fed>>

\* The process ends: its pipes close.
HostEnds(how) ==
  /\ host' = how
  /\ pipe_event' = "none"
  /\ buffer' = <<>>
  /\ to_shell_open' = FALSE
  /\ from_shell_open' = FALSE
  /\ UNCHANGED <<shellVars, to_shell, fed, from_shell>>

\* Mutant of PipeEvent: the hang-up is looked at first.
HangUpFirst ==
  CASE from_shell_open /\ shell = "gone" -> "hup"
    [] from_shell_open /\ shell # "gone" /\ from_shell # <<>> -> "in"
    [] OTHER -> "none"

\* What poll says of the shell's output, POLLIN before POLLHUP; once the host
\* has closed its end, poll says neither.
PipeEvent ==
  CASE from_shell_open /\ from_shell # <<>> -> "in"
    [] from_shell_open /\ from_shell = <<>> /\ shell = "gone" -> "hup"
    [] OTHER -> "none"

Poll(readable) ==
  /\ host = "poll"
  /\ readable \/ PipeEvent # "none"
  /\ pipe_event' = PipeEvent
  /\ host' = IF readable THEN "input" ELSE "pipe"
  /\ UNCHANGED <<buffer, shellVars, inputPipe, outputPipe>>

\* Mutant of ForwardInterrupt: the rest stays in the buffer.
InterruptKeepsBuffer ==
  /\ host = "forward"
  /\ Head(buffer) = "ETX"
  /\ sigint' = (shell # "gone")
  /\ host' = "pipe"
  /\ UNCHANGED <<pipe_event, buffer, shell, written, inputPipe, outputPipe>>

\* ^C: the rest of what was read is dropped.
ForwardInterrupt ==
  /\ host = "forward"
  /\ Head(buffer) = "ETX"
  /\ sigint' = (shell # "gone")
  /\ buffer' = <<>>
  /\ host' = "pipe"
  /\ UNCHANGED <<pipe_event, shell, written, inputPipe, outputPipe>>

\* Mutant of ForwardEnd: the pipe stays open.
EndKeepsPipe ==
  /\ host = "forward"
  /\ Head(buffer) = "EOT"
  /\ buffer' = <<>>
  /\ host' = "pipe"
  /\ UNCHANGED <<pipe_event, shellVars, inputPipe, outputPipe>>

\* ^D: the same, after the pipe is closed.
ForwardEnd ==
  /\ host = "forward"
  /\ Head(buffer) = "EOT"
  /\ to_shell_open' = FALSE
  /\ buffer' = <<>>
  /\ host' = "pipe"
  /\ UNCHANGED <<pipe_event, shellVars, to_shell, fed, outputPipe>>

\* Mutant of ToShell: a carriage return is passed on as it came.
ToShellAsIs(byte) == byte

ToShell(byte) == IF byte = "CR" THEN "LF" ELSE byte

\* Once the pipe is closed the write fails, which is not looked at; when the shell
\* is gone it raises SIGPIPE.
ForwardByte ==
  /\ host = "forward"
  /\ Head(buffer) \notin {"ETX", "EOT"}
  /\ IF to_shell_open /\ shell # "gone"
       THEN /\ to_shell' = Append(to_shell, ToShell(Head(buffer)))
            /\ fed' = Append(fed, ToShell(Head(buffer)))
       ELSE UNCHANGED <<to_shell, fed>>
  /\ buffer' = IF to_shell_open /\ shell = "gone" THEN <<>> ELSE Tail(buffer)
  /\ host' = IF to_shell_open /\ shell = "gone" THEN "handler"
             ELSE IF buffer' = <<>> THEN "pipe" ELSE "forward"
  /\ UNCHANGED <<pipe_event, shellVars, to_shell_open, outputPipe>>

Forward == ForwardInterrupt \/ ForwardEnd \/ ForwardByte

PipeSilent ==
  /\ host = "pipe"
  /\ pipe_event = "none"
  /\ host' = "poll"
  /\ UNCHANGED <<pipe_event, buffer, shellVars, inputPipe, outputPipe>>

ReadShell ==
  /\ host = "pipe"
  /\ pipe_event = "in"
  /\ buffer' = from_shell
  /\ from_shell' = <<>>
  /\ host' = "reply"
  /\ UNCHANGED <<pipe_event, shellVars, inputPipe, from_shell_open>>

\* The shell is gone and all it wrote has been read.
Harvest ==
  /\ host = "pipe"
  /\ pipe_event = "hup"
  /\ shell = "gone"
  /\ HostEnds("harvested")

\* Mutant of sigHandle: the shell is not waited for.
sigHandleAtOnce == host = "handler" /\ HostEnds("sigpipe")

\* The handler of SIGPIPE waits for the shell.
sigHandle ==
  /\ host = "handler"
  /\ shell = "gone"
  /\ HostEnds("sigpipe")

-----------------------------------------------------------------------------
(***************************************************************************)
(* Properties of the bytes that pass through.                              *)
(***************************************************************************)

\* The display shows what the shell wrote, from its start and in order, with
\* line ends spelled out: nothing is lost on the way before something shown.
OutputInOrder == IsPrefix(shown, Screen(written))

\* What was typed before the first ^C or ^D.
Clean ==
  LET control == {i \in 1..Len(opt.script) : opt.script[i] \in {"ETX", "EOT"}}
      first == IF control = {} THEN Len(opt.script) + 1
                               ELSE CHOOSE i \in control : \A j \in control : i <= j
  IN SubSeq(opt.script, 1, first - 1)

\* The shell is fed what was typed, in order, with line feeds for carriage returns;
\* after the first ^D nothing, and after the first ^C what the loss of the rest of a
\* buffer leaves, but nothing before all that came before it.
InputInOrder ==
  /\ \A i \in 1..Len(fed) :
       i <= Len(Clean) => fed[i] = IF Clean[i] = "CR" THEN "LF" ELSE Clean[i]
  /\ Len(fed) > Len(Clean) => opt.script[Len(Clean) + 1] = "ETX"
  /\ Len(fed) <= taken

\* What TypeOK of the programs says of these variables; a host that passes bytes on
\* has some.
SessionTypeOK ==
  /\ typed \in 0..Len(opt.script)
  /\ hungup \in BOOLEAN
  /\ terminal \in {"normal", "raw"}
  /\ taken \in 0..typed
  /\ shown \in Seq(Bytes)
  /\ pipe_event \in {"none", "in", "hup"}
  /\ buffer \in Seq(Bytes)
  /\ host \in {"forward", "reply"} <=> buffer # <<>>
  /\ shell \in {"none", "reading", "command", "gone"}
  /\ sigint \in BOOLEAN
  /\ to_shell \in Seq(Bytes) /\ to_shell_open \in BOOLEAN
  /\ from_shell \in Seq(Bytes) /\ from_shell_open \in BOOLEAN
  /\ fed \in Seq(Bytes)
  /\ written \in Seq(Bytes)
=============================================================================
