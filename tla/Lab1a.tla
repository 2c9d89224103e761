-------------------------------- MODULE Lab1a --------------------------------
(***************************************************************************)
(* Project 1A, lab1a.c.  Without --shell the program copies the terminal   *)
(* to itself up to the first ^D.  With --shell it is the host of a shell   *)
(* (ShellHost): its loop reads the terminal, echoes what is typed and      *)
(* passes it to the shell, and displays what the shell writes.  The echo   *)
(* is what was read and is not kept.                                       *)
(***************************************************************************)
EXTENDS ShellHost

vars == <<opt, terminalVars, terminal, taken, shown, hostVars, shellVars, inputPipe,
          outputPipe>>

Ended == host \in {"finished", "harvested", "sigpipe", "failed"}

Init ==
  /\ opt \in [script : Scripts, shell : BOOLEAN]
  /\ SessionInit

terminal_setup ==
  /\ host = "start"
  /\ host' = IF opt.shell THEN "fork" ELSE "copy"
  /\ terminal' = "raw"
  /\ UNCHANGED <<taken, shown, pipe_event, buffer, shellVars, inputPipe, outputPipe>>

\* The two pipes and the fork, and the loop's poll, may fail.
SystemCallFails ==
  /\ host \in {"fork", "poll"}
  /\ HostEnds("failed")
  /\ terminal' = "normal"
  /\ UNCHANGED <<taken, shown>>

Fork == host = "fork" /\ ForkShell /\ UNCHANGED <<terminal, taken, shown>>

\* The child that cannot run the shell calls terminal_restore, in vain: its
\* descriptor 0 is the pipe by then.
ForkWithoutShell == host = "fork" /\ ExecFails /\ UNCHANGED <<terminal, taken, shown>>

\* Without --shell: a round of the loop reads, and echoes up to a ^D.
Copy ==
  /\ host = "copy"
  /\ TerminalReadable
  /\ taken' = typed
  /\ host' = IF Contains(NewlyTyped, "EOT") THEN "restore" ELSE "copy"
  /\ UNCHANGED <<terminal, shown, pipe_event, buffer, shellVars, inputPipe, outputPipe>>

\* read returns 0.
CopyEndOfFile ==
  /\ host = "copy"
  /\ ~TerminalReadable /\ hungup
  /\ host' = "restore"
  /\ UNCHANGED <<terminal, taken, shown, pipe_event, buffer, shellVars, inputPipe,
                 outputPipe>>

CopyEnds ==
  /\ host = "restore"
  /\ HostEnds("finished")
  /\ terminal' = "normal"
  /\ UNCHANGED <<taken, shown>>

\* That the terminal has been hung up is not looked at.
PollBoth == Poll(TerminalReadable) /\ UNCHANGED <<terminal, taken, shown>>

ReadTerminal ==
  /\ host = "input"
  /\ buffer' = NewlyTyped
  /\ taken' = typed
  /\ host' = "forward"
  /\ UNCHANGED <<terminal, shown, pipe_event, shellVars, inputPipe, outputPipe>>

TerminalToShell == Forward /\ UNCHANGED <<terminal, taken, shown>>

ReadPipe == (PipeSilent \/ ReadShell) /\ UNCHANGED <<terminal, taken, shown>>

Reply(displayed, close) ==
  /\ host = "reply"
  /\ shown' = shown \o Screen(displayed)
  /\ from_shell_open' = ~close
  /\ from_shell' = IF close THEN <<>> ELSE from_shell
  /\ buffer' = <<>>
  /\ host' = "poll"
  /\ UNCHANGED <<terminal, taken, pipe_event, shellVars, inputPipe>>

\* Mutant of ShellToTerminal: the pipe stays open after a ^D.
ShellToTerminalGoesOn ==
  Reply(SubSeq(buffer, 1, SelectInSeq(buffer \o <<"EOT">>, LAMBDA byte : byte = "EOT") - 1),
        FALSE)

\* A ^D of the shell is not displayed, nor is what was read after it; the pipe is
\* closed, and poll has nothing more to say of it.
ShellToTerminal ==
  Reply(SubSeq(buffer, 1, SelectInSeq(buffer \o <<"EOT">>, LAMBDA byte : byte = "EOT") - 1),
        Contains(buffer, "EOT"))

\* Mutant of HarvestShell: the terminal is left as it is.
HarvestLeavesTerminal == Harvest /\ UNCHANGED <<terminal, taken, shown>>

HarvestShell ==
  /\ Harvest
  /\ terminal' = "normal"
  /\ UNCHANGED <<taken, shown>>

\* The handler of SIGPIPE does not restore the terminal.
HandleSigpipe == sigHandle /\ UNCHANGED <<terminal, taken, shown>>

MainStep ==
  /\ \/ terminal_setup \/ Fork
     \/ Copy \/ CopyEndOfFile \/ CopyEnds
     \/ PollBoth \/ ReadTerminal \/ TerminalToShell \/ ReadPipe \/ ShellToTerminal
     \/ HarvestShell \/ HandleSigpipe
  /\ UNCHANGED <<opt, terminalVars>>

Failure == (SystemCallFails \/ ForkWithoutShell) /\ UNCHANGED <<opt, terminalVars>>

UserStep ==
  /\ Type \/ HangUp
  /\ UNCHANGED <<opt, terminal, taken, shown, hostVars, shellVars, inputPipe, outputPipe>>

ByItself(shellAction) ==
  shellAction /\ UNCHANGED <<opt, terminalVars, terminal, taken, shown, hostVars>>

ShellStep ==
  \/ ByItself(ShellReads) \/ ByItself(ShellWrites)
  \/ ByItself(CommandEnds) \/ ByItself(ShellQuits)

Next == UserStep \/ MainStep \/ Failure \/ ShellStep

\* Both processes are scheduled and every command ends; the user need not type.
Fairness ==
  /\ WF_vars(MainStep)
  /\ WF_vars(ByItself(ShellReads))
  /\ WF_vars(ByItself(CommandEnds))
  /\ WF_vars(ByItself(ShellQuits))

Spec == Init /\ [][Next]_vars /\ Fairness

-----------------------------------------------------------------------------
\* Every variable has its type.
TypeOK ==
  /\ opt \in [script : Scripts, shell : BOOLEAN]
  /\ SessionTypeOK
  /\ host \in {"start", "fork", "copy", "restore", "poll", "input", "forward", "pipe",
               "reply", "handler", "finished", "harvested", "sigpipe", "failed"}

\* What the user is left with: every exit restores the terminal, but for the one in
\* the handler of SIGPIPE, which is only taken when the user types on after the shell
\* has ended; and an exit with the shell's status comes after all output has been
\* displayed, and leaves no shell behind.
LeftBehind ==
  /\ Ended /\ host # "sigpipe" => terminal = "normal"
  /\ host = "harvested" => shown = Screen(written)
  /\ host \in {"harvested", "sigpipe"} => shell = "gone"
  /\ host \in {"handler", "sigpipe"} /\ shell = "gone" => opt.shell /\ taken > Len(fed)

\* A ^D with no ^C before it has been read.
EndTyped == taken > Len(Clean) /\ opt.script[Len(Clean) + 1] = "EOT"

\* ^D ends the session, and so does the shell: both processes end.  A program that has
\* closed the shell's output because of a ^D in it goes on polling for ever.
EndOfInputEnds ==
  EndTyped \/ shell = "gone"
    ~> /\ shell \in {"none", "gone"}
       /\ Ended \/ (shell = "gone" /\ ~from_shell_open)
=============================================================================
