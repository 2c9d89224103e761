---------------------------- MODULE Lab1bClient ----------------------------
(***************************************************************************)
(* Project 1B, lab1b-client.c.  The client polls its terminal and the      *)
(* connection; each round of its loop first reads the terminal, echoes and *)
(* sends what was typed, and then reads the connection and displays what   *)
(* came.  Which of the two it does is what poll said before the round.     *)
(* The echo is what was read, with line ends spelled out, and is not kept; *)
(* the log is a copy of what is sent and received, and is not kept either. *)
(***************************************************************************)
EXTENDS Lab1bSession

othersThanClient == <<opt, terminalVars, hostVars, shellVars, inputPipe, outputPipe>>

\* terminal_setup.
ClientSetUp ==
  /\ client = "start"
  /\ client' = "connect"
  /\ terminal' = "raw"
  /\ UNCHANGED <<taken, shown, socketVars, othersThanClient>>

\* Every error is reported after terminal_restore.
ClientFails ==
  /\ client \in {"connect", "poll"}
  /\ client' = "failed"
  /\ terminal' = "normal"
  /\ SocketClose("client")
  /\ UNCHANGED <<taken, shown, othersThanClient>>

ClientConnect ==
  /\ client = "connect"
  /\ host = "accept"
  /\ client' = "poll"
  /\ sock' = [client |-> "open", server |-> "open"]
  /\ UNCHANGED <<terminal, taken, shown, inbox, othersThanClient>>

\* Of a connection poll never reports a hang-up or an error without POLLIN, so that
\* the loop's last branch is not taken.
ClientPoll ==
  /\ client = "poll"
  /\ \/ TerminalReadable /\ Readable("client") /\ client' = "terminal_socket"
     \/ TerminalReadable /\ ~Readable("client") /\ client' = "terminal"
     \/ ~TerminalReadable /\ hungup /\ client' = "hangup"
     \/ ~TerminalReadable /\ ~hungup /\ Readable("client") /\ client' = "socket"
  /\ UNCHANGED <<terminal, taken, shown, socketVars, othersThanClient>>

\* The client has no handler for SIGPIPE.
ReadTerminal ==
  /\ client \in {"terminal", "terminal_socket"}
  /\ taken' = typed
  /\ IF WriteRaisesSigpipe("client")
       THEN client' = "killed" /\ SocketClose("client")
       ELSE /\ SocketWrite("client", NewlyTyped)
            /\ client' = IF client = "terminal" THEN "poll" ELSE "socket"
  /\ UNCHANGED <<terminal, shown, othersThanClient>>

\* Without --log, logfd is 0: the terminal is closed before it is restored.
TerminalHungUp ==
  /\ client = "hangup"
  /\ client' = "hung_up"
  /\ terminal' = IF opt.log THEN "normal" ELSE terminal
  /\ SocketClose("client")
  /\ UNCHANGED <<taken, shown, othersThanClient>>

ShowOutput ==
  /\ client = "socket"
  /\ inbox.client # <<>>
  /\ ~Joined("client")
  /\ shown' = shown \o Screen(FlattenSeq(inbox.client))
  /\ AllRead("client")
  /\ client' = "poll"
  /\ UNCHANGED <<terminal, taken, sock, othersThanClient>>

\* The loop around inflate does not end.
ShowJoined ==
  /\ client = "socket"
  /\ Joined("client")
  /\ AllRead("client")
  /\ client' = "inflating"
  /\ UNCHANGED <<terminal, taken, shown, sock, othersThanClient>>

\* read returns -1, which only the decompression takes for a length, of 2^32 - 1:
\* it does not end either, or faults.
SocketError ==
  /\ client = "socket"
  /\ inbox.client = <<>> /\ sock.client = "reset"
  /\ \/ ~opt.compress /\ client' = "poll"
     \/ opt.compress /\ client' \in {"inflating", "killed"}
  /\ IF client' = "killed" THEN SocketClose("client")
                           ELSE Shut("client")
  /\ UNCHANGED <<terminal, taken, shown, othersThanClient>>

\* Mutant of EndOfSession: the end of file is taken for data.
EndOfSessionUnseen ==
  /\ client = "socket"
  /\ inbox.client = <<>> /\ sock.client \in {"fin", "shut"}
  /\ client' = "poll"
  /\ UNCHANGED <<terminal, taken, shown, socketVars, othersThanClient>>

EndOfSession ==
  /\ client = "socket"
  /\ inbox.client = <<>> /\ sock.client \in {"fin", "shut"}
  /\ client' = "end_of_file"
  /\ terminal' = "normal"
  /\ SocketClose("client")
  /\ UNCHANGED <<taken, shown, othersThanClient>>

ClientStep ==
  \/ ClientSetUp \/ ClientConnect
  \/ ClientPoll \/ ReadTerminal \/ TerminalHungUp
  \/ ShowOutput \/ ShowJoined \/ SocketError \/ EndOfSession
=============================================================================
