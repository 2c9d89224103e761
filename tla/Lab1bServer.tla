---------------------------- MODULE Lab1bServer ----------------------------
(***************************************************************************)
(* Project 1B, lab1b-server.c.  The server waits for one client, forks the *)
(* shell, and then polls the connection and the shell's output; each round *)
(* of its loop first passes on what came from the client, byte by byte,    *)
(* and then what came from the shell.  When the shell is gone it reports   *)
(* its status and exits, in the loop or in the handler of SIGPIPE.  What   *)
(* it does to the shell and its pipes is ShellHost's; this module adds the *)
(* connection.                                                             *)
(***************************************************************************)
EXTENDS Lab1bSession

\* The process ends, and its socket closes if the shell is gone.
ServerEnds(how) ==
  /\ HostEnds(how)
  /\ IF shell \in {"none", "gone"} THEN SocketClose("server") ELSE UNCHANGED socketVars

\* The result of bind is not looked at: the server may listen on another port,
\* where no client comes.
ServerListen ==
  /\ host = "start"
  /\ host' \in {"accept", "elsewhere"}
  /\ UNCHANGED <<pipe_event, buffer, socketVars, shellVars, inputPipe, outputPipe>>

ServerFork ==
  /\ host = "accept"
  /\ sock.server # "none"
  /\ ForkShell
  /\ UNCHANGED socketVars

ServerForkWithoutShell ==
  /\ host = "accept"
  /\ sock.server # "none"
  /\ ExecFails
  /\ UNCHANGED socketVars

\* socket, listen, accept, pipe, fork and poll may fail; the shell is not waited for.
ServerFails == host \in {"start", "accept", "poll"} /\ ServerEnds("failed")

ServerPoll == Poll(Readable("server")) /\ UNCHANGED socketVars

ReadClient ==
  /\ host = "input"
  /\ inbox.server # <<>>
  /\ ~Joined("server")
  /\ buffer' = FlattenSeq(inbox.server)
  /\ AllRead("server")
  /\ host' = "forward"
  /\ UNCHANGED <<pipe_event, sock, shellVars, inputPipe, outputPipe>>

\* The loop around inflate does not end.
ReadJoined ==
  /\ host = "input"
  /\ Joined("server")
  /\ AllRead("server")
  /\ host' = "inflating"
  /\ UNCHANGED <<pipe_event, buffer, sock, shellVars, inputPipe, outputPipe>>

\* A read of 0 bytes passes nothing on; that the client is gone goes unnoticed.
ReadEndOfFile ==
  /\ host = "input"
  /\ inbox.server = <<>> /\ sock.server \in {"fin", "shut"}
  /\ host' = "pipe"
  /\ UNCHANGED <<pipe_event, buffer, socketVars, shellVars, inputPipe, outputPipe>>

\* So does a read of -1 bytes, but the decompression takes it for 2^32 - 1: it
\* does not end, or faults.
ReadError ==
  /\ host = "input"
  /\ inbox.server = <<>> /\ sock.server = "reset"
  /\ \/ /\ host' = IF opt.compress THEN "inflating" ELSE "pipe"
        /\ Shut("server")
        /\ UNCHANGED <<pipe_event, buffer, shellVars, inputPipe, outputPipe>>
     \/ opt.compress /\ ServerEnds("killed")

ServerForwards == Forward /\ UNCHANGED socketVars

ServerReadsShell == (PipeSilent \/ ReadShell) /\ UNCHANGED socketVars

\* Compressed, the whole buffer is one message.
ReplyCompressed ==
  /\ host = "reply"
  /\ opt.compress
  /\ IF WriteRaisesSigpipe("server")
       THEN host' = "handler" /\ UNCHANGED socketVars
       ELSE host' = "poll" /\ SocketWrite("server", buffer)
  /\ buffer' = <<>>
  /\ UNCHANGED <<pipe_event, shellVars, inputPipe, outputPipe>>

\* Mutant of ReplyEnd: the pipe is closed and the rest sent all the same.
ReplyEndGoesOn ==
  /\ host = "reply"
  /\ ~opt.compress /\ Head(buffer) = "EOT"
  /\ from_shell' = <<>>
  /\ from_shell_open' = FALSE
  /\ buffer' = Tail(buffer)
  /\ host' = IF buffer' = <<>> THEN "poll" ELSE "reply"
  /\ UNCHANGED <<pipe_event, socketVars, shellVars, inputPipe>>

\* A ^D of the shell: the rest is dropped and the pipe closed.
ReplyEnd ==
  /\ host = "reply"
  /\ ~opt.compress /\ Head(buffer) = "EOT"
  /\ from_shell' = <<>>
  /\ from_shell_open' = FALSE
  /\ buffer' = <<>>
  /\ host' = "poll"
  /\ UNCHANGED <<pipe_event, socketVars, shellVars, inputPipe>>

ReplyByte ==
  /\ host = "reply"
  /\ ~opt.compress /\ Head(buffer) # "EOT"
  /\ IF WriteRaisesSigpipe("server")
       THEN host' = "handler" /\ buffer' = <<>> /\ UNCHANGED socketVars
       ELSE /\ SocketWrite("server", <<Head(buffer)>>)
            /\ buffer' = Tail(buffer)
            /\ host' = IF buffer' = <<>> THEN "poll" ELSE "reply"
  /\ UNCHANGED <<pipe_event, shellVars, inputPipe, outputPipe>>

\* In the loop or in the handler of SIGPIPE, with the shell gone.
ServerQuits == (Harvest \/ sigHandle) /\ SocketClose("server")

InServer(serverAction) ==
  serverAction /\ UNCHANGED <<opt, terminalVars, clientVars>>

ServerStep == InServer(
  \/ ServerListen \/ ServerFork \/ ServerPoll
  \/ ReadClient \/ ReadJoined \/ ReadEndOfFile \/ ReadError
  \/ ServerForwards \/ ServerReadsShell
  \/ ReplyCompressed \/ ReplyEnd \/ ReplyByte
  \/ ServerQuits)

ServerFailure == InServer(ServerFails \/ ServerForkWithoutShell)
=============================================================================
