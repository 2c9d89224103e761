-------------------------------- MODULE Lab1b --------------------------------
(***************************************************************************)
(* Project 1B as a whole: the client, the server and the shell of one      *)
(* session, the user who types and may hang up, and what the three         *)
(* promise each other about the bytes they pass on and the order in which  *)
(* they end.                                                               *)
(***************************************************************************)
EXTENDS Lab1bClient, Lab1bServer

Next ==
  \/ UserStep
  \/ ClientStep \/ ClientFails
  \/ ServerStep \/ ServerFailure
  \/ ShellStep

Spec == Init /\ [][Next]_vars

\* The three processes are scheduled, and every command of the shell ends.  The
\* user need not type, and nothing need fail.
Fairness ==
  /\ WF_vars(ClientStep)
  /\ WF_vars(ServerStep)
  /\ WF_vars(InSession(ShellReads))
  /\ WF_vars(InSession(CommandEnds))
  /\ WF_vars(InSession(ShellQuits))

FairSpec == Spec /\ Fairness

-----------------------------------------------------------------------------
ClientPlaces ==
  {"start", "connect", "poll", "terminal", "terminal_socket", "socket", "hangup",
   "inflating", "end_of_file", "hung_up", "failed", "killed"}

ServerPlaces ==
  {"start", "accept", "elsewhere", "poll", "input", "forward", "pipe", "reply",
   "handler", "inflating", "harvested", "sigpipe", "failed", "killed"}

\* Every variable has its type.
TypeOK ==
  /\ opt \in [script : Scripts, compress : Compress, log : BOOLEAN]
  /\ SessionTypeOK
  /\ client \in ClientPlaces
  /\ host \in ServerPlaces
  /\ sock \in [{"client", "server"} ->
                 {"none", "open", "fin", "reset", "shut", "closed"}]
  /\ inbox \in [{"client", "server"} -> Seq(Seq(Bytes))]

\* A client that sees the end of the connection has displayed all the shell ever
\* wrote, if the server ended because the shell did: the hang-up of the pipe, the
\* close of the socket and its end of file each come after all the data.
NothingLostAtEnd ==
  client = "end_of_file" /\ host = "harvested" => shown = Screen(written)

\* The three end in order: the client sees the end of the connection only after
\* the server is gone, and a server that ends in its loop or in its handler leaves
\* no shell behind.
ShutdownOrder ==
  /\ client = "end_of_file" => ServerEnded /\ shell \in {"none", "gone"}
  /\ host \in {"harvested", "sigpipe"} => shell = "gone"

\* The session is closing: the shell is gone, or its input has been closed by ^D.
Closing == shell = "gone" \/ (shell # "none" /\ ~to_shell_open)

AllEnded == ClientEnded /\ ServerEnded /\ shell = "gone"

\* A process that inflates two messages as one never comes back, and a server that
\* has closed the shell's output on its ^D no longer sees the shell end.
Stranded ==
  \/ client = "inflating" \/ host = "inflating"
  \/ ~ServerEnded /\ ~from_shell_open

\* A session that is closing ends: the shell, the server and the client all exit.
ClosingEndsAll == Closing ~> AllEnded \/ Stranded

\* The specification of the project: the server ends first, and the client that
\* sees it end restores the terminal before it exits, whatever was still typed.
TerminalRestored ==
  ClientEnded /\ host = "harvested" /\ ~hungup => terminal = "normal"

\* The specification of the project: when the client exits, the server closes the
\* shell's input, waits for it and ends.
ServerFollowsClient ==
  ClientEnded /\ shell \in {"reading", "command"} ~> ServerEnded \/ host = "inflating"
=============================================================================
