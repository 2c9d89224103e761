---------------------------- MODULE Lab1bSession ----------------------------
(***************************************************************************)
(* Project 1B: the TCP connection between lab1b-client and lab1b-server,   *)
(* modelled from how the programs use it, and the variables of a session.  *)
(* The server is the host of the shell.  The client only ever connects to  *)
(* localhost, where a segment is delivered before the call that sends it   *)
(* returns.                                                                *)
(***************************************************************************)
EXTENDS ShellHost

CONSTANT Compress       \* the settings of --compress that are tried, given to both

ASSUME SessionAssumption == Compress \subseteq BOOLEAN

VARIABLES
  client,       \* where the client is
  sock,         \* sock[e]: the connection as end e sees it
  inbox         \* inbox[e]: the messages that wait to be read at end e

clientVars == <<terminal, client, taken, shown>>
socketVars == <<sock, inbox>>
vars == <<opt, terminalVars, clientVars, socketVars, hostVars, shellVars,
          inputPipe, outputPipe>>

ClientEnded == client \in {"end_of_file", "hung_up", "failed", "killed"}
ServerEnded == host \in {"harvested", "sigpipe", "failed", "killed"}

Init ==
  /\ opt \in [script : Scripts, compress : Compress, log : BOOLEAN]
  /\ SessionInit
  /\ client = "start"
  /\ sock = [client |-> "none", server |-> "none"]
  /\ inbox = [client |-> <<>>, server |-> <<>>]

-----------------------------------------------------------------------------
(***************************************************************************)
(* An end sees the connection "open"; "fin" when the other end has closed; *)
(* "reset" when the other end has closed without reading all that was sent *)
(* to it, and the error has not been reported yet; and "shut" when every   *)
(* further write raises SIGPIPE.                                           *)
(***************************************************************************)
Other(e) == IF e = "client" THEN "server" ELSE "client"

\* Compressed, each buffer is one message; else bytes have no boundaries.
Messages(bytes) ==
  IF opt.compress THEN <<bytes>> ELSE [i \in 1..Len(bytes) |-> <<bytes[i]>>]

WriteRaisesSigpipe(e) == sock[e] = "shut"

Shut(e) == sock' = [sock EXCEPT ![e] = "shut"] /\ UNCHANGED inbox

SocketWrite(e, bytes) ==
  IF sock[e] = "open"
    THEN /\ inbox' = [inbox EXCEPT ![Other(e)] = @ \o Messages(bytes)]
         /\ UNCHANGED sock
    ELSE Shut(e)

SocketClose(e) ==
  /\ inbox' = [inbox EXCEPT ![e] = <<>>]
  /\ sock' = [sock EXCEPT
       ![e] = "closed",
       ![Other(e)] = IF @ = "open" THEN IF inbox[e] = <<>> THEN "fin" ELSE "reset"
                                   ELSE @]

Readable(e) == inbox[e] # <<>> \/ sock[e] \in {"fin", "reset", "shut"}

AllRead(e) == inbox' = [inbox EXCEPT ![e] = <<>>]

\* Both programs inflate what one read returns as one message; they never get
\* past the end of the first when it returns two.
Joined(e) == opt.compress /\ Len(inbox[e]) > 1

-----------------------------------------------------------------------------
(***************************************************************************)
(* The user's and the shell's steps in a session.  The shell inherits the  *)
(* server's socket: the connection closes when both are gone.              *)
(***************************************************************************)
UserStep ==
  /\ Type \/ HangUp
  /\ UNCHANGED <<opt, clientVars, socketVars, hostVars, shellVars, inputPipe, outputPipe>>

InSession(shellAction) ==
  /\ shellAction
  /\ IF shell' = "gone" /\ ServerEnded THEN SocketClose("server") ELSE UNCHANGED socketVars
  /\ UNCHANGED <<opt, terminalVars, clientVars, hostVars>>

ShellStep ==
  \/ InSession(ShellReads) \/ InSession(ShellWrites)
  \/ InSession(CommandEnds) \/ InSession(ShellQuits)
=============================================================================
