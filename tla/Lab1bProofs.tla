----------------------------- MODULE Lab1bProofs -----------------------------
(***************************************************************************)
(* Theorems about Lab1b, for every set of scripts and of shell outputs:    *)
(* the order in which the client, the server and the shell end, what the   *)
(* client displays of the shell's output, and what the shell is fed of     *)
(* what was typed.                                                         *)
(***************************************************************************)
EXTENDS Lab1b, ShellHostProofs

SocketStates == {"none", "open", "fin", "reset", "shut", "closed"}

Ends == {"client", "server"}

\* What the client learns from the connection about the end of the other two: an end
\* that is not closed by the client itself was closed by the last of server and shell.
PeerGone ==
  sock["client"] \in {"fin", "reset", "shut"} => ServerEnded /\ shell \in {"none", "gone"}

\* The places in which the client has a connection.
Connected ==
  client \in {"poll", "terminal", "terminal_socket", "socket", "hangup", "inflating"}
    => sock["client"] \in {"open", "fin", "reset", "shut"}

IInv ==
  /\ sock \in [Ends -> SocketStates]
  /\ Connected
  /\ PeerGone
  /\ ShutdownOrder

\* What the properties depend on.
endVars == <<client, host, shell, sock>>

LEMMA InitIInv == Init => IInv
BY SMT DEF Init, SessionInit, IInv, SocketStates, Ends, PeerGone, Connected, ShutdownOrder, ServerEnded

LEMMA StutterIInv == IInv /\ UNCHANGED endVars => IInv'
BY SMT DEF IInv, endVars, SocketStates, Ends, PeerGone, Connected, ShutdownOrder, ServerEnded

-----------------------------------------------------------------------------
(***************************************************************************)
(* What the operations on the connection do to the client's end.           *)
(***************************************************************************)

\* The client closes its end, whatever became of the other one.
LEMMA ClientCloses ==
  ASSUME IInv, SocketClose("client")
  PROVE  /\ sock' \in [Ends -> SocketStates]
         /\ sock'["client"] = "closed"
BY SMT DEF SocketClose, Other, IInv, SocketStates, Ends

\* The last of server and shell closes the other end: the client's is open no longer.
LEMMA ServerCloses ==
  ASSUME IInv, SocketClose("server")
  PROVE  /\ sock' \in [Ends -> SocketStates]
         /\ sock["client"] = "open" => sock'["client"] \in {"fin", "reset"}
         /\ sock["client"] # "open" => sock'["client"] = sock["client"]
BY SMT DEF SocketClose, Other, IInv, SocketStates, Ends

\* A write, or an error that is reported, at one end leaves the other end alone.
LEMMA WriteKeeps ==
  ASSUME IInv, NEW e \in Ends, NEW bytes, SocketWrite(e, bytes) \/ Shut(e)
  PROVE  /\ sock' \in [Ends -> SocketStates]
         /\ e = "server" => sock'["client"] = sock["client"]
         /\ e = "client" => sock'["client"] \in {sock["client"], "shut"}
         /\ SocketWrite(e, bytes) /\ sock["client"] = "open" => sock'["client"] = "open"
                                                                \/ e = "server"
BY SMT DEF SocketWrite, Shut, IInv, SocketStates, Ends

-----------------------------------------------------------------------------
(***************************************************************************)
(* The steps of the three processes.                                       *)
(***************************************************************************)
LEMMA ClientKeeps == IInv /\ (ClientStep \/ ClientFails) => IInv'
<1> SUFFICES ASSUME IInv, ClientStep \/ ClientFails PROVE IInv'
  OBVIOUS
<1> USE DEF IInv, Connected, PeerGone, ShutdownOrder, ServerEnded, SocketStates, Ends
<1>1. UNCHANGED <<host, shell>>
  BY SMT DEF ClientStep, ClientSetUp, ClientConnect, ClientPoll, ReadTerminal,
     TerminalHungUp, ShowOutput, ShowJoined, SocketError, EndOfSession, ClientFails,
     othersThanClient, hostVars, shellVars
<1>2. CASE ClientFails
  <2>1. SocketClose("client") /\ client' = "failed"
    BY <1>2 DEF ClientFails
  <2> QED BY <1>1, <2>1, ClientCloses, SMT
<1>3. CASE ClientSetUp
  BY <1>1, <1>3, SMT DEF ClientSetUp, socketVars
<1>4. CASE ClientConnect
  BY <1>1, <1>4, SMT DEF ClientConnect
<1>5. CASE ClientPoll
  BY <1>1, <1>5, SMT DEF ClientPoll, socketVars
<1>6. CASE ReadTerminal
  <2>1. CASE WriteRaisesSigpipe("client")
    <3>1. SocketClose("client") /\ client' = "killed"
      BY <1>6, <2>1 DEF ReadTerminal
    <3> QED BY <1>1, <3>1, ClientCloses, SMT
  <2>2. CASE ~WriteRaisesSigpipe("client")
    <3>1. /\ client \in {"terminal", "terminal_socket"}
          /\ SocketWrite("client", NewlyTyped)
          /\ client' \in {"poll", "socket"}
      BY <1>6, <2>2, SMT DEF ReadTerminal
    <3>2. sock["client"] \in {"open", "fin", "reset", "shut"}
      BY <3>1, SMT
    <3> QED BY <1>1, <3>1, <3>2, WriteKeeps, SMT
  <2> QED BY <2>1, <2>2
<1>7. CASE TerminalHungUp
  <2>1. SocketClose("client") /\ client' = "hung_up"
    BY <1>7 DEF TerminalHungUp
  <2> QED BY <1>1, <2>1, ClientCloses, SMT
<1>8. CASE ShowOutput \/ ShowJoined
  BY <1>1, <1>8, SMT DEF ShowOutput, ShowJoined
<1>9. CASE SocketError
  <2>1. CASE client' = "killed"
    <3>1. SocketClose("client")
      BY <1>9, <2>1 DEF SocketError
    <3> QED BY <1>1, <2>1, <3>1, ClientCloses, SMT
  <2>2. CASE client' # "killed"
    <3>1. Shut("client") /\ sock["client"] = "reset" /\ client' \in {"poll", "inflating"}
      BY <1>9, <2>2, SMT DEF SocketError
    <3> QED BY <1>1, <3>1, WriteKeeps, SMT
  <2> QED BY <2>1, <2>2
<1>10. CASE EndOfSession
  <2>1. /\ SocketClose("client")
        /\ client' = "end_of_file"
        /\ sock["client"] \in {"fin", "shut"}
    BY <1>10, SMT DEF EndOfSession
  <2> QED BY <1>1, <2>1, ClientCloses, SMT
<1> QED BY <1>2, <1>3, <1>4, <1>5, <1>6, <1>7, <1>8, <1>9, <1>10 DEF ClientStep

\* The server ends, with the shell gone if it has waited for it.
LEMMA ServerEndsKeeps ==
  ASSUME IInv, NEW how \in {"harvested", "sigpipe", "failed", "killed"},
         ServerEnds(how), UNCHANGED client,
         how \in {"harvested", "sigpipe"} => shell = "gone"
  PROVE  IInv'
<1> USE DEF IInv, Connected, PeerGone, ShutdownOrder, ServerEnded, SocketStates, Ends
<1>1. host' = how /\ shell' = shell
  BY DEF ServerEnds, HostEnds, shellVars
<1>2. CASE shell \in {"none", "gone"}
  <2>1. SocketClose("server")
    BY <1>2 DEF ServerEnds
  <2> QED BY <1>1, <1>2, <2>1, ServerCloses, SMT
<1>3. CASE shell \notin {"none", "gone"}
  BY <1>1, <1>3, SMT DEF ServerEnds, socketVars
<1> QED BY <1>2, <1>3

\* Every other step goes from a place in which the server has not ended to another.
LEMMA ServerGoesOn ==
  ASSUME IInv, UNCHANGED client,
         ~ServerEnded, ~ServerEnded',
         \/ UNCHANGED sock
         \/ Shut("server")
         \/ \E bytes : SocketWrite("server", bytes)
  PROVE  IInv'
<1>1. sock' \in [Ends -> SocketStates] /\ sock'["client"] = sock["client"]
  <2>1. CASE UNCHANGED sock
    BY <2>1 DEF IInv
  <2>2. CASE Shut("server") \/ \E bytes : SocketWrite("server", bytes)
    BY <2>2, WriteKeeps, SMT DEF Ends
  <2> QED BY <2>1, <2>2
<1> QED BY <1>1, SMT DEF IInv, Connected, PeerGone, ShutdownOrder, ServerEnded

LEMMA ServerKeeps == IInv /\ (ServerStep \/ ServerFailure) => IInv'
<1> SUFFICES ASSUME IInv, ServerStep \/ ServerFailure PROVE IInv'
  OBVIOUS
<1>1. UNCHANGED client
  BY DEF ServerStep, ServerFailure, InServer, clientVars
<1>2. CASE ServerFailure
  <2>1. CASE ServerFails
    BY <1>1, <2>1, ServerEndsKeeps DEF ServerFails
  <2>2. CASE ServerForkWithoutShell
    <3>1. UNCHANGED sock /\ ~ServerEnded /\ ~ServerEnded'
      BY <2>2, SMT DEF ServerForkWithoutShell, ExecFails, socketVars, ServerEnded
    <3> QED BY <1>1, <3>1, ServerGoesOn
  <2> QED BY <1>2, <2>1, <2>2 DEF ServerFailure, InServer
<1>3. CASE ServerQuits
  <2>1. \E how \in {"harvested", "sigpipe"} : ServerEnds(how)
    BY <1>3 DEF ServerQuits, Harvest, sigHandle, ServerEnds
  <2>2. shell = "gone"
    BY <1>3 DEF ServerQuits, Harvest, sigHandle
  <2> QED BY <1>1, <2>1, <2>2, ServerEndsKeeps
<1>4. CASE ReadError
  <2>1. CASE ServerEnds("killed")
    BY <1>1, <2>1, ServerEndsKeeps
  <2>2. CASE ~ServerEnds("killed")
    <3>1. Shut("server") /\ ~ServerEnded /\ ~ServerEnded'
      BY <1>4, <2>2, SMT DEF ReadError, ServerEnded
    <3> QED BY <1>1, <3>1, ServerGoesOn
  <2> QED BY <2>1, <2>2
<1>5. CASE ReplyCompressed \/ ReplyByte
  <2>1. ~ServerEnded /\ ~ServerEnded'
    BY <1>5, SMT DEF ReplyCompressed, ReplyByte, ServerEnded
  <2>2. \/ UNCHANGED sock
        \/ \E bytes : SocketWrite("server", bytes)
    BY <1>5 DEF ReplyCompressed, ReplyByte, socketVars
  <2> QED BY <1>1, <2>1, <2>2, ServerGoesOn
<1>6. CASE \/ ServerListen \/ ServerFork \/ ServerPoll \/ ReadClient \/ ReadJoined
           \/ ReadEndOfFile \/ ServerForwards \/ ServerReadsShell \/ ReplyEnd
  <2> USE DEF ServerEnded
  <2>1. UNCHANGED sock
    BY <1>6 DEF ServerListen, ServerFork, ServerPoll, ReadClient, ReadJoined,
       ReadEndOfFile, ServerForwards, ServerReadsShell, ReplyEnd, socketVars
  <2>2. CASE ServerListen \/ ServerFork \/ ServerPoll
    <3>1. ~ServerEnded /\ ~ServerEnded'
      BY <2>2, SMT DEF ServerListen, ServerFork, ForkShell, ServerPoll, Poll
    <3> QED BY <1>1, <2>1, <3>1, ServerGoesOn
  <2>3. CASE ReadClient \/ ReadJoined \/ ReadEndOfFile \/ ReplyEnd
    <3>1. ~ServerEnded /\ ~ServerEnded'
      BY <2>3, SMT DEF ReadClient, ReadJoined, ReadEndOfFile, ReplyEnd
    <3> QED BY <1>1, <2>1, <3>1, ServerGoesOn
  <2>4. CASE ServerForwards \/ ServerReadsShell
    <3>1. ~ServerEnded /\ ~ServerEnded'
      BY <2>4, SMT DEF ServerForwards, Forward, ForwardInterrupt, ForwardEnd, ForwardByte,
         ServerReadsShell, PipeSilent, ReadShell
    <3> QED BY <1>1, <2>1, <3>1, ServerGoesOn
  <2> QED BY <1>6, <2>2, <2>3, <2>4
<1> QED BY <1>2, <1>3, <1>4, <1>5, <1>6 DEF ServerStep, InServer

LEMMA ShellKeeps == IInv /\ ShellStep => IInv'
<1> SUFFICES ASSUME IInv, ShellStep PROVE IInv'
  OBVIOUS
<1> USE DEF IInv, Connected, PeerGone, ShutdownOrder, ServerEnded, SocketStates, Ends
<1>1. /\ UNCHANGED <<client, host>>
      /\ shell' \in {"reading", "command", "gone"}
      /\ shell \notin {"none", "gone"}
  BY SMT DEF ShellStep, InSession, ShellReads, ShellWrites, CommandEnds, ShellQuits,
     ShellEnds, clientVars, hostVars
<1>2. CASE shell' = "gone" /\ ServerEnded
  <2>1. SocketClose("server")
    BY <1>2 DEF ShellStep, InSession
  <2> QED BY <1>1, <1>2, <2>1, ServerCloses, SMT
<1>3. CASE ~(shell' = "gone" /\ ServerEnded)
  <2>1. UNCHANGED sock
    BY <1>3 DEF ShellStep, InSession, socketVars
  <2> QED BY <1>1, <1>3, <2>1, SMT
<1> QED BY <1>2, <1>3

-----------------------------------------------------------------------------
LEMMA NextIInv == IInv /\ [Next]_vars => IInv'
<1> SUFFICES ASSUME IInv, [Next]_vars PROVE IInv'
  OBVIOUS
<1>1. CASE UserStep \/ UNCHANGED vars
  <2>1. UNCHANGED endVars
    BY <1>1 DEF UserStep, vars, endVars, clientVars, hostVars, shellVars, socketVars
  <2> QED BY <2>1, StutterIInv
<1>2. CASE ClientStep \/ ClientFails
  BY <1>2, ClientKeeps
<1>3. CASE ServerStep \/ ServerFailure
  BY <1>3, ServerKeeps
<1>4. CASE ShellStep
  BY <1>4, ShellKeeps
<1> QED BY <1>1, <1>2, <1>3, <1>4 DEF Next

\* The connection tells the client the truth about the two other processes, in
\* every state: the invariant the order of the ends rests on.
THEOREM Invariance == Spec => []IInv
<1>1. Init => IInv
  BY InitIInv
<1>2. IInv /\ [Next]_vars => IInv'
  BY NextIInv
<1> QED BY <1>1, <1>2, PTL DEF Spec

\* lab1b-client sees the end of the connection only after the server and the shell are
\* gone, and neither the loop nor sigHandle of lab1b-server leaves a shell behind.
THEOREM EndsInOrder == Spec => []ShutdownOrder
<1>1. IInv => ShutdownOrder
  BY DEF IInv
<1> QED BY <1>1, Invariance, PTL

-----------------------------------------------------------------------------
(***************************************************************************)
(* The messages between client and server.                                 *)
(***************************************************************************)

\* No message is empty: nothing is sent unless there is something to send.
InboxTypes ==
  /\ inbox \in [Ends -> Seq(Seq(Bytes))]
  /\ \A e \in Ends : \A i \in 1..Len(inbox[e]) : inbox[e][i] # <<>>

LEMMA MessagesFlat ==
  ASSUME NEW bytes \in Seq(Bytes), bytes # <<>>
  PROVE  /\ Messages(bytes) \in Seq(Seq(Bytes))
         /\ FlattenSeq(Messages(bytes)) = bytes
         /\ \A i \in 1..Len(Messages(bytes)) : Messages(bytes)[i] # <<>>
<1>1. CASE opt.compress
  <2>1. Messages(bytes) = <<bytes>>
    BY <1>1 DEF Messages
  <2>2. <<bytes>> \in Seq(Seq(Bytes)) /\ \A i \in 1..Len(<<bytes>>) : <<bytes>>[i] = bytes
    OBVIOUS
  <2> QED
    BY <2>1, <2>2, FlattenOne
<1>2. CASE ~opt.compress
  <2> DEFINE split == [i \in 1..Len(bytes) |-> <<bytes[i]>>]
  <2>1. Messages(bytes) = split
    BY <1>2 DEF Messages
  <2>2. split \in Seq(Seq(Bytes)) /\ FlattenSeq(split) = bytes
    BY FlattenSingletons
  <2>3. Len(split) = Len(bytes) /\ \A i \in 1..Len(bytes) : split[i] # <<>>
    BY LenProperties
  <2> HIDE DEF split
  <2> QED
    BY <2>1, <2>2, <2>3
<1> QED
  BY <1>1, <1>2

\* What is written arrives at the other end as it was sent, after all that was sent before.
LEMMA WriteArrives ==
  ASSUME InboxTypes, sock \in [Ends -> SocketStates], NEW e \in Ends,
         NEW bytes \in Seq(Bytes), bytes # <<>>, SocketWrite(e, bytes)
  PROVE  /\ InboxTypes'
         /\ inbox'[e] = inbox[e] /\ sock'[Other(e)] = sock[Other(e)]
         /\ sock[e] = "open" =>
              /\ sock' = sock
              /\ FlattenSeq(inbox'[Other(e)]) = FlattenSeq(inbox[Other(e)]) \o bytes
         /\ sock[e] # "open" => inbox' = inbox /\ sock'[e] = "shut"
<1> DEFINE o == Other(e)
<1>1. o \in Ends /\ o # e
  BY DEF Other, Ends
<1> HIDE DEF o
<1>2. CASE sock[e] = "open"
  <2> DEFINE old == inbox[o]
             new == Messages(bytes)
  <2>1. sock' = sock /\ inbox' = [inbox EXCEPT ![o] = old \o new]
    BY <1>2 DEF SocketWrite, o
  <2>2. /\ old \in Seq(Seq(Bytes)) /\ new \in Seq(Seq(Bytes)) /\ FlattenSeq(new) = bytes
        /\ \A i \in 1..Len(old) : old[i] # <<>>
        /\ \A i \in 1..Len(new) : new[i] # <<>>
    BY <1>1, MessagesFlat DEF InboxTypes
  <2>3. inbox'[o] = old \o new /\ \A f \in Ends : f # o => inbox'[f] = inbox[f]
    BY <1>1, <2>1 DEF InboxTypes
  <2> HIDE DEF old, new
  <2>4. /\ old \o new \in Seq(Seq(Bytes))
        /\ Len(old \o new) = Len(old) + Len(new) /\ Len(old) \in Nat /\ Len(new) \in Nat
        /\ \A i \in 1..Len(old) + Len(new) :
             (old \o new)[i] = IF i <= Len(old) THEN old[i] ELSE new[i - Len(old)]
    BY <2>2, ConcatProperties, LenProperties
  <2>5. \A i \in 1..Len(old \o new) : (old \o new)[i] # <<>>
    <3> TAKE i \in 1..Len(old \o new)
    <3>1. i <= Len(old) \/ i - Len(old) \in 1..Len(new)
      BY <2>4
    <3> QED
      BY <2>2, <2>4, <3>1
  <2>6. FlattenSeq(old \o new) = FlattenSeq(old) \o bytes
    BY <2>2, FlattenConcat
  <2>7. InboxTypes'
    <3>1. inbox' \in [Ends -> Seq(Seq(Bytes))]
      BY <1>1, <2>1, <2>4 DEF InboxTypes
    <3>2. \A f \in Ends : \A i \in 1..Len(inbox'[f]) : inbox'[f][i] # <<>>
      <4> TAKE f \in Ends
      <4> QED
        BY <2>3, <2>5 DEF InboxTypes
    <3> QED
      BY <3>1, <3>2 DEF InboxTypes
  <2> QED
    BY <1>1, <1>2, <2>1, <2>3, <2>6, <2>7 DEF o, old
<1>3. CASE sock[e] # "open"
  <2>1. inbox' = inbox /\ sock' = [sock EXCEPT ![e] = "shut"]
    BY <1>3 DEF SocketWrite, Shut
  <2> QED
    BY <1>1, <1>3, <2>1 DEF InboxTypes, o
<1> QED
  BY <1>2, <1>3

\* An end that closes drops what it has not read, and sends nothing.
LEMMA CloseDrops ==
  ASSUME InboxTypes, sock \in [Ends -> SocketStates], NEW e \in Ends, SocketClose(e)
  PROVE  /\ InboxTypes'
         /\ inbox'[e] = <<>> /\ inbox'[Other(e)] = inbox[Other(e)]
         /\ sock'[e] = "closed"
         /\ sock'[Other(e)] = "open" => FALSE
         /\ sock[Other(e)] # "open" => sock'[Other(e)] = sock[Other(e)]
<1>1. Other(e) \in Ends /\ Other(e) # e
  BY DEF Other, Ends
<1>2. <<>> \in Seq(Seq(Bytes)) /\ Len(<<>>) = 0
  BY EmptySeq
<1>3. inbox' = [inbox EXCEPT ![e] = <<>>]
  BY DEF SocketClose
<1>4. InboxTypes'
  BY <1>2, <1>3 DEF InboxTypes
<1> QED
  BY <1>1, <1>3, <1>4 DEF SocketClose, InboxTypes

\* So does an end that reads.
LEMMA ReadEmpties ==
  ASSUME InboxTypes, NEW e \in Ends, AllRead(e)
  PROVE  /\ InboxTypes'
         /\ inbox'[e] = <<>> /\ inbox'[Other(e)] = inbox[Other(e)]
<1>1. Other(e) \in Ends /\ Other(e) # e
  BY DEF Other, Ends
<1>2. <<>> \in Seq(Seq(Bytes)) /\ Len(<<>>) = 0
  BY EmptySeq
<1>3. inbox' = [inbox EXCEPT ![e] = <<>>]
  BY DEF AllRead
<1>4. InboxTypes'
  BY <1>2, <1>3 DEF InboxTypes
<1> QED
  BY <1>1, <1>3, <1>4 DEF InboxTypes

-----------------------------------------------------------------------------
(***************************************************************************)
(* What the client displays of the shell's output.                         *)
(***************************************************************************)

\* The client may still display what has arrived.
Able == client \in {"start", "connect", "poll", "terminal", "terminal_socket", "socket", "hangup"}

Arrived == IF Able THEN FlattenSeq(inbox["client"]) ELSE <<>>

\* What the shell writes still reaches the client.
Carrying == Able /\ sock["server"] = "open" /\ from_shell_open

\* What is displayed, what has arrived and what is to come make up what has been
\* written.  A server that has ended because the shell has, has sent it all.
Delivered ==
  \E first, rest \in Seq(Bytes) :
    /\ shown = Screen(first)
    /\ written = first \o (Arrived \o rest)
    /\ Carrying => rest = Coming
    /\ Able /\ host = "harvested" => rest = <<>>

\* The types of what the host and the shell do not share.
UserTypes ==
  /\ opt \in [script : Scripts, compress : Compress, log : BOOLEAN]
  /\ typed \in 0..Len(opt.script)
  /\ hungup \in BOOLEAN
  /\ terminal \in {"normal", "raw"}
  /\ taken \in 0..typed
  /\ shown \in Seq(Bytes)
  /\ client \in ClientPlaces
  /\ host \in ServerPlaces

\* Where the client and the server are tells of the connection and of the shell.
PlaceInv ==
  /\ client \in {"terminal", "terminal_socket"} => taken < typed
  /\ sock["client"] = "open" => sock["server"] = "open"
  /\ client \in {"start", "connect"} =>
       /\ shell = "none"
       /\ sock["client"] = "none"
       /\ ~ServerEnded => sock["server"] = "none"
  /\ host \in {"start", "accept", "elsewhere"} => shell = "none"

SessionInv ==
  /\ UserTypes
  /\ InboxTypes
  /\ HostInv
  /\ PlaceInv
  /\ Delivered
  /\ NothingLostAtEnd

LEMMA SequenceTypes ==
  ASSUME HostInv, InboxTypes
  PROVE  /\ Coming \in Seq(Bytes) /\ written \in Seq(Bytes) /\ buffer \in Seq(Bytes)
         /\ Arrived \in Seq(Bytes)
<1>1. Coming \in Seq(Bytes) /\ written \in Seq(Bytes) /\ buffer \in Seq(Bytes)
  BY EmptySeq, ConcatProperties DEF Coming, HostInv, HostTypes
<1>2. Arrived \in Seq(Bytes)
  <2>1. inbox["client"] \in Seq(Seq(Bytes)) /\ <<>> \in Seq(Bytes)
    BY EmptySeq DEF InboxTypes, Ends
  <2> QED
    BY <2>1, FlattenType DEF Arrived
<1> QED
  BY <1>1, <1>2

\* A step that brings nothing to the client: what is written joins what is to come.
LEMMA NothingArrives ==
  ASSUME HostInv, InboxTypes, Delivered, shown' = shown, Arrived' = Arrived,
         NEW piece \in Seq(Bytes), written' = written \o piece,
         Carrying' => Carrying /\ Coming' = Coming \o piece,
         Able' /\ host' = "harvested" =>
           piece = <<>> /\ ((Able /\ host = "harvested") \/ (Carrying /\ Coming = <<>>))
  PROVE  Delivered'
<1>1. PICK first \in Seq(Bytes), rest \in Seq(Bytes) :
        /\ shown = Screen(first)
        /\ written = first \o (Arrived \o rest)
        /\ Carrying => rest = Coming
        /\ Able /\ host = "harvested" => rest = <<>>
  BY DEF Delivered
<1>2. Arrived \in Seq(Bytes) /\ Arrived \o rest \in Seq(Bytes) /\ rest \o piece \in Seq(Bytes)
  BY SequenceTypes, ConcatProperties
<1>3. written' = first \o (Arrived' \o (rest \o piece))
  <2>1. (first \o (Arrived \o rest)) \o piece = first \o ((Arrived \o rest) \o piece)
    BY <1>2, BytesAssociative, Zenon
  <2>2. (Arrived \o rest) \o piece = Arrived \o (rest \o piece)
    BY <1>2, BytesAssociative, Zenon
  <2> QED
    BY <1>1, <2>1, <2>2
<1>4. Able' /\ host' = "harvested" => rest \o piece = <<>>
  <2>1. <<>> \o <<>> = <<>>
    OBVIOUS
  <2> QED
    BY <1>1, <2>1
<1> QED
  BY <1>1, <1>2, <1>3, <1>4 DEF Delivered

\* The same, when nothing is written either.
LEMMA NothingMoves ==
  ASSUME HostInv, InboxTypes, Delivered, shown' = shown, Arrived' = Arrived, written' = written,
         Carrying' => Carrying /\ Coming' = Coming,
         Able' /\ host' = "harvested" =>
           (Able /\ host = "harvested") \/ (Carrying /\ Coming = <<>>)
  PROVE  Delivered'
<1>1. /\ <<>> \in Seq(Bytes) /\ written \o <<>> = written /\ Coming \o <<>> = Coming
  BY SequenceTypes, ConcatEmptySeq, EmptySeq
<1> QED
  BY <1>1, NothingArrives

\* What the server sends arrives, if it was being carried.
LEMMA BytesArrive ==
  ASSUME HostInv, InboxTypes, Delivered, shown' = shown, written' = written,
         Able' = Able, host' # "harvested", Carrying' => Carrying,
         NEW bytes \in Seq(Bytes), Coming' \in Seq(Bytes),
         Able => Carrying /\ Coming = bytes \o Coming' /\ Arrived' = Arrived \o bytes
  PROVE  Delivered'
<1>1. PICK first \in Seq(Bytes), rest \in Seq(Bytes) :
        /\ shown = Screen(first)
        /\ written = first \o (Arrived \o rest)
        /\ Carrying => rest = Coming
  BY DEF Delivered
<1>2. CASE Able
  <2>1. Arrived \in Seq(Bytes)
    BY SequenceTypes
  <2>2. Arrived \o (bytes \o Coming') = (Arrived \o bytes) \o Coming'
    BY <2>1, BytesAssociative, Zenon
  <2>3. written' = first \o (Arrived' \o Coming')
    BY <1>1, <1>2, <2>2
  <2> QED
    BY <1>1, <2>3 DEF Delivered
<1>3. CASE ~Able
  <2>1. Arrived' = Arrived /\ ~Carrying' /\ ~Able'
    BY <1>3 DEF Arrived, Carrying
  <2> QED
    BY <1>1, <2>1 DEF Delivered
<1> QED
  BY <1>2, <1>3

\* A client that no longer displays anything loses what has arrived.
LEMMA ClientLoses ==
  ASSUME HostInv, InboxTypes, Delivered, shown' = shown, written' = written, ~Able'
  PROVE  Delivered'
<1>1. PICK first \in Seq(Bytes), rest \in Seq(Bytes) :
        shown = Screen(first) /\ written = first \o (Arrived \o rest)
  BY DEF Delivered
<1>2. Arrived \o rest \in Seq(Bytes)
  BY SequenceTypes, ConcatProperties
<1>3. Arrived' \o (Arrived \o rest) = Arrived \o rest
  BY <1>2, ConcatEmptySeq DEF Arrived
<1>4. ~Carrying'
  BY DEF Carrying
<1> QED
  BY <1>1, <1>2, <1>3, <1>4 DEF Delivered

\* What has arrived is displayed.
LEMMA ClientShows ==
  ASSUME HostInv, InboxTypes, Delivered, written' = written,
         shown' = shown \o Screen(Arrived), Arrived' = <<>>,
         Carrying' => Carrying /\ Coming' = Coming, Able, host' = host
  PROVE  Delivered' /\ shown' \in Seq(Bytes)
<1>1. PICK first \in Seq(Bytes), rest \in Seq(Bytes) :
        /\ shown = Screen(first)
        /\ written = first \o (Arrived \o rest)
        /\ Carrying => rest = Coming
        /\ Able /\ host = "harvested" => rest = <<>>
  BY DEF Delivered
<1>2. Arrived \in Seq(Bytes)
  BY SequenceTypes
<1>3. first \o Arrived \in Seq(Bytes) /\ shown' = Screen(first \o Arrived)
  BY <1>1, <1>2, ScreenConcat, ConcatProperties
<1>4. written' = (first \o Arrived) \o (Arrived' \o rest)
  <2>1. first \o (Arrived \o rest) = (first \o Arrived) \o rest
    BY <1>2, BytesAssociative, Zenon
  <2>2. Arrived' \o rest = rest
    BY ConcatEmptySeq
  <2> QED
    BY <1>1, <2>1, <2>2
<1> QED
  BY <1>1, <1>3, <1>4, ScreenType DEF Delivered

-----------------------------------------------------------------------------
LEMMA InitSession == Init => SessionInv
<1> SUFFICES ASSUME Init PROVE SessionInv
  OBVIOUS
<1>1. HostInv
  BY HostInit DEF Init
<1>2. /\ opt \in [script : Scripts, compress : Compress, log : BOOLEAN]
      /\ opt.script \in Scripts /\ typed = 0 /\ taken = 0 /\ hungup = FALSE
      /\ terminal = "normal" /\ shown = <<>> /\ host = "start" /\ client = "start"
      /\ shell = "none" /\ written = <<>> /\ from_shell_open = FALSE
      /\ sock = [e \in Ends |-> "none"] /\ inbox = [e \in Ends |-> <<>>]
  BY DEF Init, SessionInit, Ends
<1>3. UserTypes
  <2>1. opt.script \in Seq(Bytes) /\ <<>> \in Seq(Bytes)
    BY <1>2, ShellHostAssumption, EmptySeq
  <2>2. Len(opt.script) \in Nat
    BY <2>1, LenProperties
  <2>3. typed \in 0..Len(opt.script) /\ taken \in 0..typed
    BY <1>2, <2>2
  <2>4. client \in ClientPlaces /\ host \in ServerPlaces
    BY <1>2 DEF ClientPlaces, ServerPlaces
  <2>5. hungup \in BOOLEAN /\ terminal \in {"normal", "raw"} /\ shown \in Seq(Bytes)
    BY <1>2, <2>1
  <2> QED
    BY <1>2, <2>3, <2>4, <2>5, Zenon DEF UserTypes
<1>4. InboxTypes
  <2>1. <<>> \in Seq(Seq(Bytes)) /\ Len(<<>>) = 0
    BY EmptySeq
  <2> QED
    BY <1>2, <2>1 DEF InboxTypes
<1>5. PlaceInv
  BY <1>2 DEF PlaceInv, Ends
<1>6. Delivered
  <2>1. Arrived = <<>>
    BY <1>2, FlattenEmpty DEF Arrived, Ends
  <2>2. written = <<>> \o (Arrived \o <<>>) /\ shown = Screen(<<>>)
    BY <1>2, <2>1, ScreenEmpty, ConcatEmptySeq
  <2>3. ~Carrying /\ host # "harvested" /\ <<>> \in Seq(Bytes)
    BY <1>2, EmptySeq DEF Carrying
  <2> QED
    BY <2>2, <2>3 DEF Delivered
<1>7. NothingLostAtEnd
  BY <1>2 DEF NothingLostAtEnd
<1> QED
  BY <1>1, <1>3, <1>4, <1>5, <1>6, <1>7 DEF SessionInv

-----------------------------------------------------------------------------
(***************************************************************************)
(* The client's steps.                                                     *)
(***************************************************************************)

\* What the client leaves alone.
LEMMA ClientFrame ==
  ASSUME SessionInv, ClientStep \/ ClientFails
  PROVE  /\ UNCHANGED <<opt, typed, hungup, host, pipe_event, buffer, shell, sigint, written,
                        to_shell, to_shell_open, fed, from_shell, from_shell_open>>
         /\ HostInv' /\ Coming' = Coming
<1>1. UNCHANGED othersThanClient
  BY DEF ClientStep, ClientSetUp, ClientConnect, ClientPoll, ReadTerminal,
     TerminalHungUp, ShowOutput, ShowJoined, SocketError, EndOfSession, ClientFails
<1>2. UNCHANGED <<opt, typed, hungup, host, pipe_event, buffer, shell, sigint, written,
                  to_shell, to_shell_open, fed, from_shell, from_shell_open>>
  BY <1>1 DEF othersThanClient, terminalVars, hostVars, shellVars, inputPipe, outputPipe
<1>3. HostInv' /\ Coming' = Coming
  BY <1>2 DEF SessionInv, HostInv, HostTypes, PollTold, Coming
<1> QED
  BY <1>2, <1>3

\* A client that ends, its end of the connection closed.
LEMMA ClientEndKeeps ==
  ASSUME SessionInv, IInv, ClientStep \/ ClientFails,
         SocketClose("client"), shown' = shown, taken' \in {taken, typed},
         terminal' \in {"normal", "raw"},
         client' \in {"failed", "killed", "hung_up"}
  PROVE  SessionInv'
<1>1. /\ InboxTypes' /\ sock'["client"] = "closed"
  BY CloseDrops DEF SessionInv, IInv, Ends
<1>2. ~Able' /\ client' \notin {"start", "connect", "terminal", "terminal_socket", "end_of_file"}
  BY DEF Able
<1>3. Delivered'
  BY <1>2, ClientFrame, ClientLoses DEF SessionInv
<1>4. UserTypes'
  BY ClientFrame DEF SessionInv, UserTypes, ClientPlaces
<1>5. PlaceInv'
  BY <1>1, <1>2, ClientFrame DEF SessionInv, PlaceInv
<1>6. NothingLostAtEnd'
  BY <1>2 DEF NothingLostAtEnd
<1>7. HostInv'
  BY ClientFrame
<1> QED
  BY <1>1, <1>3, <1>4, <1>5, <1>6, <1>7, Zenon DEF SessionInv

\* A client that inflates two messages as one, or what an error has left.
LEMMA ClientStuckKeeps ==
  ASSUME SessionInv, IInv, ClientStep, UNCHANGED <<terminal, taken, shown>>,
         client = "socket", client' = "inflating",
         (AllRead("client") /\ sock' = sock) \/ (sock["client"] = "reset" /\ Shut("client"))
  PROVE  SessionInv'
<1>1. InboxTypes' /\ sock'["server"] = sock["server"] /\ (sock'["client"] = "open" => sock["client"] = "open")
  BY ReadEmpties DEF Shut, SessionInv, InboxTypes, IInv, Ends, SocketStates
<1>2. ~Able' /\ client' \notin {"start", "connect", "terminal", "terminal_socket", "end_of_file"}
  BY DEF Able
<1>3. Delivered'
  BY <1>2, ClientFrame, ClientLoses DEF SessionInv
<1>4. UserTypes'
  BY ClientFrame DEF SessionInv, UserTypes, ClientPlaces
<1>5. PlaceInv'
  BY <1>1, <1>2, ClientFrame DEF SessionInv, PlaceInv
<1>6. NothingLostAtEnd'
  BY <1>2 DEF NothingLostAtEnd
<1>7. HostInv'
  BY ClientFrame
<1> QED
  BY <1>1, <1>3, <1>4, <1>5, <1>6, <1>7, Zenon DEF SessionInv

\* A client that goes on, with nothing read from the connection.
LEMMA ClientGoesOn ==
  ASSUME SessionInv, IInv, ClientStep, shown' = shown, Able, Able',
         terminal' \in {terminal, "raw"}, taken' \in {taken, typed},
         InboxTypes', inbox'["client"] = inbox["client"],
         sock'["server"] = sock["server"], sock'["client"] = "open" => sock["client"] = "open",
         client' \in {"terminal", "terminal_socket"} => taken' < typed,
         client' = "start" => FALSE,
         client' = "connect" => client = "start" /\ sock' = sock
  PROVE  SessionInv'
<1>1. Delivered'
  <2>1. Arrived' = Arrived /\ Carrying' = Carrying
    BY ClientFrame DEF Arrived, Carrying
  <2>2. written' = written /\ Coming' = Coming /\ host' = host
    BY ClientFrame
  <2>3. HostInv /\ InboxTypes /\ Delivered
    BY DEF SessionInv
  <2> QED
    BY <2>1, <2>2, <2>3, NothingMoves
<1>2. UserTypes'
  BY ClientFrame DEF SessionInv, UserTypes, ClientPlaces, Able
<1>3. PlaceInv'
  BY ClientFrame DEF SessionInv, PlaceInv, ServerEnded
<1>4. NothingLostAtEnd'
  BY DEF NothingLostAtEnd, Able
<1>5. HostInv'
  BY ClientFrame
<1> QED
  BY <1>1, <1>2, <1>3, <1>4, <1>5, Zenon DEF SessionInv

\* The connection is made before there is a shell.
LEMMA ConnectKeeps ==
  ASSUME SessionInv, IInv, ClientConnect
  PROVE  SessionInv'
<1>1. /\ client = "connect" /\ client' = "poll"
      /\ UNCHANGED <<terminal, taken, shown, inbox>>
      /\ sock' = [e \in Ends |-> "open"]
  BY DEF ClientConnect, Ends
<1>2. ClientStep
  BY DEF ClientStep
<1>3. /\ UNCHANGED <<opt, typed, hungup, host, shell, written, from_shell_open>>
      /\ HostInv' /\ Coming' = Coming
  BY <1>2, ClientFrame
<1>4. shell = "none" /\ ~from_shell_open
  BY <1>1 DEF SessionInv, PlaceInv, HostInv
<1>5. Delivered'
  <2>1. Arrived' = Arrived /\ ~Carrying' /\ Able
    BY <1>1, <1>3, <1>4 DEF Arrived, Carrying, Able
  <2>2. HostInv /\ InboxTypes /\ Delivered
    BY DEF SessionInv
  <2> QED
    BY <1>1, <1>3, <2>1, <2>2, NothingMoves
<1>6. UserTypes'
  BY <1>1, <1>3 DEF SessionInv, UserTypes, ClientPlaces
<1>7. PlaceInv'
  BY <1>1, <1>3 DEF SessionInv, PlaceInv, Ends
<1>8. InboxTypes' /\ NothingLostAtEnd'
  BY <1>1 DEF SessionInv, InboxTypes, NothingLostAtEnd
<1> QED
  BY <1>3, <1>5, <1>6, <1>7, <1>8, Zenon DEF SessionInv

LEMMA NewlyTypedBytes ==
  ASSUME SessionInv, taken < typed
  PROVE  NewlyTyped \in Seq(Bytes) /\ NewlyTyped # <<>>
<1>1. /\ opt.script \in Seq(Bytes) /\ taken \in Nat /\ typed \in Nat /\ taken < typed
      /\ typed <= Len(opt.script)
  <2>1. opt.script \in Seq(Bytes)
    BY ShellHostAssumption DEF SessionInv, UserTypes
  <2>2. Len(opt.script) \in Nat
    BY <2>1, LenProperties
  <2>3. typed \in 0..Len(opt.script) /\ taken \in 0..typed /\ taken < typed
    BY DEF SessionInv, UserTypes
  <2> QED
    BY <2>1, <2>2, <2>3
<1>2. \A i \in (taken + 1)..typed : opt.script[i] \in Bytes
  BY <1>1, LenProperties
<1>3. NewlyTyped \in Seq(Bytes) /\ Len(NewlyTyped) = typed - taken
  BY <1>1, <1>2, SubSeqProperties DEF NewlyTyped
<1> QED
  BY <1>1, <1>3, EmptySeq

\* What was typed is sent, or the client is killed by the attempt.
LEMMA TypedKeeps ==
  ASSUME SessionInv, IInv, ReadTerminal
  PROVE  SessionInv'
<1>1. ClientStep
  BY DEF ClientStep
<1>2. /\ client \in {"terminal", "terminal_socket"} /\ taken' = typed
      /\ terminal' = terminal /\ shown' = shown /\ Able
  BY DEF ReadTerminal, Able
<1>3. terminal' \in {"normal", "raw"}
  BY <1>2 DEF SessionInv, UserTypes
<1>4. CASE WriteRaisesSigpipe("client")
  <2>1. client' = "killed" /\ SocketClose("client")
    BY <1>4 DEF ReadTerminal
  <2> QED
    BY <1>1, <1>2, <1>3, <2>1, ClientEndKeeps
<1>5. CASE ~WriteRaisesSigpipe("client")
  <2>1. /\ SocketWrite("client", NewlyTyped) /\ client' \in {"poll", "socket"}
    BY <1>5 DEF ReadTerminal
  <2>2. NewlyTyped \in Seq(Bytes) /\ NewlyTyped # <<>>
    <3>1. taken < typed
      BY <1>2 DEF SessionInv, PlaceInv
    <3> QED
      BY <3>1, NewlyTypedBytes
  <2>3. /\ InboxTypes' /\ inbox'["client"] = inbox["client"]
        /\ sock'["server"] = sock["server"]
        /\ sock'["client"] = "open" => sock["client"] = "open"
    <3>1. "client" \in Ends /\ Other("client") = "server"
      BY DEF Ends, Other
    <3>2. InboxTypes /\ sock \in [Ends -> SocketStates]
      BY DEF SessionInv, IInv
    <3> QED
      BY <2>1, <2>2, <3>1, <3>2, WriteArrives
  <2>4. Able' /\ client' \notin {"start", "connect", "terminal", "terminal_socket"}
    BY <2>1 DEF Able
  <2> QED
    BY <1>1, <1>2, <2>3, <2>4, ClientGoesOn
<1> QED
  BY <1>4, <1>5

\* What has arrived is displayed.
LEMMA ShowKeeps ==
  ASSUME SessionInv, IInv, ShowOutput
  PROVE  SessionInv'
<1>1. ClientStep
  BY DEF ClientStep
<1>2. /\ client = "socket" /\ client' = "poll" /\ AllRead("client")
      /\ shown' = shown \o Screen(FlattenSeq(inbox["client"]))
      /\ UNCHANGED <<terminal, taken, sock>>
  BY DEF ShowOutput
<1>3. /\ UNCHANGED <<opt, typed, hungup, host, shell, written, from_shell_open>>
      /\ HostInv' /\ Coming' = Coming
  BY <1>1, ClientFrame
<1>4. InboxTypes' /\ inbox'["client"] = <<>>
  <2>1. "client" \in Ends /\ InboxTypes
    BY DEF Ends, SessionInv
  <2> QED
    BY <1>2, <2>1, ReadEmpties
<1>5. Delivered' /\ shown' \in Seq(Bytes)
  <2>1. Able /\ Able'
    BY <1>2 DEF Able
  <2>2. shown' = shown \o Screen(Arrived) /\ Arrived' = <<>> /\ Carrying' = Carrying
    BY <1>2, <1>3, <1>4, <2>1, FlattenEmpty DEF Arrived, Carrying
  <2>3. HostInv /\ InboxTypes /\ Delivered
    BY DEF SessionInv
  <2> QED
    BY <1>3, <2>1, <2>2, <2>3, ClientShows
<1>6. UserTypes'
  BY <1>2, <1>3, <1>5 DEF SessionInv, UserTypes, ClientPlaces
<1>7. PlaceInv'
  BY <1>2, <1>3 DEF SessionInv, PlaceInv
<1>8. NothingLostAtEnd'
  BY <1>2 DEF NothingLostAtEnd
<1> QED
  BY <1>3, <1>4, <1>5, <1>6, <1>7, <1>8, Zenon DEF SessionInv

\* The client sees the end: all that was sent has been displayed.
LEMMA EndOfSessionKeeps ==
  ASSUME SessionInv, IInv, EndOfSession
  PROVE  SessionInv'
<1>1. ClientStep
  BY DEF ClientStep
<1>2. /\ client = "socket" /\ client' = "end_of_file" /\ inbox["client"] = <<>>
      /\ SocketClose("client") /\ terminal' = "normal" /\ taken' = taken /\ shown' = shown
  BY DEF EndOfSession
<1>3. /\ UNCHANGED <<opt, typed, hungup, host, shell, written, from_shell_open>>
      /\ HostInv' /\ Coming' = Coming
  BY <1>1, ClientFrame
<1>4. InboxTypes' /\ sock'["client"] = "closed"
  <2>1. "client" \in Ends /\ InboxTypes /\ sock \in [Ends -> SocketStates]
    BY DEF Ends, SessionInv, IInv
  <2> QED
    BY <1>2, <2>1, CloseDrops
<1>5. Delivered'
  <2>1. HostInv /\ InboxTypes /\ Delivered /\ ~Able'
    BY <1>2 DEF SessionInv, Able
  <2> QED
    BY <1>2, <1>3, <2>1, ClientLoses
<1>6. NothingLostAtEnd'
  <2> SUFFICES ASSUME host = "harvested" PROVE shown = Screen(written)
    BY <1>2, <1>3 DEF NothingLostAtEnd
  <2>1. Able /\ Arrived = <<>>
    BY <1>2, FlattenEmpty DEF Able, Arrived
  <2>2. PICK first \in Seq(Bytes) : shown = Screen(first) /\ written = first \o (<<>> \o <<>>)
    BY <2>1 DEF SessionInv, Delivered
  <2>3. <<>> \o <<>> = <<>> /\ first \o <<>> = first
    BY ConcatEmptySeq
  <2> QED
    BY <2>2, <2>3
<1>7. UserTypes'
  BY <1>2, <1>3 DEF SessionInv, UserTypes, ClientPlaces
<1>8. PlaceInv'
  BY <1>2, <1>3, <1>4 DEF SessionInv, PlaceInv
<1> QED
  BY <1>3, <1>4, <1>5, <1>6, <1>7, <1>8, Zenon DEF SessionInv

LEMMA ClientKeepsSession ==
  ASSUME SessionInv, IInv, ClientStep \/ ClientFails
  PROVE  SessionInv'
<1>1. terminal \in {"normal", "raw"} /\ InboxTypes
  BY DEF SessionInv, UserTypes
<1>2. CASE ClientFails
  <2>1. /\ SocketClose("client") /\ client' = "failed" /\ terminal' = "normal"
        /\ taken' = taken /\ shown' = shown
    BY <1>2 DEF ClientFails
  <2> QED
    BY <1>2, <2>1, ClientEndKeeps
<1>3. CASE ClientStep
  <2>1. CASE ClientSetUp
    <3>1. /\ Able /\ Able' /\ client = "start" /\ client' = "connect" /\ terminal' = "raw"
          /\ taken' = taken /\ shown' = shown /\ inbox' = inbox /\ sock' = sock
      BY <2>1 DEF ClientSetUp, Able, socketVars
    <3>2. InboxTypes'
      BY <1>1, <3>1 DEF InboxTypes
    <3> QED
      BY <1>3, <3>1, <3>2, ClientGoesOn
  <2>2. CASE ClientPoll
    <3>1. /\ Able /\ Able' /\ client' \notin {"start", "connect"} /\ terminal' = terminal
          /\ taken' = taken /\ shown' = shown /\ inbox' = inbox /\ sock' = sock
          /\ client' \in {"terminal", "terminal_socket"} => taken' < typed
      BY <2>2 DEF ClientPoll, Able, socketVars, TerminalReadable
    <3>2. InboxTypes'
      BY <1>1, <3>1 DEF InboxTypes
    <3> QED
      BY <1>3, <3>1, <3>2, ClientGoesOn
  <2>3. CASE TerminalHungUp
    <3>1. /\ SocketClose("client") /\ client' = "hung_up" /\ terminal' \in {terminal, "normal"}
          /\ taken' = taken /\ shown' = shown
      BY <2>3 DEF TerminalHungUp
    <3> QED
      BY <1>1, <1>3, <3>1, ClientEndKeeps
  <2>4. CASE ShowJoined
    BY <1>3, <2>4, ClientStuckKeeps DEF ShowJoined
  <2>5. CASE SocketError
    <3>1. /\ client = "socket" /\ sock["client"] = "reset"
          /\ UNCHANGED <<terminal, taken, shown>>
          /\ client' \in {"poll", "inflating", "killed"}
          /\ IF client' = "killed" THEN SocketClose("client") ELSE Shut("client")
      BY <2>5 DEF SocketError
    <3>2. CASE client' = "killed"
      BY <1>1, <1>3, <3>1, <3>2, ClientEndKeeps
    <3>3. CASE client' = "inflating"
      BY <1>3, <3>1, <3>3, ClientStuckKeeps
    <3>4. CASE client' = "poll"
      <4>1. inbox' = inbox /\ sock' = [sock EXCEPT !["client"] = "shut"] /\ Able /\ Able'
        BY <3>1, <3>4 DEF Shut, Able
      <4>2. /\ InboxTypes' /\ sock'["server"] = sock["server"]
            /\ sock'["client"] = "open" => sock["client"] = "open"
        BY <1>1, <4>1 DEF InboxTypes, IInv, Ends
      <4> QED
        BY <1>3, <3>1, <3>4, <4>1, <4>2, ClientGoesOn
    <3> QED
      BY <3>1, <3>2, <3>3, <3>4
  <2> QED
    BY <1>3, <2>1, <2>2, <2>3, <2>4, <2>5, ConnectKeeps, TypedKeeps, ShowKeeps,
       EndOfSessionKeeps DEF ClientStep
<1> QED
  BY <1>2, <1>3

-----------------------------------------------------------------------------
(***************************************************************************)
(* The server's steps.                                                     *)
(***************************************************************************)

\* What the server leaves alone; one that takes a step has not ended, and so the
\* client has not seen the end.
LEMMA ServerFrame ==
  ASSUME SessionInv, IInv, ServerStep \/ ServerFailure
  PROVE  /\ UNCHANGED <<opt, typed, hungup, terminal, client, taken, shown>>
         /\ Able' = Able /\ ~ServerEnded /\ NothingLostAtEnd'
<1>1. UNCHANGED <<opt, typed, hungup, terminal, client, taken, shown>>
  BY DEF ServerStep, ServerFailure, InServer, terminalVars, clientVars
<1>2. ~ServerEnded
  <2>1. host \in {"start", "accept", "poll", "input", "forward", "pipe", "reply", "handler"}
    BY SMT DEF ServerStep, ServerFailure, InServer, ServerListen, ServerFork, ForkShell, ServerPoll,
       Poll, ReadClient, ReadJoined, ReadEndOfFile, ReadError, ServerForwards, Forward,
       ForwardInterrupt, ForwardEnd, ForwardByte, ServerReadsShell, PipeSilent, ReadShell,
       ReplyCompressed, ReplyEnd, ReplyByte, ServerQuits, Harvest, sigHandle, ServerFails,
       ServerForkWithoutShell
  <2> QED
    BY <2>1 DEF ServerEnded
<1>3. client # "end_of_file"
  BY <1>2 DEF IInv, ShutdownOrder
<1> QED
  BY <1>1, <1>2, <1>3 DEF Able, NothingLostAtEnd

\* What is left to show of a step of the server.
LEMMA ServerPlacesKept ==
  ASSUME SessionInv, IInv, ServerStep \/ ServerFailure,
         HostInv', host' \in ServerPlaces, InboxTypes', Delivered',
         sock'["client"] = "open" => sock'["server"] = "open",
         client \in {"start", "connect"} =>
           /\ shell' = "none" /\ sock'["client"] = "none"
           /\ ~ServerEnded' => sock'["server"] = "none",
         host' \in {"start", "accept", "elsewhere"} => shell' = "none"
  PROVE  SessionInv'
<1>1. UserTypes'
  BY ServerFrame DEF SessionInv, UserTypes
<1>2. PlaceInv'
  BY ServerFrame DEF SessionInv, PlaceInv
<1>3. NothingLostAtEnd'
  BY ServerFrame
<1> QED
  BY <1>1, <1>2, <1>3, Zenon DEF SessionInv

\* A server that goes on and sends nothing.
LEMMA ServerGoesOnSession ==
  ASSUME SessionInv, IInv, ServerStep \/ ServerFailure,
         HostInv', UNCHANGED <<shell, written>>,
         InboxTypes', inbox'["client"] = inbox["client"],
         sock'["client"] = sock["client"],
         \/ sock'["server"] = sock["server"]
         \/ sock["server"] # "open" /\ sock'["server"] = "shut" /\ client \notin {"start", "connect"},
         sock["server"] = "open" /\ from_shell_open' => from_shell_open /\ Coming' = Coming,
         \/ host = "start" /\ host' \in {"accept", "elsewhere"}
         \/ host' \in {"poll", "input", "forward", "pipe", "reply", "handler", "inflating"}
  PROVE  SessionInv'
<1>1. Delivered'
  <2>1. HostInv /\ InboxTypes /\ Delivered
    BY DEF SessionInv
  <2>2. shown' = shown /\ Able' = Able /\ ~ServerEnded
    BY ServerFrame
  <2>3. Arrived' = Arrived
    BY <2>2 DEF Arrived
  <2>4. Carrying' => Carrying /\ Coming' = Coming
    BY <2>2 DEF Carrying
  <2>5. host' # "harvested"
    OBVIOUS
  <2> QED
    BY <2>1, <2>2, <2>3, <2>4, <2>5, NothingMoves
<1>2. ~ServerEnded
  BY ServerFrame
<1>3. sock'["client"] = "open" => sock'["server"] = "open"
  BY DEF SessionInv, PlaceInv
<1>4. client \in {"start", "connect"} =>
        /\ shell' = "none" /\ sock'["client"] = "none"
        /\ ~ServerEnded' => sock'["server"] = "none"
  BY <1>2 DEF SessionInv, PlaceInv
<1>5. host' \in {"start", "accept", "elsewhere"} => shell' = "none"
  BY DEF SessionInv, PlaceInv
<1>6. host' \in ServerPlaces
  BY DEF ServerPlaces
<1> QED
  BY <1>1, <1>3, <1>4, <1>5, <1>6, ServerPlacesKept

\* The shell is forked, or the child cannot run it.
LEMMA ForkKeepsSession ==
  ASSUME SessionInv, IInv, ServerStep \/ ServerFailure, ServerFork \/ ServerForkWithoutShell
  PROVE  SessionInv'
<1>1. /\ host = "accept" /\ sock["server"] # "none" /\ sock' = sock /\ inbox' = inbox
      /\ ForkShell \/ ExecFails
  BY DEF ServerFork, ServerForkWithoutShell, socketVars
<1>2. shell = "none" /\ written = <<>>
  BY <1>1 DEF SessionInv, PlaceInv, HostInv
<1>3. /\ HostInv' /\ host' = "poll" /\ shell' \in {"reading", "gone"}
      /\ Coming' = written' /\ written' \in Seq(Bytes)
  BY <1>1, <1>2, ForkKeepsHost DEF SessionInv
<1>4. ~ServerEnded /\ client \notin {"start", "connect"} /\ Able' = Able /\ shown' = shown
  BY <1>1, ServerFrame DEF SessionInv, PlaceInv
<1>5. Delivered'
  <2>1. HostInv /\ InboxTypes
    BY DEF SessionInv
  <2>2. PICK first \in Seq(Bytes), rest \in Seq(Bytes) :
          shown = Screen(first) /\ written = first \o (Arrived \o rest)
    BY DEF SessionInv, Delivered
  <2>3. Arrived \in Seq(Bytes)
    BY <2>1, SequenceTypes
  <2>4. first = <<>> /\ Arrived = <<>>
    <3> DEFINE a == Arrived
    <3>1. a \in Seq(Bytes) /\ first \o (a \o rest) = <<>>
      BY <1>2, <2>2, <2>3
    <3> HIDE DEF a
    <3>2. a \o rest \in Seq(Bytes) /\ first = <<>> /\ a \o rest = <<>>
      BY <3>1, ConcatProperties, EmptySeq, LenProperties
    <3>3. a = <<>>
      BY <3>1, <3>2, ConcatProperties, EmptySeq, LenProperties
    <3> QED
      BY <3>2, <3>3 DEF a
  <2>5. Arrived' = <<>>
    BY <1>1, <1>4, <2>4 DEF Arrived
  <2>6. written' = <<>> \o (Arrived' \o written') /\ <<>> \in Seq(Bytes)
    BY <1>3, <2>5, ConcatEmptySeq, EmptySeq
  <2>7. shown' = Screen(<<>>)
    BY <1>4, <2>2, <2>4
  <2> QED
    BY <1>3, <2>6, <2>7 DEF Delivered
<1>6. InboxTypes'
  BY <1>1 DEF SessionInv, InboxTypes
<1>7. sock'["client"] = "open" => sock'["server"] = "open"
  BY <1>1 DEF SessionInv, PlaceInv
<1>8. host' \in ServerPlaces
  BY <1>3 DEF ServerPlaces
<1> QED
  BY <1>3, <1>4, <1>5, <1>6, <1>7, <1>8, ServerPlacesKept

\* The server ends; if because the shell has, all the shell wrote has been sent.
LEMMA ServerEndKeepsSession ==
  ASSUME SessionInv, IInv, ServerStep \/ ServerFailure,
         NEW how \in {"harvested", "sigpipe", "failed", "killed"}, ServerEnds(how),
         how = "harvested" => Coming = <<>> /\ from_shell_open /\ shell = "gone"
  PROVE  SessionInv'
<1>1. /\ HostEnds(how)
      /\ IF shell \in {"none", "gone"} THEN SocketClose("server") ELSE UNCHANGED socketVars
  BY DEF ServerEnds
<1>2. HostInv' /\ host' = how /\ written' = written /\ shell' = shell /\ ~from_shell_open'
  BY <1>1, EndKeepsHost DEF SessionInv
<1>3. InboxTypes /\ sock \in [Ends -> SocketStates] /\ "server" \in Ends /\ Other("server") = "client"
  BY DEF SessionInv, IInv, Ends, Other
<1>4. /\ InboxTypes' /\ inbox'["client"] = inbox["client"]
      /\ sock'["client"] = "open" => sock'["server"] = "open"
      /\ sock["client"] # "open" => sock'["client"] = sock["client"]
  <2>1. CASE shell \in {"none", "gone"}
    BY <1>1, <1>3, <2>1, CloseDrops
  <2>2. CASE shell \notin {"none", "gone"}
    BY <1>1, <1>3, <2>2 DEF socketVars, SessionInv, PlaceInv, InboxTypes
  <2> QED
    BY <2>1, <2>2
<1>5. /\ shown' = shown /\ Able' = Able /\ ~ServerEnded
      /\ UNCHANGED client
  BY ServerFrame
<1>6. Able' /\ host' = "harvested" => Carrying /\ Coming = <<>>
  <2> SUFFICES ASSUME Able, how = "harvested" PROVE sock["server"] = "open"
    BY <1>2, <1>5 DEF Carrying
  <2>1. client \notin {"start", "connect"} /\ shell = "gone"
    BY DEF SessionInv, PlaceInv
  <2>2. sock["client"] \in {"open", "fin", "reset", "shut"}
    BY <2>1 DEF Able, IInv, Connected
  <2>3. sock["client"] = "open"
    BY <1>5, <2>2 DEF IInv, PeerGone
  <2> QED
    BY <2>3 DEF SessionInv, PlaceInv
<1>7. Delivered'
  <2>1. Arrived' = Arrived /\ ~Carrying'
    BY <1>2, <1>4, <1>5 DEF Arrived, Carrying
  <2>2. HostInv /\ Delivered
    BY DEF SessionInv
  <2> QED
    BY <1>2, <1>3, <1>5, <1>6, <2>1, <2>2, NothingMoves
<1>8. /\ client \in {"start", "connect"} =>
           /\ shell' = "none" /\ sock'["client"] = "none"
           /\ ~ServerEnded' => sock'["server"] = "none"
      /\ host' \in ServerPlaces /\ host' \notin {"start", "accept", "elsewhere"}
  BY <1>2, <1>4 DEF SessionInv, PlaceInv, ServerEnded, ServerPlaces
<1> QED
  BY <1>2, <1>4, <1>7, <1>8, ServerPlacesKept

\* What has come from the client is taken.
LEMMA ReadKeepsSession ==
  ASSUME SessionInv, IInv, ServerStep,
         ReadClient \/ ReadJoined \/ ReadEndOfFile \/ (ReadError /\ ~ServerEnds("killed"))
  PROVE  SessionInv'
<1>1. /\ host = "input" /\ host' \in {"forward", "pipe", "inflating"}
      /\ UNCHANGED <<pipe_event, shell, sigint, written, to_shell, to_shell_open, fed,
                     from_shell, from_shell_open>>
      /\ IF host' = "forward" THEN ReadClient ELSE buffer' = buffer
  BY DEF ReadClient, ReadJoined, ReadEndOfFile, ReadError, shellVars, inputPipe, outputPipe,
     socketVars
<1>2. InboxTypes /\ sock \in [Ends -> SocketStates] /\ "server" \in Ends /\ Other("server") = "client"
  BY DEF SessionInv, IInv, Ends, Other
<1>3. buffer' \in Seq(Bytes) /\ (host' = "forward" <=> buffer' # <<>>)
  <2>1. CASE ReadClient
    <3>1. /\ host' = "forward" /\ buffer' = FlattenSeq(inbox["server"]) /\ inbox["server"] # <<>>
      BY <2>1 DEF ReadClient
    <3>2. /\ inbox["server"] \in Seq(Seq(Bytes))
          /\ \A i \in 1..Len(inbox["server"]) : inbox["server"][i] # <<>>
      BY <1>2 DEF InboxTypes
    <3>3. FlattenSeq(inbox["server"]) \in Seq(Bytes) /\ FlattenSeq(inbox["server"]) # <<>>
      BY <3>1, <3>2, FlattenType, FlattenNonEmpty
    <3> QED
      BY <3>1, <3>3
  <2>2. CASE ~ReadClient
    BY <1>1, <2>2 DEF SessionInv, HostInv, HostTypes
  <2> QED
    BY <2>1, <2>2
<1>4. HostInv'
  BY <1>1, <1>3 DEF SessionInv, HostInv, HostTypes, PollTold
<1>5. Coming' = Coming
  BY <1>1 DEF Coming
<1>6. /\ InboxTypes' /\ inbox'["client"] = inbox["client"]
      /\ sock'["client"] = sock["client"]
      /\ \/ sock'["server"] = sock["server"]
         \/ sock["server"] # "open" /\ sock'["server"] = "shut" /\ client \notin {"start", "connect"}
  <2>1. CASE ReadClient \/ ReadJoined
    <3>1. AllRead("server") /\ sock' = sock
      BY <2>1 DEF ReadClient, ReadJoined
    <3> QED
      BY <1>2, <3>1, ReadEmpties
  <2>2. CASE ReadEndOfFile
    BY <1>2, <2>2 DEF ReadEndOfFile, socketVars, InboxTypes
  <2>3. CASE ReadError /\ ~ServerEnds("killed")
    <3>1. sock["server"] = "reset" /\ inbox' = inbox /\ sock' = [sock EXCEPT !["server"] = "shut"]
      BY <2>3 DEF ReadError, Shut
    <3>2. ~ServerEnded
      BY ServerFrame
    <3>3. client \notin {"start", "connect"}
      BY <3>1, <3>2 DEF SessionInv, PlaceInv
    <3> QED
      BY <1>2, <3>1, <3>3 DEF InboxTypes, Ends
  <2> QED
    BY <2>1, <2>2, <2>3
<1> QED
  BY <1>1, <1>4, <1>5, <1>6, ServerGoesOnSession

\* The server replies with what it has read of the shell, or with its first byte.
LEMMA ReplyKeepsSession ==
  ASSUME SessionInv, IInv, ServerStep, ReplyCompressed \/ ReplyByte
  PROVE  SessionInv'
<1>1. /\ host = "reply" /\ ~ServerEnded
      /\ UNCHANGED <<pipe_event, shell, sigint, written, to_shell, to_shell_open, fed,
                     from_shell, from_shell_open>>
  BY DEF ReplyCompressed, ReplyByte, shellVars, inputPipe, outputPipe, ServerEnded
<1>2. InboxTypes /\ sock \in [Ends -> SocketStates] /\ "server" \in Ends /\ Other("server") = "client"
  BY DEF SessionInv, IInv, Ends, Other
<1>3. from_shell_open /\ buffer \in Seq(Bytes) /\ buffer # <<>> /\ shell # "none"
  BY <1>1 DEF SessionInv, HostInv, HostTypes
<1>4. client \notin {"start", "connect"}
  BY <1>3 DEF SessionInv, PlaceInv
<1>5. <<>> \in Seq(Bytes) /\ from_shell \in Seq(Bytes)
  BY EmptySeq DEF SessionInv, HostInv, HostTypes
<1>6. CASE WriteRaisesSigpipe("server")
  <2>1. host' = "handler" /\ buffer' = <<>> /\ sock' = sock /\ inbox' = inbox
    BY <1>6 DEF ReplyCompressed, ReplyByte, socketVars
  <2>2. HostInv'
    BY <1>1, <1>5, <2>1 DEF SessionInv, HostInv, HostTypes, PollTold
  <2>3. sock["server"] # "open" /\ InboxTypes'
    BY <1>2, <1>6, <2>1 DEF WriteRaisesSigpipe, InboxTypes
  <2> QED
    BY <1>1, <2>1, <2>2, <2>3, ServerGoesOnSession
<1>7. CASE ~WriteRaisesSigpipe("server")
  <2>1. PICK bytes \in Seq(Bytes) :
          /\ SocketWrite("server", bytes) /\ bytes # <<>>
          /\ buffer' \in Seq(Bytes) /\ buffer = bytes \o buffer'
          /\ host' = IF buffer' = <<>> THEN "poll" ELSE "reply"
    <3>1. CASE ReplyCompressed
      <4>1. SocketWrite("server", buffer) /\ host' = "poll" /\ buffer' = <<>>
        BY <1>7, <3>1 DEF ReplyCompressed
      <4>2. buffer = buffer \o <<>>
        BY <1>3, ConcatEmptySeq
      <4> QED
        BY <1>3, <1>5, <4>1, <4>2
    <3>2. CASE ReplyByte
      <4>1. /\ SocketWrite("server", <<Head(buffer)>>) /\ buffer' = Tail(buffer)
            /\ host' = IF buffer' = <<>> THEN "poll" ELSE "reply"
        BY <1>7, <3>2 DEF ReplyByte
      <4>2. /\ Head(buffer) \in Bytes /\ Tail(buffer) \in Seq(Bytes)
            /\ buffer = <<Head(buffer)>> \o Tail(buffer)
        BY <1>3, HeadTailProperties
      <4>3. <<Head(buffer)>> \in Seq(Bytes) /\ <<Head(buffer)>> # <<>>
        BY <4>2
      <4> QED
        BY <4>1, <4>2, <4>3
    <3> QED
      BY <3>1, <3>2
  <2>2. HostInv'
    BY <1>1, <1>3, <2>1 DEF SessionInv, HostInv, HostTypes, PollTold
  <2>3. Coming = bytes \o Coming' /\ Coming' \in Seq(Bytes)
    <3>1. Coming = (bytes \o buffer') \o from_shell
      BY <1>1, <2>1 DEF Coming
    <3>2. Coming' = buffer' \o from_shell
      BY <1>1, <2>1 DEF Coming
    <3>3. (bytes \o buffer') \o from_shell = bytes \o (buffer' \o from_shell)
      BY <1>5, <2>1, BytesAssociative, Zenon
    <3>4. buffer' \o from_shell \in Seq(Bytes)
      BY <1>5, <2>1, ConcatProperties
    <3> QED
      BY <3>1, <3>2, <3>3, <3>4
  <2>4. CASE sock["server"] = "open"
    <3>1. /\ InboxTypes' /\ sock' = sock
          /\ FlattenSeq(inbox'["client"]) = FlattenSeq(inbox["client"]) \o bytes
      BY <1>2, <2>1, <2>4, WriteArrives
    <3>2. Able' = Able /\ shown' = shown /\ UNCHANGED client
      BY ServerFrame
    <3>3. Able => Carrying /\ Arrived' = Arrived \o bytes
      BY <1>3, <2>4, <3>1, <3>2 DEF Carrying, Arrived
    <3>4. Carrying' => Carrying
      BY <1>1, <3>1, <3>2 DEF Carrying
    <3>5. Delivered'
      <4>1. HostInv /\ Delivered /\ host' # "harvested"
        BY <2>1 DEF SessionInv
      <4> QED
        BY <1>1, <1>2, <2>1, <2>3, <3>2, <3>3, <3>4, <4>1, BytesArrive
    <3>6. host' \in ServerPlaces /\ host' \notin {"start", "accept", "elsewhere"}
      BY <2>1 DEF ServerPlaces
    <3>7. sock'["client"] = "open" => sock'["server"] = "open"
      BY <2>4, <3>1
    <3> QED
      BY <1>4, <2>2, <3>1, <3>5, <3>6, <3>7, ServerPlacesKept
  <2>5. CASE sock["server"] # "open"
    <3>1. /\ InboxTypes' /\ inbox'["client"] = inbox["client"]
          /\ sock'["client"] = sock["client"] /\ sock'["server"] = "shut"
      <4>1. /\ InboxTypes' /\ inbox' = inbox
            /\ sock'["client"] = sock["client"] /\ sock'["server"] = "shut"
        BY <1>2, <2>1, <2>5, WriteArrives
      <4> QED
        BY <4>1
    <3>2. host' \in {"poll", "reply"}
      BY <2>1
    <3> QED
      BY <1>1, <1>4, <2>2, <2>5, <3>1, <3>2, ServerGoesOnSession
  <2> QED
    BY <2>4, <2>5
<1> QED
  BY <1>6, <1>7

LEMMA ServerKeepsSession ==
  ASSUME SessionInv, IInv, ServerStep \/ ServerFailure
  PROVE  SessionInv'
<1>1. HostInv /\ InboxTypes
  BY DEF SessionInv
<1>2. CASE ServerFailure
  <2>1. CASE ServerFails
    BY <1>2, <2>1, ServerEndKeepsSession DEF ServerFails
  <2> QED
    BY <1>2, <2>1, ForkKeepsSession DEF ServerFailure, InServer
<1>3. CASE ServerStep
  <2>1. CASE ServerListen
    <3>1. /\ host = "start" /\ host' \in {"accept", "elsewhere"} /\ sock' = sock /\ inbox' = inbox
          /\ UNCHANGED <<pipe_event, buffer, shell, sigint, written, to_shell, to_shell_open, fed,
                         from_shell, from_shell_open>>
      BY <2>1 DEF ServerListen, shellVars, inputPipe, outputPipe, socketVars
    <3>2. HostInv' /\ Coming' = Coming /\ InboxTypes'
      BY <1>1, <3>1 DEF HostInv, HostTypes, PollTold, Coming, InboxTypes
    <3> QED
      BY <1>3, <3>1, <3>2, ServerGoesOnSession
  <2>2. CASE ServerPoll \/ ServerForwards \/ ServerReadsShell
    <3>1. /\ (\E readable \in BOOLEAN : Poll(readable)) \/ Forward \/ PipeSilent \/ ReadShell
          /\ sock' = sock /\ inbox' = inbox
      <4>1. ServerPoll => Poll(TRUE) \/ Poll(FALSE)
        <5>1. ServerPoll /\ Readable("server") => Poll(TRUE)
          BY DEF ServerPoll, Poll
        <5>2. ServerPoll /\ ~Readable("server") => Poll(FALSE)
          BY DEF ServerPoll, Poll
        <5> QED
          BY <5>1, <5>2
      <4> QED
        BY <2>2, <4>1 DEF ServerPoll, ServerForwards, ServerReadsShell, socketVars
    <3>2. /\ HostInv' /\ host' \in {"input", "pipe", "forward", "handler", "poll", "reply"}
          /\ written' = written /\ from_shell_open' = from_shell_open
          /\ shell' = shell /\ Coming' = Coming
      BY <1>1, <3>1, RoundKeepsHost
    <3>3. InboxTypes'
      BY <1>1, <3>1 DEF InboxTypes
    <3> QED
      BY <1>3, <3>1, <3>2, <3>3, ServerGoesOnSession
  <2>3. CASE ReadError /\ ServerEnds("killed")
    BY <1>3, <2>3, ServerEndKeepsSession
  <2>4. CASE ReplyEnd
    <3>1. /\ host = "reply" /\ host' = "poll" /\ buffer' = <<>> /\ from_shell' = <<>>
          /\ from_shell_open' = FALSE /\ sock' = sock /\ inbox' = inbox
          /\ UNCHANGED <<pipe_event, shell, sigint, written, to_shell, to_shell_open, fed>>
      BY <2>4 DEF ReplyEnd, shellVars, inputPipe, socketVars
    <3>2. HostInv' /\ InboxTypes'
      BY <1>1, <3>1, EmptySeq DEF HostInv, HostTypes, PollTold, InboxTypes
    <3> QED
      BY <1>3, <3>1, <3>2, ServerGoesOnSession
  <2>5. CASE ServerQuits
    <3>1. CASE Harvest
      <4>1. /\ host = "pipe" /\ pipe_event = "hup" /\ shell = "gone"
            /\ ServerEnds("harvested")
        BY <2>5, <3>1 DEF Harvest, ServerQuits, ServerEnds
      <4>2. from_shell_open /\ from_shell = <<>>
        BY <1>1, <4>1 DEF HostInv, PollTold
      <4>3. Coming = <<>>
        BY <4>1, <4>2 DEF Coming
      <4> QED
        BY <1>3, <4>1, <4>2, <4>3, ServerEndKeepsSession
    <3>2. CASE sigHandle
      <4>1. ServerEnds("sigpipe")
        BY <2>5, <3>2 DEF sigHandle, ServerQuits, ServerEnds
      <4> QED
        BY <1>3, <4>1, ServerEndKeepsSession
    <3> QED
      BY <2>5, <3>1, <3>2 DEF ServerQuits
  <2> QED
    BY <1>3, <2>1, <2>2, <2>3, <2>4, <2>5, ForkKeepsSession, ReadKeepsSession, ReplyKeepsSession
       DEF ServerStep, InServer
<1> QED
  BY <1>2, <1>3

-----------------------------------------------------------------------------
(***************************************************************************)
(* The shell's and the user's steps.                                       *)
(***************************************************************************)
LEMMA ShellKeepsSession ==
  ASSUME SessionInv, IInv, ShellStep
  PROVE  SessionInv'
<1>1. /\ ShellReads \/ ShellWrites \/ CommandEnds \/ ShellQuits
      /\ IF shell' = "gone" /\ ServerEnded THEN SocketClose("server") ELSE UNCHANGED socketVars
      /\ UNCHANGED <<opt, typed, hungup, terminal, client, taken, shown, host>>
      /\ UNCHANGED hostVars
  BY DEF ShellStep, InSession, terminalVars, clientVars, hostVars
<1>2. HostInv /\ InboxTypes /\ sock \in [Ends -> SocketStates] /\ "server" \in Ends
      /\ Other("server") = "client" /\ Delivered
  BY DEF SessionInv, IInv, Ends, Other
<1>3. /\ HostInv' /\ shell \notin {"none", "gone"} /\ shell' # "none"
      /\ from_shell_open' = from_shell_open
  BY <1>1, <1>2, ShellKeepsHost
<1>4. PICK piece \in Seq(Bytes) :
        /\ written' = written \o piece
        /\ from_shell_open => Coming' = Coming \o piece
  BY <1>1, <1>2, ShellKeepsHost
<1>5. /\ InboxTypes' /\ inbox'["client"] = inbox["client"]
      /\ sock'["client"] = "open" => sock'["server"] = "open"
      /\ sock'["server"] = "open" => sock["server"] = "open"
  <2>1. CASE shell' = "gone" /\ ServerEnded
    BY <1>1, <1>2, <2>1, CloseDrops
  <2>2. CASE ~(shell' = "gone" /\ ServerEnded)
    BY <1>1, <1>2, <2>2 DEF socketVars, SessionInv, PlaceInv, InboxTypes
  <2> QED
    BY <2>1, <2>2
<1>6. /\ host # "harvested" /\ client # "end_of_file" /\ client \notin {"start", "connect"}
      /\ host \notin {"start", "accept", "elsewhere"}
  BY <1>3 DEF IInv, ShutdownOrder, SessionInv, PlaceInv
<1>7. Delivered'
  <2>1. Able' = Able /\ Arrived' = Arrived
    BY <1>1, <1>5 DEF Able, Arrived
  <2>2. Carrying' => Carrying /\ Coming' = Coming \o piece
    BY <1>3, <1>4, <1>5, <2>1 DEF Carrying
  <2> QED
    BY <1>1, <1>2, <1>4, <1>6, <2>1, <2>2, NothingArrives
<1>8. UserTypes'
  BY <1>1 DEF SessionInv, UserTypes
<1>9. PlaceInv'
  BY <1>1, <1>5, <1>6 DEF SessionInv, PlaceInv
<1>10. NothingLostAtEnd'
  BY <1>1, <1>6 DEF NothingLostAtEnd
<1> QED
  BY <1>3, <1>5, <1>7, <1>8, <1>9, <1>10, Zenon DEF SessionInv

LEMMA UserKeepsSession ==
  ASSUME SessionInv, UserStep \/ UNCHANGED vars
  PROVE  SessionInv'
<1>1. /\ UNCHANGED <<opt, terminal, client, taken, shown, host, pipe_event, buffer, shell, sigint,
                     written, to_shell, to_shell_open, fed, from_shell, from_shell_open, sock, inbox>>
      /\ \/ typed < Len(opt.script) /\ typed' = typed + 1 /\ hungup' = hungup
         \/ typed' = typed /\ hungup' \in {hungup, TRUE}
  BY DEF UserStep, Type, HangUp, vars, clientVars, socketVars, hostVars, shellVars, inputPipe,
     outputPipe, terminalVars
<1>2. HostInv' /\ Coming' = Coming
  BY <1>1 DEF SessionInv, HostInv, HostTypes, PollTold, Coming
<1>3. Delivered'
  <2>1. HostInv /\ InboxTypes /\ Delivered
    BY DEF SessionInv
  <2>2. Arrived' = Arrived /\ Carrying' = Carrying /\ Able' = Able
    BY <1>1 DEF Arrived, Carrying, Able
  <2> QED
    BY <1>1, <1>2, <2>1, <2>2, NothingMoves
<1>4. /\ typed' \in 0..Len(opt.script) /\ taken \in 0..typed'
      /\ taken < typed => taken < typed'
  <2>1. Len(opt.script) \in Nat
    BY ShellHostAssumption, LenProperties DEF SessionInv, UserTypes
  <2>2. typed \in 0..Len(opt.script) /\ taken \in 0..typed
    BY DEF SessionInv, UserTypes
  <2> DEFINE n == Len(opt.script)
  <2>3. /\ n \in Nat /\ typed \in 0..n /\ taken \in 0..typed
        /\ (typed < n /\ typed' = typed + 1) \/ typed' = typed
    BY <1>1, <2>1, <2>2
  <2> HIDE DEF n
  <2>4. typed' \in 0..n /\ taken \in 0..typed' /\ (taken < typed => taken < typed')
    BY <2>3
  <2> QED
    BY <2>4 DEF n
<1>5. UserTypes'
  BY <1>1, <1>4 DEF SessionInv, UserTypes
<1>6. PlaceInv'
  BY <1>1, <1>4 DEF SessionInv, PlaceInv, ServerEnded
<1>7. InboxTypes' /\ NothingLostAtEnd'
  BY <1>1 DEF SessionInv, InboxTypes, NothingLostAtEnd
<1> QED
  BY <1>2, <1>3, <1>5, <1>6, <1>7, Zenon DEF SessionInv

-----------------------------------------------------------------------------
LEMMA NextSession == SessionInv /\ IInv /\ [Next]_vars => SessionInv'
BY ClientKeepsSession, ServerKeepsSession, ShellKeepsSession, UserKeepsSession DEF Next

\* What is displayed, what has arrived and what is to come make up what the shell has
\* written, in every state: the invariant the order of the output rests on.
THEOREM SessionInvariance == Spec => [](SessionInv /\ IInv)
<1>1. Init => SessionInv /\ IInv
  BY InitSession, InitIInv
<1>2. SessionInv /\ IInv /\ [Next]_vars => (SessionInv /\ IInv)'
  BY NextSession, NextIInv
<1> QED
  BY <1>1, <1>2, PTL DEF Spec

\* Every variable of lab1b-client, lab1b-server and their connection has its type; the
\* server holds bytes exactly while it passes them on.
THEOREM TypeCorrect == Spec => []TypeOK
<1>1. SessionInv /\ IInv => TypeOK
  <2> SUFFICES ASSUME SessionInv, IInv PROVE TypeOK
    OBVIOUS
  <2>1. SessionTypeOK
    BY Zenon DEF SessionInv, UserTypes, HostInv, HostTypes, SessionTypeOK
  <2>2. /\ opt \in [script : Scripts, compress : Compress, log : BOOLEAN]
        /\ client \in ClientPlaces /\ host \in ServerPlaces
    BY DEF SessionInv, UserTypes
  <2>3. /\ sock \in [{"client", "server"} -> {"none", "open", "fin", "reset", "shut", "closed"}]
        /\ inbox \in [{"client", "server"} -> Seq(Seq(Bytes))]
    BY DEF SessionInv, InboxTypes, IInv, Ends, SocketStates
  <2> QED
    BY <2>1, <2>2, <2>3 DEF TypeOK
<1> QED
  BY <1>1, SessionInvariance, PTL

\* lab1b-client displays what the shell wrote from its start and in order, whatever the
\* server read, sent and dropped on the way.
THEOREM ShownInOrder == Spec => []OutputInOrder
<1>1. SessionInv => OutputInOrder
  <2> SUFFICES ASSUME SessionInv PROVE OutputInOrder
    OBVIOUS
  <2>1. PICK first \in Seq(Bytes), rest \in Seq(Bytes) :
          shown = Screen(first) /\ written = first \o (Arrived \o rest)
    BY DEF SessionInv, Delivered
  <2>2. Arrived \o rest \in Seq(Bytes)
    BY <2>1, SequenceTypes, ConcatProperties DEF SessionInv
  <2> QED
    BY <2>1, <2>2, ScreenPrefix DEF OutputInOrder
<1> QED
  BY <1>1, SessionInvariance, PTL

\* A client that has seen the end of the connection has displayed all the shell ever
\* wrote, if lab1b-server ended in its loop.
THEOREM NothingLost == Spec => []NothingLostAtEnd
<1>1. SessionInv => NothingLostAtEnd
  BY DEF SessionInv
<1> QED
  BY <1>1, SessionInvariance, PTL

-----------------------------------------------------------------------------
(***************************************************************************)
(* What the server passes to the shell of what was typed.                  *)
(***************************************************************************)

\* What has been sent and is still to be passed on.
Ahead == (IF host = "forward" THEN buffer ELSE <<>>) \o FlattenSeq(inbox["server"])

\* The server will pass on what comes.
Going ==
  \/ host \in {"start", "accept", "elsewhere"}
  \/ to_shell_open /\ host \in {"poll", "input", "forward", "pipe", "reply"}

\* Before the first ^C and ^D the shell has got all that was read from the terminal,
\* but for what is ahead, and that is what comes next in the script.
Verbatim ==
  /\ Len(fed) <= Len(Clean)
  /\ Len(fed) + Len(Ahead) = taken
  /\ \A j \in 1..Len(Ahead) : Ahead[j] = opt.script[Len(fed) + j]

\* After the first ^C, which has come before a ^D.
Interrupted ==
  /\ Len(fed) >= Len(Clean)
  /\ taken > Len(Clean)
  /\ opt.script[Len(Clean) + 1] = "ETX"

InputInv ==
  /\ \A i \in 1..Len(fed) : i <= Len(Clean) => fed[i] = ToShell(Clean[i])
  /\ Len(fed) > Len(Clean) => opt.script[Len(Clean) + 1] = "ETX"
  /\ Len(fed) + Len(Ahead) <= taken
  /\ Going => Verbatim \/ Interrupted

\* The types these depend on.
InputTyped ==
  /\ opt.script \in Seq(Bytes) /\ Len(opt.script) \in Nat
  /\ \A i \in 1..Len(opt.script) : opt.script[i] \in Bytes
  /\ typed \in Nat /\ taken \in Nat /\ taken <= typed /\ typed <= Len(opt.script)
  /\ fed \in Seq(Bytes) /\ Len(fed) \in Nat /\ buffer \in Seq(Bytes)
  /\ FlattenSeq(inbox["server"]) \in Seq(Bytes)
  /\ Ahead \in Seq(Bytes) /\ Len(Ahead) \in Nat
  /\ Len(Clean) \in Nat
  /\ \A i \in 1..Len(Clean) :
       Clean[i] = opt.script[i] /\ opt.script[i] \notin {"ETX", "EOT"}

LEMMA InputTypes == SessionInv => InputTyped
<1> SUFFICES ASSUME SessionInv PROVE InputTyped
  OBVIOUS
<1>1. opt.script \in Seq(Bytes)
  BY ShellHostAssumption DEF SessionInv, UserTypes
<1>2. fed \in Seq(Bytes) /\ buffer \in Seq(Bytes)
  BY DEF SessionInv, HostInv, HostTypes
<1>3. FlattenSeq(inbox["server"]) \in Seq(Bytes)
  <2>1. inbox["server"] \in Seq(Seq(Bytes))
    BY DEF SessionInv, InboxTypes, Ends
  <2> QED
    BY <2>1, FlattenType
<1>4. Ahead \in Seq(Bytes)
  BY <1>2, <1>3, EmptySeq, ConcatProperties DEF Ahead
<1>5. typed \in 0..Len(opt.script) /\ taken \in 0..typed
  BY DEF SessionInv, UserTypes
<1>6. Len(opt.script) \in Nat
  BY <1>1, LenProperties
<1>7. typed \in Nat /\ taken \in Nat /\ taken <= typed /\ typed <= Len(opt.script)
  <2> DEFINE n == Len(opt.script)
  <2>1. n \in Nat /\ typed \in 0..n /\ taken \in 0..typed
    BY <1>5, <1>6
  <2> HIDE DEF n
  <2>2. typed \in Nat /\ taken \in Nat /\ taken <= typed /\ typed <= n
    BY <2>1
  <2> QED
    BY <2>2 DEF n
<1>8. Len(fed) \in Nat /\ Len(Ahead) \in Nat /\ Len(Clean) \in Nat
  BY <1>1, <1>2, <1>4, CleanBytes, LenProperties
<1>9. \A i \in 1..Len(opt.script) : opt.script[i] \in Bytes
  BY <1>1, LenProperties
<1> QED
  BY <1>1, <1>2, <1>3, <1>4, <1>6, <1>7, <1>8, <1>9, CleanBytes DEF InputTyped

LEMMA InputTypesNext == SessionInv' => InputTyped'
BY InputTypes, PTL

\* What is added to what is ahead comes next in the script if what is ahead does.
LEMMA NextOfScript ==
  ASSUME NEW s \in Seq(Bytes), NEW f \in Nat, NEW ahead \in Seq(Bytes),
         NEW t \in Nat, NEW u \in Nat, t < u, u <= Len(s)
  PROVE  /\ Len(ahead \o SubSeq(s, t + 1, u)) = Len(ahead) + (u - t)
         /\ f + Len(ahead) = t /\ (\A j \in 1..Len(ahead) : ahead[j] = s[f + j]) =>
              \A j \in 1..Len(ahead \o SubSeq(s, t + 1, u)) :
                (ahead \o SubSeq(s, t + 1, u))[j] = s[f + j]
<1> DEFINE new == SubSeq(s, t + 1, u)
<1>1. Len(s) \in Nat /\ Len(ahead) \in Nat /\ \A i \in 1..Len(s) : s[i] \in Bytes
  BY LenProperties
<1>2. /\ new \in Seq(Bytes) /\ Len(new) = u - t
      /\ \A j \in 1..(u - t) : new[j] = s[t + j]
  <2>1. \A i \in (t + 1)..u : s[i] \in Bytes
    BY <1>1
  <2>2. /\ new \in Seq(Bytes)
        /\ Len(new) = IF t + 1 <= u THEN u - (t + 1) + 1 ELSE 0
        /\ \A j \in 1..(u - (t + 1) + 1) : new[j] = s[t + 1 + j - 1]
    BY <1>1, <2>1, SubSeqProperties
  <2> HIDE DEF new
  <2> QED
    BY <1>1, <2>2
<1> HIDE DEF new
<1>3. /\ Len(ahead \o new) = Len(ahead) + Len(new)
      /\ \A j \in 1..Len(ahead) + Len(new) :
           (ahead \o new)[j] = IF j <= Len(ahead) THEN ahead[j] ELSE new[j - Len(ahead)]
  <2>1. new \in Seq(Bytes)
    BY <1>2
  <2> QED
    BY <2>1, ConcatProperties
<1>4. ASSUME f + Len(ahead) = t, \A j \in 1..Len(ahead) : ahead[j] = s[f + j],
             NEW j \in 1..Len(ahead) + Len(new)
      PROVE  (ahead \o new)[j] = s[f + j]
  <2>1. CASE j <= Len(ahead)
    BY <1>1, <1>3, <1>4, <2>1
  <2>2. CASE ~(j <= Len(ahead))
    <3> DEFINE m == Len(ahead)
               n == Len(new)
    <3>0. m \in Nat /\ n = u - t /\ f + m = t /\ j \in 1..m + n /\ ~(j <= m)
      BY <1>1, <1>2, <1>4, <2>2
    <3> HIDE DEF m, n
    <3>9. j - m \in 1..(u - t) /\ t + (j - m) = f + j
      BY <3>0
    <3>1. j - Len(ahead) \in 1..(u - t) /\ t + (j - Len(ahead)) = f + j
      BY <3>9 DEF m
    <3> QED
      BY <1>2, <1>3, <2>2, <3>1
  <2> QED
    BY <2>1, <2>2
<1>5. Len(ahead \o new) = Len(ahead) + (u - t)
  BY <1>1, <1>2, <1>3
<1> QED
  BY <1>3, <1>4, <1>5 DEF new

\* A sequence behind a first byte.
LEMMA FirstByte ==
  ASSUME NEW byte \in Bytes, NEW after \in Seq(Bytes)
  PROVE  /\ Len(<<byte>> \o after) = Len(after) + 1 /\ (<<byte>> \o after)[1] = byte
         /\ \A j \in 1..Len(after) : (<<byte>> \o after)[j + 1] = after[j]
<1> DEFINE one == <<byte>>
<1>1. one \in Seq(Bytes) /\ Len(one) = 1 /\ one[1] = byte /\ Len(after) \in Nat
  BY LenProperties
<1> HIDE DEF one
<1>2. /\ Len(one \o after) = 1 + Len(after)
      /\ \A j \in 1..1 + Len(after) : (one \o after)[j] = IF j <= 1 THEN one[j] ELSE after[j - 1]
  <2>1. /\ Len(one \o after) = Len(one) + Len(after)
        /\ \A j \in 1..Len(one) + Len(after) :
             (one \o after)[j] = IF j <= Len(one) THEN one[j] ELSE after[j - Len(one)]
    BY <1>1, ConcatProperties
  <2> QED
    BY <1>1, <2>1
<1>3. Len(one \o after) = Len(after) + 1 /\ (one \o after)[1] = byte
  BY <1>1, <1>2
<1>4. \A j \in 1..Len(after) : (one \o after)[j + 1] = after[j]
  BY <1>1, <1>2
<1> QED
  BY <1>3, <1>4 DEF one

\* A step that moves nothing of what was typed.
LEMMA InputStays ==
  ASSUME InputInv, opt' = opt, fed' = fed, taken' = taken, Ahead' = Ahead, Going' => Going
  PROVE  InputInv'
<1>1. Clean' = Clean
  BY DEF Clean
<1> QED
  BY <1>1 DEF InputInv, Verbatim, Interrupted, ToShell

\* A step that loses some of what was typed, from the first ^C on or for good.
LEMMA InputLost ==
  ASSUME InputInv, SessionInv, SessionInv', opt' = opt, fed' = fed, taken' >= taken,
         Len(Ahead') <= Len(Ahead), Going' => Interrupted
  PROVE  InputInv'
<1>1. Clean' = Clean
  BY DEF Clean
<1>2. /\ Len(fed) \in Nat /\ taken \in Nat /\ Len(Ahead) \in Nat /\ Len(Clean) \in Nat
      /\ taken' \in Nat /\ Len(Ahead') \in Nat
  BY InputTypes, InputTypesNext DEF InputTyped
<1>3. Len(fed') + Len(Ahead') <= taken'
  BY <1>2 DEF InputInv
<1>4. Going' => Interrupted'
  BY <1>1, <1>2 DEF Interrupted
<1> QED
  BY <1>1, <1>3, <1>4 DEF InputInv, ToShell

\* The client sends what was typed next.
LEMMA InputSent ==
  ASSUME InputInv, SessionInv, opt' = opt, fed' = fed, taken' = typed,
         taken < typed, Ahead' = Ahead \o NewlyTyped, Going' => Going
  PROVE  InputInv'
<1>1. Clean' = Clean
  BY DEF Clean
<1>2. /\ typed \in Nat /\ taken \in Nat /\ taken < typed /\ typed <= Len(opt.script)
      /\ Len(opt.script) \in Nat /\ Len(fed) \in Nat /\ Len(Clean) \in Nat
      /\ Ahead \in Seq(Bytes) /\ Len(Ahead) \in Nat /\ opt.script \in Seq(Bytes)
      /\ \A i \in 1..Len(opt.script) : opt.script[i] \in Bytes
  BY InputTypes DEF InputTyped
<1>3. Len(Ahead') = Len(Ahead) + (typed - taken)
  BY <1>2, NextOfScript DEF NewlyTyped
<1>5. Len(fed') + Len(Ahead') <= taken'
  BY <1>2, <1>3 DEF InputInv
<1>6. ASSUME Verbatim PROVE Verbatim'
  <2>1. /\ Len(fed) + Len(Ahead) = taken /\ Len(fed) <= Len(Clean)
        /\ \A j \in 1..Len(Ahead) : Ahead[j] = opt.script[Len(fed) + j]
    BY <1>6 DEF Verbatim
  <2> DEFINE a == Ahead
             n == NewlyTyped
             f == Len(fed)
  <2>2. /\ Ahead' = a \o n /\ n = SubSeq(opt.script, taken + 1, typed)
        /\ a \in Seq(Bytes) /\ f \in Nat /\ f + Len(a) = taken
        /\ \A j \in 1..Len(a) : a[j] = opt.script[f + j]
    BY <1>2, <2>1 DEF NewlyTyped
  <2> HIDE DEF a, n, f
  <2>3. \A j \in 1..Len(Ahead') : Ahead'[j] = opt.script[f + j]
    <3> DEFINE new == SubSeq(opt.script, taken + 1, typed)
    <3>1. \A j \in 1..Len(a \o new) : (a \o new)[j] = opt.script[f + j]
      <4> DEFINE s == opt.script
                 t == taken
                 u == typed
      <4>1. /\ s \in Seq(Bytes) /\ t \in Nat /\ u \in Nat /\ t < u /\ u <= Len(s)
            /\ a \in Seq(Bytes) /\ f \in Nat /\ f + Len(a) = t
            /\ \A j \in 1..Len(a) : a[j] = s[f + j]
        BY <1>2, <2>2
      <4> HIDE DEF s, t, u
      <4>2. \A j \in 1..Len(a \o SubSeq(s, t + 1, u)) : (a \o SubSeq(s, t + 1, u))[j] = s[f + j]
        BY <4>1, NextOfScript
      <4> QED
        BY <4>2 DEF s, t, u
    <3>2. Ahead' = a \o new
      BY <2>2
    <3> HIDE DEF new
    <3> QED
      BY <3>1, <3>2
  <2>4. f + Len(Ahead') = typed
    <3> DEFINE m == Len(a)
               k == Len(Ahead')
    <3>1. k = m + (typed - taken) /\ m \in Nat /\ f + m = taken /\ f \in Nat
          /\ typed \in Nat /\ taken \in Nat
      BY <1>2, <1>3, <2>2 DEF a
    <3> HIDE DEF m, k
    <3>2. f + k = typed
      BY <3>1
    <3> QED
      BY <3>2 DEF k
  <2> QED
    BY <1>1, <2>1, <2>3, <2>4 DEF Verbatim, f
<1>7. Interrupted => Interrupted'
  BY <1>1, <1>2 DEF Interrupted
<1> QED
  BY <1>1, <1>5, <1>6, <1>7 DEF InputInv, ToShell

\* The server passes on the first byte ahead.
LEMMA InputFed ==
  ASSUME InputInv, SessionInv, SessionInv', opt' = opt, taken' = taken, Going,
         NEW byte \in Bytes \ {"ETX", "EOT"}, Ahead = <<byte>> \o Ahead',
         fed' = Append(fed, ToShell(byte))
  PROVE  InputInv'
<1>1. Clean' = Clean
  BY DEF Clean
<1>2. /\ Len(fed) \in Nat /\ taken \in Nat /\ Len(Ahead) \in Nat /\ Len(Clean) \in Nat
      /\ taken <= Len(opt.script) /\ Len(opt.script) \in Nat
      /\ fed \in Seq(Bytes) /\ Len(Ahead') \in Nat /\ Ahead' \in Seq(Bytes)
  BY InputTypes, InputTypesNext DEF InputTyped
<1>3. /\ Len(Ahead) = Len(Ahead') + 1 /\ Ahead[1] = byte
      /\ \A j \in 1..Len(Ahead') : Ahead[j + 1] = Ahead'[j]
  BY <1>2, FirstByte
<1>4. ToShell(byte) \in Bytes
  BY DEF ToShell, Bytes
<1>5. /\ Len(fed') = Len(fed) + 1 /\ fed'[Len(fed) + 1] = ToShell(byte)
      /\ \A i \in 1..Len(fed) : fed'[i] = fed[i]
  BY <1>2, <1>4, AppendProperties
<1>6. Len(fed') + Len(Ahead') <= taken'
  BY <1>2, <1>3, <1>5 DEF InputInv
<1>7. \A i \in 1..Len(fed) : i <= Len(Clean) => fed'[i] = ToShell(Clean[i])
  BY <1>5 DEF InputInv
<1>8. CASE Verbatim
  <2>1. Ahead[1] = opt.script[Len(fed) + 1] /\ Len(fed) + Len(Ahead) = taken
    BY <1>2, <1>3, <1>8 DEF Verbatim
  <2>2. Len(fed) < Len(Clean)
    <3>1. Len(fed) <= Len(Clean) /\ Len(fed) + 1 \in 1..Len(opt.script)
      BY <1>2, <1>3, <1>8, <2>1 DEF Verbatim
    <3>2. Len(Clean) < Len(opt.script) => opt.script[Len(Clean) + 1] \in {"ETX", "EOT"}
      BY InputTypes, CleanBytes DEF InputTyped
    <3> QED
      BY <1>2, <1>3, <2>1, <3>1, <3>2
  <2>3. byte = Clean[Len(fed) + 1]
    <3>1. Len(fed) + 1 \in 1..Len(Clean)
      BY <1>2, <2>2
    <3> QED
      BY <1>3, <2>1, <3>1, InputTypes DEF InputTyped
  <2>4. \A i \in 1..Len(fed') : i <= Len(Clean) => fed'[i] = ToShell(Clean[i])
    BY <1>2, <1>5, <1>7, <2>3
  <2>5. Verbatim'
    <3>1. ASSUME NEW j \in 1..Len(Ahead') PROVE Ahead'[j] = opt.script[Len(fed') + j]
      <4>1. j + 1 \in 1..Len(Ahead) /\ Ahead'[j] = Ahead[j + 1]
        BY <1>2, <1>3
      <4>2. Ahead[j + 1] = opt.script[Len(fed) + (j + 1)]
        BY <1>8, <4>1 DEF Verbatim
      <4> QED
        BY <1>2, <1>5, <4>1, <4>2
    <3>2. Len(fed') <= Len(Clean) /\ Len(fed') + Len(Ahead') = taken
      BY <1>2, <1>3, <1>5, <2>1, <2>2
    <3> QED
      BY <1>1, <3>1, <3>2 DEF Verbatim
  <2> QED
    BY <1>1, <1>2, <1>5, <1>6, <2>2, <2>4, <2>5 DEF InputInv, ToShell
<1>9. CASE Interrupted
  <2>1. \A i \in 1..Len(fed') : i <= Len(Clean) => fed'[i] = ToShell(Clean[i])
    BY <1>2, <1>5, <1>7, <1>9 DEF Interrupted
  <2>2. Interrupted'
    BY <1>1, <1>2, <1>5, <1>9 DEF Interrupted
  <2> QED
    BY <1>1, <1>6, <1>9, <2>1, <2>2 DEF InputInv, Interrupted, ToShell
<1> QED
  BY <1>8, <1>9 DEF InputInv

\* The first byte ahead is a ^C.
LEMMA InputInterrupted ==
  ASSUME InputInv, SessionInv, Going, Len(Ahead) >= 1, Ahead[1] = "ETX"
  PROVE  Interrupted
<1>1. /\ Len(fed) \in Nat /\ taken \in Nat /\ Len(Ahead) \in Nat /\ Len(Clean) \in Nat
      /\ taken <= Len(opt.script) /\ Len(opt.script) \in Nat
      /\ \A i \in 1..Len(Clean) : opt.script[i] \notin {"ETX", "EOT"}
  BY InputTypes DEF InputTyped
<1>2. CASE Verbatim
  <2>1. /\ opt.script[Len(fed) + 1] = "ETX" /\ Len(fed) + Len(Ahead) = taken
        /\ Len(fed) <= Len(Clean)
    BY <1>1, <1>2 DEF Verbatim
  <2>2. Len(fed) = Len(Clean)
    BY <1>1, <2>1
  <2> QED
    BY <1>1, <2>1, <2>2 DEF Interrupted
<1> QED
  BY <1>2 DEF InputInv

-----------------------------------------------------------------------------
LEMMA InputInit == Init => InputInv
<1> SUFFICES ASSUME Init PROVE InputInv
  OBVIOUS
<1>1. /\ opt.script \in Scripts /\ taken = 0 /\ fed = <<>> /\ host = "start"
      /\ inbox["server"] = <<>>
  BY DEF Init, SessionInit
<1>2. opt.script \in Seq(Bytes)
  BY <1>1, ShellHostAssumption
<1>3. Ahead = <<>>
  BY <1>1, FlattenEmpty, ConcatEmptySeq DEF Ahead
<1>4. Len(Ahead) = 0 /\ Len(fed) = 0 /\ Len(Clean) \in Nat
  BY <1>1, <1>2, <1>3, EmptySeq, CleanBytes, LenProperties
<1> QED
  BY <1>1, <1>4 DEF InputInv, Verbatim

\* The client sends what it reads; once it cannot, nobody is there to take it.
LEMMA ClientKeepsInput ==
  ASSUME InputInv, SessionInv, SessionInv', IInv, ClientStep \/ ClientFails
  PROVE  InputInv'
<1>1. UNCHANGED <<opt, host, buffer, shell, to_shell_open, fed>> /\ typed' = typed
  BY ClientFrame
<1>2. Going' = Going
  BY <1>1 DEF Going
<1>3. InboxTypes /\ sock \in [Ends -> SocketStates] /\ "client" \in Ends /\ Other("client") = "server"
  BY DEF SessionInv, IInv, Ends, Other
<1>4. inbox'["server"] = inbox["server"] => Ahead' = Ahead
  BY <1>1 DEF Ahead
<1>5. CASE ReadTerminal
  <2>1. taken' = typed /\ taken < typed
    BY <1>5 DEF ReadTerminal, SessionInv, PlaceInv
  <2>2. CASE WriteRaisesSigpipe("client")
    <3>1. SocketClose("client") /\ sock["client"] = "shut"
      BY <1>5, <2>2 DEF ReadTerminal, WriteRaisesSigpipe
    <3>2. ~Going'
      BY <1>2, <3>1 DEF IInv, PeerGone, ServerEnded, Going
    <3>3. inbox'["server"] = inbox["server"]
      BY <1>3, <3>1, CloseDrops
    <3>4. taken' >= taken /\ Len(Ahead') <= Len(Ahead)
      BY <1>4, <2>1, <3>3, InputTypes DEF InputTyped
    <3> QED
      BY <1>1, <3>2, <3>4, InputLost
  <2>3. CASE ~WriteRaisesSigpipe("client")
    <3>1. SocketWrite("client", NewlyTyped) /\ client \in {"terminal", "terminal_socket"}
      BY <1>5, <2>3 DEF ReadTerminal
    <3>2. NewlyTyped \in Seq(Bytes) /\ NewlyTyped # <<>>
      BY <2>1, NewlyTypedBytes
    <3>3. CASE sock["client"] = "open"
      <4>1. FlattenSeq(inbox'["server"]) = FlattenSeq(inbox["server"]) \o NewlyTyped
        BY <1>3, <3>1, <3>2, <3>3, WriteArrives
      <4>2. Ahead' = Ahead \o NewlyTyped
        <5> DEFINE kept == IF host = "forward" THEN buffer ELSE <<>>
                   sent == FlattenSeq(inbox["server"])
                   new == NewlyTyped
        <5>1. /\ kept \in Seq(Bytes) /\ sent \in Seq(Bytes) /\ new \in Seq(Bytes)
              /\ Ahead = kept \o sent /\ Ahead' = kept \o (sent \o new)
          BY <1>1, <3>2, <4>1, EmptySeq, InputTypes DEF InputTyped, Ahead
        <5> HIDE DEF kept, sent, new
        <5>2. (kept \o sent) \o new = kept \o (sent \o new)
          BY <5>1, BytesAssociative, Zenon
        <5> QED
          BY <5>1, <5>2 DEF new
      <4> QED
        BY <1>1, <1>2, <2>1, <4>2, InputSent
    <3>4. CASE sock["client"] # "open"
      <4>1. inbox' = inbox
        BY <1>3, <3>1, <3>2, <3>4, WriteArrives
      <4>2. ~Going'
        BY <1>2, <3>1, <3>4 DEF IInv, Connected, PeerGone, ServerEnded, Going
      <4>3. taken' >= taken /\ Len(Ahead') <= Len(Ahead)
        BY <1>4, <2>1, <4>1, InputTypes DEF InputTyped
      <4> QED
        BY <1>1, <4>2, <4>3, InputLost
    <3> QED
      BY <3>3, <3>4
  <2> QED
    BY <2>2, <2>3
<1>6. CASE ~ReadTerminal
  <2>1. taken' = taken
    BY <1>6 DEF ClientStep, ClientSetUp, ClientConnect, ClientPoll, TerminalHungUp, ShowOutput,
       ShowJoined, SocketError, EndOfSession, ClientFails
  <2>2. inbox'["server"] = inbox["server"]
    <3>1. \/ inbox' = inbox \/ AllRead("client") \/ SocketClose("client")
      BY <1>6 DEF ClientStep, ClientSetUp, ClientConnect, ClientPoll, TerminalHungUp, ShowOutput,
         ShowJoined, SocketError, Shut, EndOfSession, ClientFails, socketVars
    <3> QED
      BY <1>3, <3>1, CloseDrops, ReadEmpties
  <2> QED
    BY <1>1, <1>2, <1>4, <2>1, <2>2, InputStays
<1> QED
  BY <1>5, <1>6

\* The server passes on what it has read.
LEMMA ForwardKeepsInput ==
  ASSUME InputInv, SessionInv, SessionInv', IInv, ServerStep, ServerForwards
  PROVE  InputInv'
<1> DEFINE sent == FlattenSeq(inbox["server"])
           after == Tail(buffer)
<1>1. /\ host = "forward" /\ UNCHANGED <<opt, taken, inbox>> /\ Forward
      /\ buffer # <<>> /\ buffer \in Seq(Bytes) /\ sent \in Seq(Bytes)
  <2>1. host = "forward" /\ Forward /\ inbox' = inbox
    BY DEF ServerForwards, Forward, ForwardInterrupt, ForwardEnd, ForwardByte, socketVars
  <2> QED
    BY <2>1, ServerFrame, InputTypes DEF InputTyped, SessionInv, HostInv, HostTypes
<1>2. /\ after \in Seq(Bytes) /\ Head(buffer) \in Bytes /\ buffer = <<Head(buffer)>> \o after
  BY <1>1, HeadTailProperties
<1>3. Ahead = <<Head(buffer)>> \o (after \o sent) /\ after \o sent \in Seq(Bytes)
  <2> DEFINE one == <<Head(buffer)>>
  <2>1. one \in Seq(Bytes) /\ Ahead = (one \o after) \o sent
    BY <1>1, <1>2 DEF Ahead
  <2> HIDE DEF one, after, sent
  <2>2. (one \o after) \o sent = one \o (after \o sent)
    BY <1>1, <1>2, <2>1, BytesAssociative, Zenon
  <2>3. after \o sent \in Seq(Bytes)
    BY <1>1, <1>2, ConcatProperties
  <2> QED
    BY <2>1, <2>2, <2>3 DEF one
<1> HIDE DEF after
<1>4. /\ Len(Ahead) = Len(after \o sent) + 1 /\ Ahead[1] = Head(buffer)
      /\ Len(after \o sent) = Len(after) + Len(sent)
      /\ Len(after) \in Nat /\ Len(sent) \in Nat
  <2> HIDE DEF sent
  <2> QED
    BY <1>1, <1>2, <1>3, FirstByte, ConcatProperties, LenProperties
<1>5. taken' >= taken
  BY <1>1, InputTypes DEF InputTyped
<1>6. ASSUME buffer' = <<>> \/ host' # "forward" PROVE Len(Ahead') <= Len(Ahead)
  <2>1. Ahead' = sent
    <3>1. Ahead' = <<>> \o sent
      BY <1>1, <1>6 DEF Ahead
    <3> QED
      BY <1>1, <3>1, ConcatEmptySeq
  <2> HIDE DEF sent
  <2> QED
    BY <1>4, <2>1
<1>7. CASE ForwardInterrupt
  <2>1. /\ Head(buffer) = "ETX" /\ buffer' = <<>> /\ host' = "pipe"
        /\ to_shell_open' = to_shell_open /\ fed' = fed
    BY <1>7 DEF ForwardInterrupt, inputPipe
  <2>2. Going' => Going
    BY <1>1, <2>1 DEF Going
  <2>3. Going' => Interrupted
    BY <1>4, <2>1, <2>2, InputInterrupted
  <2> QED
    BY <1>1, <1>5, <1>6, <2>1, <2>3, InputLost
<1>8. CASE ForwardEnd
  <2>1. buffer' = <<>> /\ host' = "pipe" /\ to_shell_open' = FALSE /\ fed' = fed
    BY <1>8 DEF ForwardEnd
  <2>2. ~Going'
    BY <2>1 DEF Going
  <2> QED
    BY <1>1, <1>5, <1>6, <2>1, <2>2, InputLost
<1>9. CASE ForwardByte
  <2>1. to_shell_open' = to_shell_open /\ Head(buffer) \notin {"ETX", "EOT"}
    BY <1>9 DEF ForwardByte
  <2>2. CASE to_shell_open /\ shell = "gone"
    <3>1. host' = "handler" /\ buffer' = <<>> /\ fed' = fed
      BY <1>9, <2>2 DEF ForwardByte
    <3>2. ~Going'
      BY <3>1 DEF Going
    <3> QED
      BY <1>1, <1>5, <1>6, <3>1, <3>2, InputLost
  <2>3. CASE ~(to_shell_open /\ shell = "gone")
    <3>1. /\ buffer' = after /\ host' = IF after = <<>> THEN "pipe" ELSE "forward"
          /\ fed' = IF to_shell_open THEN Append(fed, ToShell(Head(buffer))) ELSE fed
      BY <1>9, <2>3 DEF ForwardByte, after
    <3>2. Ahead' = after \o sent
      <4>1. Ahead' = (IF host' = "forward" THEN after ELSE <<>>) \o sent
        BY <1>1, <3>1 DEF Ahead
      <4> QED
        BY <3>1, <4>1
    <3>3. CASE to_shell_open
      <4>1. Going /\ fed' = Append(fed, ToShell(Head(buffer)))
        BY <1>1, <3>1, <3>3 DEF Going
      <4>2. Head(buffer) \in Bytes \ {"ETX", "EOT"}
        BY <1>2, <2>1
      <4>3. Ahead = <<Head(buffer)>> \o Ahead'
        BY <1>3, <3>2
      <4> DEFINE byte == Head(buffer)
      <4> HIDE DEF byte
      <4>4. /\ byte \in Bytes \ {"ETX", "EOT"} /\ Ahead = <<byte>> \o Ahead'
            /\ fed' = Append(fed, ToShell(byte))
        BY <4>1, <4>2, <4>3 DEF byte
      <4> QED
        BY <1>1, <4>1, <4>4, InputFed
    <3>4. CASE ~to_shell_open
      <4>1. ~Going' /\ fed' = fed
        BY <2>1, <3>1, <3>4 DEF Going
      <4>2. Len(Ahead') <= Len(Ahead)
        BY <1>4, <3>2
      <4> QED
        BY <1>1, <1>5, <4>1, <4>2, InputLost
    <3> QED
      BY <3>3, <3>4
  <2> QED
    BY <2>2, <2>3
<1> QED
  BY <1>1, <1>7, <1>8, <1>9 DEF Forward

\* A server that ends, or no longer inflates what it reads, loses what is ahead.
LEMMA LossKeepsInput ==
  ASSUME InputInv, SessionInv, SessionInv', IInv, ServerStep \/ ServerFailure,
         ReadJoined \/ \E how \in {"harvested", "sigpipe", "failed", "killed"} : ServerEnds(how)
  PROVE  InputInv'
<1>1. UNCHANGED <<opt, taken>>
  BY ServerFrame
<1>2. /\ fed' = fed /\ ~Going' /\ host' # "forward"
      /\ inbox' = inbox \/ AllRead("server") \/ SocketClose("server")
  BY DEF ReadJoined, ServerEnds, HostEnds, inputPipe, socketVars, Going
<1>3. inbox'["server"] \in {inbox["server"], <<>>}
  <2>1. InboxTypes /\ sock \in [Ends -> SocketStates] /\ "server" \in Ends
    BY DEF SessionInv, IInv, Ends
  <2> QED
    BY <1>2, <2>1, CloseDrops, ReadEmpties
<1>4. Len(Ahead') <= Len(Ahead)
  <2> DEFINE kept == IF host = "forward" THEN buffer ELSE <<>>
             sent == FlattenSeq(inbox["server"])
  <2>1. kept \in Seq(Bytes) /\ sent \in Seq(Bytes) /\ Ahead = kept \o sent
    BY EmptySeq, InputTypes DEF InputTyped, Ahead
  <2>2. Ahead' \in {sent, <<>>}
    <3>1. Ahead' = <<>> \o FlattenSeq(inbox'["server"])
      BY <1>2 DEF Ahead
    <3>2. FlattenSeq(inbox'["server"]) \in {sent, <<>>}
      BY <1>3, FlattenEmpty
    <3> QED
      BY <2>1, <3>1, <3>2, ConcatEmptySeq, EmptySeq
  <2> HIDE DEF kept, sent
  <2>3. /\ Len(Ahead) = Len(kept) + Len(sent) /\ Len(kept) \in Nat /\ Len(sent) \in Nat
        /\ Len(<<>>) = 0
    BY <2>1, ConcatProperties, LenProperties
  <2> QED
    BY <2>2, <2>3
<1>5. taken' >= taken
  BY <1>1, InputTypes DEF InputTyped
<1> QED
  BY <1>1, <1>2, <1>4, <1>5, InputLost

LEMMA ServerKeepsInput ==
  ASSUME InputInv, SessionInv, SessionInv', IInv, ServerStep \/ ServerFailure
  PROVE  InputInv'
<1>1. UNCHANGED <<opt, taken>>
  BY ServerFrame
<1>2. InboxTypes /\ sock \in [Ends -> SocketStates] /\ "server" \in Ends /\ Other("server") = "client"
  BY DEF SessionInv, IInv, Ends, Other
<1>3. CASE ServerForwards
  <2>1. ServerStep
    BY <1>3 DEF ServerStep, ServerFailure, InServer, ServerForwards, Forward, ForwardInterrupt,
       ForwardEnd, ForwardByte, ServerFails, ServerForkWithoutShell
  <2> QED
    BY <1>3, <2>1, ForwardKeepsInput
<1>4. CASE ReadJoined \/ ServerFails \/ ServerQuits \/ (ReadError /\ ServerEnds("killed"))
  <2>1. ServerQuits => ServerEnds("harvested") \/ ServerEnds("sigpipe")
    BY DEF ServerQuits, Harvest, sigHandle, ServerEnds
  <2>2. ServerFails => ServerEnds("failed")
    BY DEF ServerFails
  <2> QED
    BY <1>4, <2>1, <2>2, LossKeepsInput
\* What has come from the client is taken.
<1>5. CASE ReadClient
  <2>1. /\ host = "input" /\ host' = "forward" /\ buffer' = FlattenSeq(inbox["server"])
        /\ AllRead("server") /\ fed' = fed /\ to_shell_open' = to_shell_open
    BY <1>5 DEF ReadClient, inputPipe
  <2>2. inbox'["server"] = <<>>
    BY <1>2, <2>1, ReadEmpties
  <2>3. Ahead = <<>> \o FlattenSeq(inbox["server"]) /\ Ahead' = FlattenSeq(inbox["server"]) \o <<>>
    BY <2>1, <2>2, FlattenEmpty DEF Ahead
  <2>4. FlattenSeq(inbox["server"]) \in Seq(Bytes)
    BY InputTypes DEF InputTyped
  <2>5. Ahead' = Ahead
    BY <2>3, <2>4, ConcatEmptySeq
  <2>6. Going' => Going
    BY <2>1 DEF Going
  <2> QED
    BY <1>1, <2>1, <2>5, <2>6, InputStays
<1>6. CASE \/ ServerListen \/ ServerFork \/ ServerForkWithoutShell \/ ServerPoll \/ ReadEndOfFile
           \/ (ReadError /\ ~ServerEnds("killed")) \/ ServerReadsShell
           \/ ReplyCompressed \/ ReplyEnd \/ ReplyByte
  <2>1. fed' = fed /\ host # "forward" /\ host' # "forward" /\ (Going' => Going)
    <3>1. CASE ServerListen \/ ServerFork \/ ServerForkWithoutShell
      BY <3>1 DEF ServerListen, ServerFork, ServerForkWithoutShell, ForkShell, ExecFails, inputPipe,
         Going
    <3>2. CASE ServerPoll \/ ServerReadsShell
      BY <3>2 DEF ServerPoll, Poll, ServerReadsShell, PipeSilent, ReadShell, inputPipe, Going
    <3>3. CASE ReadEndOfFile \/ (ReadError /\ ~ServerEnds("killed"))
      BY <3>3 DEF ReadEndOfFile, ReadError, inputPipe, Going
    <3>4. CASE ReplyCompressed \/ ReplyEnd \/ ReplyByte
      BY <3>4 DEF ReplyCompressed, ReplyEnd, ReplyByte, inputPipe, Going
    <3> QED
      BY <1>6, <3>1, <3>2, <3>3, <3>4
  <2>2. inbox'["server"] = inbox["server"]
    <3>1. CASE ReplyCompressed \/ ReplyByte
      <4>1. buffer \in Seq(Bytes) /\ buffer # <<>>
        BY <3>1 DEF ReplyCompressed, ReplyByte, SessionInv, HostInv, HostTypes
      <4>2. /\ Head(buffer) \in Bytes
            /\ <<Head(buffer)>> \in Seq(Bytes) /\ <<Head(buffer)>> # <<>>
        BY <4>1, HeadTailProperties
      <4>3. \/ inbox' = inbox
            \/ \E bytes \in Seq(Bytes) : bytes # <<>> /\ SocketWrite("server", bytes)
        BY <3>1, <4>1, <4>2 DEF ReplyCompressed, ReplyByte, socketVars
      <4> QED
        BY <1>2, <4>3, WriteArrives
    <3>2. CASE ~(ReplyCompressed \/ ReplyByte)
      BY <1>6, <3>2 DEF ServerListen, ServerFork, ServerForkWithoutShell, ServerPoll, ReadEndOfFile,
         ReadError, Shut, ServerReadsShell, ReplyEnd, socketVars
    <3> QED
      BY <3>1, <3>2
  <2>3. Ahead' = Ahead
    BY <2>1, <2>2 DEF Ahead
  <2> QED
    BY <1>1, <2>1, <2>3, InputStays
<1> QED
  BY <1>3, <1>4, <1>5, <1>6 DEF ServerStep, ServerFailure, InServer

\* Neither the shell nor the user touches what is ahead, but for the last of server
\* and shell, which closes the connection.
LEMMA OthersKeepInput ==
  ASSUME InputInv, SessionInv, SessionInv', IInv, ShellStep \/ UserStep \/ UNCHANGED vars
  PROVE  InputInv'
<1>1. /\ UNCHANGED <<opt, taken, host, buffer, fed, to_shell_open>>
      /\ \/ inbox' = inbox
         \/ ServerEnded /\ SocketClose("server")
  BY DEF ShellStep, InSession, ShellReads, ShellWrites, CommandEnds, ShellQuits, UserStep, vars,
     terminalVars, clientVars, hostVars, socketVars, inputPipe
<1>2. Going' = Going
  BY <1>1 DEF Going
<1>3. CASE inbox' = inbox
  BY <1>1, <1>2, <1>3, InputStays DEF Ahead
<1>4. CASE ServerEnded /\ SocketClose("server")
  <2>1. inbox'["server"] = <<>>
    <3>1. InboxTypes /\ sock \in [Ends -> SocketStates] /\ "server" \in Ends
      BY DEF SessionInv, IInv, Ends
    <3> QED
      BY <1>4, <3>1, CloseDrops
  <2>2. host # "forward" /\ ~Going'
    BY <1>2, <1>4 DEF ServerEnded, Going
  <2>3. Ahead' = <<>>
    BY <1>1, <2>1, <2>2, FlattenEmpty, ConcatEmptySeq DEF Ahead
  <2>4. Len(Ahead') <= Len(Ahead) /\ taken' >= taken
    BY <1>1, <2>3, EmptySeq, InputTypes DEF InputTyped
  <2> QED
    BY <1>1, <2>2, <2>4, InputLost
<1> QED
  BY <1>1, <1>3, <1>4

\* What lab1b-server passes to the shell is what was typed at the client, in order and with
\* line feeds for carriage returns; nothing after the first ^D, and after the first ^C
\* what the loss of the rest of a buffer leaves.
THEOREM FedAsTyped == Spec => []InputInOrder
<1> DEFINE AllInv == InputInv /\ SessionInv /\ IInv
<1>1. Init => AllInv
  BY InputInit, InitSession, InitIInv
<1>2. AllInv /\ [Next]_vars => AllInv'
  <2> SUFFICES ASSUME AllInv, [Next]_vars PROVE AllInv'
    OBVIOUS
  <2>1. SessionInv' /\ IInv'
    BY NextSession, NextIInv
  <2>2. InputInv'
    BY <2>1, ClientKeepsInput, ServerKeepsInput, OthersKeepInput DEF Next
  <2> QED
    BY <2>1, <2>2
<1>3. AllInv => InputInOrder
  <2> SUFFICES ASSUME InputInv, SessionInv PROVE InputInOrder
    OBVIOUS
  <2>1. Len(fed) <= taken
    BY InputTypes DEF InputInv, InputTyped
  <2> QED
    BY <2>1 DEF InputInv, InputInOrder, ToShell
<1> HIDE DEF AllInv
<1> QED
  BY <1>1, <1>2, <1>3, PTL DEF Spec
=============================================================================
