----------------------------- MODULE Lab1aProofs -----------------------------
(***************************************************************************)
(* Theorems about Lab1a, for every set of scripts and of shell outputs:    *)
(* what the program makes of the bytes that are typed.                     *)
(***************************************************************************)
EXTENDS Lab1a, ShellHostProofs

\* The places in which the program has a shell and goes on.
Passing == host \in {"poll", "input", "forward", "pipe", "reply"}

\* How much of what was read from the terminal is still to be passed on.
Pending == IF host = "forward" THEN Len(buffer) ELSE 0

\* The types that the shell's input depends on.
FeedTypes ==
  /\ opt.script \in Scripts
  /\ typed \in 0..Len(opt.script)
  /\ taken \in 0..typed
  /\ fed \in Seq(Bytes)
  /\ buffer \in Seq(Bytes)
  /\ from_shell \in Seq(Bytes)

\* Where the program is tells what it has read.
PlaceInv ==
  /\ host = "forward" => buffer # <<>>
  /\ host = "input" => taken < typed
  /\ host \in {"start", "fork"} => taken = 0 /\ fed = <<>>
  /\ to_shell_open => Passing \/ host = "handler"

\* Before the first ^C and ^D the shell has got all that was read, but for what
\* is pending, and that is what comes next in the script.
Verbatim ==
  /\ Len(fed) <= Len(Clean)
  /\ Len(fed) + Pending = taken
  /\ host = "forward" =>
       \A j \in 1..Len(buffer) : buffer[j] = opt.script[Len(fed) + j]

\* After the first ^C, which has come before a ^D.
Interrupted ==
  /\ Len(fed) >= Len(Clean)
  /\ taken > Len(Clean)
  /\ opt.script[Len(Clean) + 1] = "ETX"

\* What has been fed so far.
FedInv ==
  /\ \A i \in 1..Len(fed) : i <= Len(Clean) => fed[i] = ToShell(Clean[i])
  /\ Len(fed) > Len(Clean) => opt.script[Len(Clean) + 1] = "ETX"
  /\ Len(fed) + Pending <= taken

IInv ==
  /\ FeedTypes
  /\ PlaceInv
  /\ FedInv
  /\ to_shell_open /\ Passing => Verbatim \/ Interrupted

-----------------------------------------------------------------------------
(***************************************************************************)
(* What comes before the first ^C and ^D.                                  *)
(***************************************************************************)
\* The script is a sequence of bytes, and so is what comes first of it.
LEMMA CleanFacts ==
  ASSUME FeedTypes
  PROVE  /\ opt.script \in Seq(Bytes) /\ Len(opt.script) \in Nat
         /\ \A i \in 1..Len(opt.script) : opt.script[i] \in Bytes
         /\ Clean \in Seq(Bytes) /\ Len(Clean) \in Nat
         /\ Len(Clean) <= Len(opt.script)
         /\ \A i \in 1..Len(Clean) :
              Clean[i] = opt.script[i] /\ opt.script[i] \notin {"ETX", "EOT"}
         /\ Len(Clean) < Len(opt.script) =>
              opt.script[Len(Clean) + 1] \in {"ETX", "EOT"}
<1>1. opt.script \in Seq(Bytes)
  BY ShellHostAssumption DEF FeedTypes
<1> QED
  BY <1>1, CleanBytes, LenProperties

-----------------------------------------------------------------------------
(***************************************************************************)
(* The steps that pass bytes on.                                           *)
(***************************************************************************)

\* What a step that passes bytes on leaves alone.
LEMMA ForwardFrame ==
  ASSUME TerminalToShell, UNCHANGED <<opt, terminalVars>>
  PROVE  /\ opt' = opt /\ typed' = typed /\ taken' = taken /\ Clean' = Clean
         /\ from_shell' = from_shell /\ host = "forward"
<1>1. opt' = opt /\ typed' = typed /\ taken' = taken
  BY DEF TerminalToShell, terminalVars
<1>2. Clean' = Clean
  BY <1>1 DEF Clean
<1> QED
  BY <1>1, <1>2 DEF TerminalToShell, Forward, ForwardInterrupt, ForwardEnd, ForwardByte,
     outputPipe

\* A control character passes nothing on; ^C leaves what came before it, and after ^D
\* the pipe is closed.
LEMMA ControlKeeps ==
  ASSUME IInv, TerminalToShell, UNCHANGED <<opt, terminalVars>>,
         ForwardInterrupt \/ ForwardEnd
  PROVE  IInv'
<1>1. /\ UNCHANGED <<opt, typed, taken, from_shell, fed>> /\ Clean' = Clean
      /\ host = "forward" /\ host' = "pipe" /\ buffer' = <<>>
      /\ to_shell_open' => to_shell_open /\ Head(buffer) = "ETX"
  BY ForwardFrame DEF ForwardInterrupt, ForwardEnd, shellVars, inputPipe
<1>2. FeedTypes' /\ PlaceInv'
  BY <1>1, EmptySeq DEF IInv, FeedTypes, PlaceInv, Passing
<1>3. /\ Len(fed) \in Nat /\ Len(buffer) \in Nat /\ buffer # <<>>
      /\ taken \in Nat /\ Len(fed) + Len(buffer) <= taken
  BY <1>1, LenProperties DEF IInv, FeedTypes, PlaceInv, FedInv, Pending
<1>4. FedInv'
  BY <1>1, <1>3 DEF IInv, FedInv, Pending, ToShell
<1>5. to_shell_open' /\ Passing' => Interrupted'
  <2> SUFFICES ASSUME to_shell_open' PROVE Interrupted
    BY <1>1 DEF Interrupted
  <2>1. buffer[1] = "ETX" /\ Len(buffer) >= 1
    BY <1>1, <1>3, EmptySeq, HeadTailProperties DEF IInv, FeedTypes
  <2>2. CASE Verbatim
    <3>1. opt.script[Len(fed) + 1] = "ETX"
      BY <1>1, <1>3, <2>1, <2>2 DEF Verbatim
    <3>2. Len(fed) = Len(Clean) /\ taken > Len(Clean)
      BY <1>1, <1>3, <2>1, <2>2, <3>1, CleanFacts DEF IInv, Verbatim, Pending
    <3> QED
      BY <1>3, <3>1, <3>2 DEF Interrupted
  <2> QED
    BY <1>1, <2>2 DEF IInv, Passing
<1> QED
  BY <1>2, <1>4, <1>5 DEF IInv

\* A byte of another kind is passed on, or dropped when there is no pipe to pass it to.
LEMMA ByteKeeps ==
  ASSUME IInv, TerminalToShell, UNCHANGED <<opt, terminalVars>>, ForwardByte
  PROVE  IInv'
<1> DEFINE byte == ToShell(buffer[1])
<1>1. /\ UNCHANGED <<opt, typed, taken, from_shell, to_shell_open>> /\ Clean' = Clean
      /\ host = "forward" /\ buffer # <<>>
      /\ buffer[1] \in Bytes \ {"ETX", "EOT"} /\ byte \in Bytes
  BY ForwardFrame, HeadTailProperties
     DEF ForwardByte, IInv, FeedTypes, PlaceInv, ToShell, Bytes
<1>2. /\ Len(fed) \in Nat /\ Len(buffer) \in Nat \ {0}
      /\ Tail(buffer) \in Seq(Bytes) /\ Len(Tail(buffer)) = Len(buffer) - 1
      /\ \A j \in 1..Len(Tail(buffer)) : Tail(buffer)[j] = buffer[j + 1]
      /\ taken \in Nat /\ Len(fed) + Len(buffer) <= taken /\ taken <= Len(opt.script)
      /\ Len(Clean) \in Nat /\ Len(opt.script) \in Nat
  BY <1>1, EmptySeq, LenProperties, HeadTailProperties, CleanFacts
     DEF IInv, FeedTypes, FedInv, Pending
\* The shell is gone: SIGPIPE.
<1>3. CASE to_shell_open /\ shell = "gone"
  <2>1. host' = "handler" /\ buffer' = <<>> /\ fed' = fed
    BY <1>1, <1>3 DEF ForwardByte
  <2> QED
    BY <1>1, <1>2, <2>1, EmptySeq
       DEF IInv, FeedTypes, PlaceInv, FedInv, Pending, Passing, ToShell
<1>4. CASE ~(to_shell_open /\ shell = "gone")
  <2>1. /\ buffer' = Tail(buffer)
        /\ host' = IF Tail(buffer) = <<>> THEN "pipe" ELSE "forward"
        /\ fed' = IF to_shell_open THEN Append(fed, byte) ELSE fed
    BY <1>1, <1>4 DEF ForwardByte
  <2>2. Pending' = Len(buffer) - 1 /\ Pending = Len(buffer)
    <3>1. Tail(buffer) = <<>> => Len(buffer) - 1 = 0
      BY <1>2, EmptySeq
    <3> QED
      BY <1>1, <1>2, <2>1, <3>1 DEF Pending
  <2>3. CASE ~to_shell_open
    <3>1. fed' = fed /\ ~to_shell_open'
      BY <1>1, <2>1, <2>3
    <3>2. FeedTypes' /\ PlaceInv'
      BY <1>1, <1>2, <2>1, <3>1 DEF IInv, FeedTypes, PlaceInv, Passing
    <3> QED
      BY <1>1, <1>2, <2>2, <3>1, <3>2 DEF IInv, FedInv, ToShell
  <2>4. CASE to_shell_open
    <3>1. /\ fed' \in Seq(Bytes) /\ Len(fed') = Len(fed) + 1
          /\ \A i \in 1..Len(fed) : fed'[i] = fed[i]
          /\ fed'[Len(fed) + 1] = byte
      BY <1>1, <2>1, <2>4, AppendProperties DEF IInv, FeedTypes
    <3>2. FeedTypes' /\ PlaceInv'
      BY <1>1, <1>2, <2>1, <3>1 DEF IInv, FeedTypes, PlaceInv, Passing
    <3>3. CASE Verbatim
      <4>1. buffer[1] = opt.script[Len(fed) + 1] /\ Len(fed) + Len(buffer) = taken
        BY <1>1, <1>2, <3>3 DEF Verbatim, Pending
      <4>2. Len(fed) < Len(Clean)
        BY <1>1, <1>2, <3>3, <4>1, CleanFacts DEF IInv, Verbatim
      <4>3. byte = ToShell(Clean[Len(fed) + 1])
        BY <1>2, <4>1, <4>2, CleanFacts DEF IInv
      <4>4. FedInv'
        <5>1. \A i \in 1..Len(fed') : i <= Len(Clean) => fed'[i] = ToShell(Clean[i])
          <6>1. \A i \in 1..Len(fed) : i <= Len(Clean) => fed'[i] = ToShell(Clean[i])
            BY <3>1 DEF IInv, FedInv
          <6> QED
            BY <1>2, <3>1, <4>3, <6>1
        <5> QED
          BY <1>1, <1>2, <2>2, <3>1, <4>1, <4>2, <5>1 DEF FedInv, ToShell
      <4>5. Verbatim'
        <5>1. \A j \in 1..Len(buffer') : buffer'[j] = opt.script[Len(fed') + j]
          <6> SUFFICES ASSUME NEW j \in 1..Len(Tail(buffer))
                       PROVE  Tail(buffer)[j] = opt.script[Len(fed) + 1 + j]
            BY <2>1, <3>1
          <6>1. Tail(buffer)[j] = buffer[j + 1] /\ j + 1 \in 1..Len(buffer)
            BY <1>2
          <6>2. buffer[j + 1] = opt.script[Len(fed) + (j + 1)]
            BY <1>1, <3>3, <6>1 DEF Verbatim
          <6> QED
            BY <1>2, <6>1, <6>2
        <5>2. Len(fed') <= Len(Clean) /\ Len(fed') + Pending' = taken
          BY <1>2, <2>2, <3>1, <4>1, <4>2
        <5> QED
          BY <1>1, <5>1, <5>2 DEF Verbatim
      <4> QED
        BY <3>2, <4>4, <4>5 DEF IInv
    <3>4. CASE Interrupted
      <4>1. FedInv'
        <5>1. \A i \in 1..Len(fed) : i <= Len(Clean) => fed'[i] = ToShell(Clean[i])
          BY <3>1 DEF IInv, FedInv
        <5>2. \A i \in 1..Len(fed') : i <= Len(Clean) => fed'[i] = ToShell(Clean[i])
          BY <1>2, <3>1, <3>4, <5>1 DEF Interrupted
        <5> QED
          BY <1>1, <1>2, <2>2, <3>1, <3>4, <5>2 DEF FedInv, Interrupted, ToShell
      <4>2. Interrupted'
        BY <1>1, <1>2, <3>1, <3>4 DEF Interrupted
      <4> QED
        BY <3>2, <4>1, <4>2 DEF IInv
    <3> QED
      BY <1>1, <2>4, <3>3, <3>4 DEF IInv, Passing
  <2> QED
    BY <2>3, <2>4
<1> QED
  BY <1>3, <1>4

-----------------------------------------------------------------------------
(***************************************************************************)
(* The other steps.                                                        *)
(***************************************************************************)

\* A step that feeds nothing and neither opens the pipe nor, while it is open, reads
\* the terminal.
LEMMA QuietStep ==
  ASSUME IInv, FeedTypes', PlaceInv',
         opt' = opt, fed' = fed, taken <= taken',
         to_shell_open' => to_shell_open /\ taken' = taken /\ (Passing' => Passing),
         \/ host # "forward" /\ host' # "forward"
         \/ host' = host /\ buffer' = buffer
  PROVE  IInv'
<1>1. Clean' = Clean
  BY DEF Clean
<1>2. /\ Len(fed) \in Nat /\ taken \in Nat /\ taken' \in Nat
      /\ Len(fed) + Pending <= taken /\ Pending' = Pending /\ Pending \in Nat
  BY LenProperties DEF IInv, FeedTypes, FedInv, Pending
<1>3. FedInv'
  BY <1>1, <1>2 DEF IInv, FedInv, ToShell
<1>4. to_shell_open' /\ Passing' => Verbatim' \/ Interrupted'
  BY <1>1, <1>2 DEF IInv, Verbatim, Interrupted
<1> QED
  BY <1>3, <1>4 DEF IInv

\* The shell starts with nothing read.
LEMMA ForkKeeps ==
  ASSUME IInv, Fork \/ ForkWithoutShell, UNCHANGED <<opt, terminalVars>>
  PROVE  IInv'
<1>1. /\ opt' = opt /\ typed' = typed /\ taken' = taken /\ fed' = fed
      /\ buffer' = buffer /\ host' = "poll" /\ taken = 0 /\ fed = <<>>
      /\ from_shell' \in {from_shell, <<"x">>} /\ Clean' = Clean
  BY DEF Fork, ForkWithoutShell, ForkShell, ExecFails, terminalVars, IInv, PlaceInv, Clean
<1>2. FeedTypes' /\ PlaceInv'
  <2>1. <<"x">> \in Seq(Bytes)
    BY DEF Bytes
  <2> QED
    BY <1>1, <2>1 DEF IInv, FeedTypes, PlaceInv, Passing
<1>3. Len(fed') = 0 /\ Pending' = 0 /\ Len(Clean) \in Nat
  BY <1>1, EmptySeq, CleanFacts DEF Pending, IInv
<1>4. FedInv' /\ Verbatim'
  BY <1>1, <1>3 DEF FedInv, Verbatim
<1> QED
  BY <1>2, <1>4 DEF IInv

\* What is read comes next in the script.
LEMMA ReadKeeps ==
  ASSUME IInv, ReadTerminal, UNCHANGED <<opt, terminalVars>>
  PROVE  IInv'
<1>1. /\ opt' = opt /\ typed' = typed /\ taken' = typed /\ fed' = fed
      /\ buffer' = NewlyTyped /\ host = "input" /\ host' = "forward"
      /\ to_shell_open' = to_shell_open /\ from_shell' = from_shell /\ Clean' = Clean
  BY DEF ReadTerminal, terminalVars, inputPipe, outputPipe, Clean
<1>2. /\ typed \in Nat /\ taken \in Nat /\ taken < typed /\ typed <= Len(opt.script)
      /\ Len(opt.script) \in Nat /\ Len(fed) \in Nat /\ Len(fed) <= taken
      /\ Len(Clean) \in Nat
  BY <1>1, LenProperties, CleanFacts DEF IInv, FeedTypes, PlaceInv, FedInv, Pending
<1>3. /\ NewlyTyped \in Seq(Bytes) /\ Len(NewlyTyped) = typed - taken
      /\ \A j \in 1..(typed - taken) : NewlyTyped[j] = opt.script[taken + j]
  <2>1. \A i \in (taken + 1)..typed : opt.script[i] \in Bytes
    BY <1>2, CleanFacts DEF IInv
  <2>2. /\ NewlyTyped \in Seq(Bytes)
        /\ Len(NewlyTyped) = IF taken + 1 <= typed THEN typed - (taken + 1) + 1 ELSE 0
        /\ \A j \in 1..(typed - (taken + 1) + 1) :
             NewlyTyped[j] = opt.script[taken + 1 + j - 1]
    BY <1>2, <2>1, SubSeqProperties DEF NewlyTyped
  <2> QED
    BY <1>2, <2>2
<1>4. FeedTypes' /\ PlaceInv'
  <2>1. NewlyTyped # <<>>
    BY <1>2, <1>3, EmptySeq
  <2> QED
    BY <1>1, <1>2, <1>3, <2>1 DEF IInv, FeedTypes, PlaceInv, Passing
<1>5. Pending' = typed - taken /\ Pending = 0
  BY <1>1, <1>3 DEF Pending
<1>6. FedInv'
  BY <1>1, <1>2, <1>5 DEF IInv, FedInv, ToShell
<1>7. ASSUME Verbatim PROVE Verbatim'
  <2>1. Len(fed) <= Len(Clean) /\ Len(fed) = taken
    BY <1>2, <1>5, <1>7 DEF Verbatim
  <2>2. \A j \in 1..Len(buffer') : buffer'[j] = opt.script[Len(fed) + j]
    BY <1>1, <1>3, <2>1
  <2>3. Len(fed) + Pending' = typed
    BY <1>2, <1>5, <2>1
  <2> QED
    BY <1>1, <2>1, <2>2, <2>3 DEF Verbatim
<1>8. Interrupted => Interrupted'
  BY <1>1, <1>2 DEF Interrupted
<1> QED
  BY <1>1, <1>4, <1>6, <1>7, <1>8 DEF IInv, Passing

-----------------------------------------------------------------------------
LEMMA InitIInv == Init => IInv
<1> SUFFICES ASSUME Init PROVE IInv
  OBVIOUS
<1>1. /\ opt.script \in Scripts /\ typed = 0 /\ taken = 0 /\ host = "start"
      /\ fed = <<>> /\ buffer = <<>> /\ from_shell = <<>> /\ ~to_shell_open
  BY DEF Init, SessionInit
<1>2. FeedTypes
  <2>1. opt.script \in Seq(Bytes)
    BY <1>1, ShellHostAssumption
  <2> QED
    BY <1>1, <2>1, EmptySeq, LenProperties DEF FeedTypes
<1>3. PlaceInv
  BY <1>1 DEF PlaceInv
<1>4. FedInv
  BY <1>1, <1>2, EmptySeq, CleanFacts DEF FedInv, Pending
<1> QED
  BY <1>1, <1>2, <1>3, <1>4 DEF IInv

\* The main program's steps that pass nothing on.
LEMMA MainKeeps ==
  ASSUME IInv, UNCHANGED <<opt, terminalVars>>,
         \/ terminal_setup \/ SystemCallFails \/ Copy \/ CopyEndOfFile \/ CopyEnds
         \/ PollBoth \/ ReadPipe \/ ShellToTerminal \/ HarvestShell \/ HandleSigpipe
  PROVE  IInv'
<1>1. /\ opt' = opt /\ typed' = typed /\ fed' = fed
      /\ taken' = taken \/ (host = "copy" /\ taken' = typed)
      /\ host # "forward" /\ host' # "forward"
      /\ to_shell_open' => to_shell_open /\ (Passing' => Passing) /\ Passing'
      /\ host' = "input" => taken' < typed'
      /\ host' \notin {"start", "fork"} \/ (host = "start" /\ taken' = taken)
      /\ buffer' \in {buffer, from_shell, <<>>}
      /\ from_shell' \in {from_shell, <<>>}
  BY SMT DEF terminal_setup, SystemCallFails, Copy, CopyEndOfFile, CopyEnds, PollBoth,
     ReadPipe, ShellToTerminal, HarvestShell, HandleSigpipe, terminalVars, HostEnds,
     Poll, PipeSilent, ReadShell, Reply, Harvest, sigHandle, shellVars, inputPipe,
     outputPipe, Passing, TerminalReadable, IInv, PlaceInv
<1>2. /\ taken \in Nat /\ typed \in Nat /\ taken <= typed
      /\ Len(opt.script) \in Nat /\ <<>> \in Seq(Bytes)
  BY EmptySeq, CleanFacts DEF IInv, FeedTypes
<1>3. FeedTypes'
  <2>1. taken' \in 0..typed
    BY <1>1, <1>2
  <2>2. buffer' \in Seq(Bytes) /\ from_shell' \in Seq(Bytes) /\ fed' \in Seq(Bytes)
    BY <1>1, <1>2 DEF IInv, FeedTypes
  <2> QED
    BY <1>1, <2>1, <2>2 DEF IInv, FeedTypes
<1>4. PlaceInv'
  BY <1>1 DEF IInv, PlaceInv, Passing
<1>5. to_shell_open => host # "copy"
  BY DEF IInv, PlaceInv, Passing
<1> QED
  BY <1>1, <1>2, <1>3, <1>4, <1>5, QuietStep

\* The user types, and the shell reads, writes and ends.
LEMMA OthersKeep ==
  ASSUME IInv, UserStep \/ ShellStep \/ UNCHANGED vars
  PROVE  IInv'
<1>1. /\ UNCHANGED <<opt, taken, fed, host, buffer, to_shell_open>>
      /\ \/ typed' = typed
         \/ typed < Len(opt.script) /\ typed' = typed + 1
      /\ from_shell' = from_shell \/ \E piece \in OutputPieces : from_shell' = from_shell \o piece
  BY DEF UserStep, Type, HangUp, ShellStep, ByItself, ShellReads, ShellWrites,
     CommandEnds, ShellQuits, ShellEnds, vars, terminalVars, hostVars, shellVars,
     inputPipe, outputPipe
<1>2. from_shell' \in Seq(Bytes)
  BY <1>1, ShellHostAssumption, ConcatProperties DEF IInv, FeedTypes
<1>3. taken \in Nat /\ typed \in Nat /\ taken <= typed /\ Len(opt.script) \in Nat
  BY CleanFacts DEF IInv, FeedTypes
<1>4. FeedTypes'
  BY <1>1, <1>2, <1>3 DEF IInv, FeedTypes
<1>5. PlaceInv'
  BY <1>1, <1>3 DEF IInv, PlaceInv, Passing
<1> QED
  BY <1>1, <1>3, <1>4, <1>5, QuietStep DEF Passing

LEMMA NextIInv == IInv /\ [Next]_vars => IInv'
<1> SUFFICES ASSUME IInv, [Next]_vars PROVE IInv'
  OBVIOUS
<1>1. CASE MainStep
  <2>1. CASE TerminalToShell
    BY <1>1, <2>1, ControlKeeps, ByteKeeps DEF MainStep, TerminalToShell, Forward
  <2> QED
    BY <1>1, <2>1, MainKeeps, ForkKeeps, ReadKeeps DEF MainStep
<1>2. CASE Failure
  BY <1>2, MainKeeps, ForkKeeps DEF Failure
<1>3. CASE UserStep \/ ShellStep \/ UNCHANGED vars
  BY <1>3, OthersKeep
<1> QED
  BY <1>1, <1>2, <1>3 DEF Next

\* Until the first ^C the shell has got what was read but for what is pending, in
\* every state: the invariant the order of its input rests on.
THEOREM Invariance == Spec => []IInv
BY InitIInv, NextIInv, PTL DEF Spec

\* What lab1a passes to the shell is what was typed, in order, with line feeds for
\* carriage returns, nothing after the first ^D, and nothing before all that came
\* before a ^C.
THEOREM FedAsTyped == Spec => []InputInOrder
<1>1. IInv => InputInOrder
  <2> SUFFICES ASSUME IInv PROVE InputInOrder
    OBVIOUS
  <2>1. Len(fed) \in Nat /\ Pending \in Nat /\ taken \in Nat
    BY LenProperties DEF IInv, FeedTypes, Pending
  <2>2. Len(fed) <= taken
    BY <2>1 DEF IInv, FedInv
  <2> QED
    BY <2>2 DEF IInv, FedInv, InputInOrder, ToShell
<1> QED
  BY Invariance, <1>1, PTL

-----------------------------------------------------------------------------
(***************************************************************************)
(* What the user is shown, and what he is left with.                       *)
(***************************************************************************)

\* What is displayed is a first part of what has been written; as long as the pipe is
\* open, what comes after it is what is still to be passed on.
Displayed ==
  \E first, rest \in Seq(Bytes) :
    /\ shown = Screen(first)
    /\ written = first \o rest
    /\ from_shell_open => rest = Coming

\* The places the program gets to with a shell.
Hosting == {"fork", "poll", "input", "forward", "pipe", "reply", "handler", "harvested",
            "sigpipe"}

\* The types of what the host and the shell do not share, and where the program can be.
UserTypes ==
  /\ opt \in [script : Scripts, shell : BOOLEAN]
  /\ hungup \in BOOLEAN
  /\ terminal \in {"normal", "raw"}
  /\ shown \in Seq(Bytes)
  /\ host \in {"start", "copy", "restore", "finished", "failed"} \union Hosting

SessionInv ==
  /\ UserTypes
  /\ HostInv
  /\ Displayed
  /\ LeftBehind
  /\ host \in Hosting => opt.shell
  /\ host \in {"start", "fork"} => shell = "none"
  /\ host = "handler" => shell = "gone"

LEMMA ComingType ==
  ASSUME HostInv
  PROVE  Coming \in Seq(Bytes) /\ written \in Seq(Bytes) /\ buffer \in Seq(Bytes)
BY EmptySeq, ConcatProperties DEF Coming, HostInv, HostTypes

\* A step that displays nothing: what is written joins what is to come.
LEMMA NothingShown ==
  ASSUME HostInv, Displayed, shown' = shown,
         NEW piece \in Seq(Bytes), written' = written \o piece,
         from_shell_open' => from_shell_open /\ Coming' = Coming \o piece
  PROVE  Displayed'
<1>1. PICK first \in Seq(Bytes), rest \in Seq(Bytes) :
        /\ shown = Screen(first)
        /\ written = first \o rest
        /\ from_shell_open => rest = Coming
  BY DEF Displayed
<1>2. written' = first \o (rest \o piece)
  <2>1. (first \o rest) \o piece = first \o (rest \o piece)
    BY <1>1, BytesAssociative, Zenon
  <2> QED
    BY <1>1, <2>1
<1>3. rest \o piece \in Seq(Bytes)
  BY ConcatProperties
<1>4. from_shell_open' => rest \o piece = Coming'
  BY <1>1
<1> QED
  BY <1>1, <1>2, <1>3, <1>4 DEF Displayed

\* The same, when nothing is written either.
LEMMA NothingWritten ==
  ASSUME HostInv, Displayed, shown' = shown, written' = written,
         from_shell_open' => from_shell_open /\ Coming' = Coming
  PROVE  Displayed'
<1>1. /\ <<>> \in Seq(Bytes) /\ written \o <<>> = written /\ Coming \o <<>> = Coming
  BY ComingType, ConcatEmptySeq, EmptySeq
<1> QED
  BY <1>1, NothingShown

\* A reply displays what comes next of what was written.
LEMMA ReplyShows ==
  ASSUME HostInv, Displayed, ShellToTerminal
  PROVE  HostInv' /\ Displayed' /\ shown' \in Seq(Bytes)
<1> DEFINE I == {i \in 1..Len(buffer \o <<"EOT">>) : (buffer \o <<"EOT">>)[i] = "EOT"}
           n == SelectInSeq(buffer \o <<"EOT">>, LAMBDA byte : byte = "EOT")
           now == SubSeq(buffer, 1, n - 1)
           late == SubSeq(buffer, n, Len(buffer))
           close == Contains(buffer, "EOT")
<1>1. /\ host = "reply" /\ host' = "poll" /\ buffer' = <<>> /\ written' = written
      /\ shown' = shown \o Screen(now)
      /\ from_shell_open' = ~close
      /\ from_shell' = IF close THEN <<>> ELSE from_shell
      /\ UNCHANGED <<pipe_event, shell, sigint, to_shell, to_shell_open, fed>>
  BY DEF ShellToTerminal, Reply, shellVars, inputPipe
<1>2. /\ buffer \in Seq(Bytes) /\ from_shell \in Seq(Bytes) /\ Len(buffer) \in Nat
      /\ <<>> \in Seq(Bytes) /\ from_shell_open
  BY <1>1, LenProperties, EmptySeq DEF HostInv, HostTypes
<1>3. HostInv'
  BY <1>1, <1>2 DEF HostInv, HostTypes, PollTold
\* The first ^D, or the place after the end.
<1>4. /\ n \in 1..(Len(buffer) + 1)
      /\ ~close => n = Len(buffer) + 1
  <2>1. "EOT" \in Bytes
    BY DEF Bytes
  <2>2. buffer \o <<"EOT">> = Append(buffer, "EOT")
    BY <1>2, <2>1, AppendIsConcat
  <2>3. /\ Len(buffer \o <<"EOT">>) = Len(buffer) + 1
        /\ \A i \in 1..Len(buffer) : (buffer \o <<"EOT">>)[i] = buffer[i]
        /\ (buffer \o <<"EOT">>)[Len(buffer) + 1] = "EOT"
    BY <1>2, <2>1, <2>2, AppendProperties
  <2>4. I \in SUBSET Nat /\ Len(buffer) + 1 \in I
    BY <1>2, <2>3
  <2>5. n = Min(I)
    BY <2>4 DEF SelectInSeq
  <2>6. n \in I
    <3>1. \E i \in I : \A j \in I : i <= j
      BY <2>4, Least
    <3> QED
      BY <2>5, <3>1 DEF Min
  <2>7. ~close => I = {Len(buffer) + 1}
    BY <1>2, <2>3, <2>4 DEF Contains
  <2> HIDE DEF n
  <2> QED
    BY <1>2, <2>3, <2>6, <2>7
<1> HIDE DEF n
<1>5. now \in Seq(Bytes) /\ late \in Seq(Bytes) /\ buffer = now \o late
  <2>1. /\ \A i \in 1..(n - 1) : buffer[i] \in Bytes
        /\ \A i \in n..Len(buffer) : buffer[i] \in Bytes
    BY <1>2, <1>4, LenProperties
  <2>2. /\ now \in Seq(Bytes) /\ Len(now) = n - 1
        /\ \A i \in 1..(n - 1) : now[i] = buffer[i]
    BY <1>2, <1>4, <2>1, SubSeqProperties
  <2>3. /\ late \in Seq(Bytes) /\ Len(late) = Len(buffer) - n + 1
        /\ \A i \in 1..(Len(buffer) - n + 1) : late[i] = buffer[n + i - 1]
    BY <1>2, <1>4, <2>1, SubSeqProperties
  <2> HIDE DEF now, late
  <2>4. /\ now \o late \in Seq(Bytes) /\ Len(now \o late) = Len(buffer)
        /\ \A i \in 1..Len(buffer) : (now \o late)[i] = IF i <= n - 1 THEN now[i] ELSE late[i - (n - 1)]
    <3>1. /\ now \o late \in Seq(Bytes) /\ Len(now \o late) = Len(now) + Len(late)
          /\ \A i \in 1..Len(now) + Len(late) :
               (now \o late)[i] = IF i <= Len(now) THEN now[i] ELSE late[i - Len(now)]
      BY <2>2, <2>3, ConcatProperties
    <3> QED
      BY <1>2, <1>4, <2>2, <2>3, <3>1
  <2>5. ASSUME NEW i \in 1..Len(buffer) PROVE (now \o late)[i] = buffer[i]
    <3>1. CASE i <= n - 1
      BY <1>4, <2>2, <2>4, <3>1
    <3>2. CASE ~(i <= n - 1)
      <4>1. i - (n - 1) \in 1..(Len(buffer) - n + 1) /\ n + (i - (n - 1)) - 1 = i
        BY <1>2, <1>4, <3>2
      <4> QED
        BY <2>3, <2>4, <3>2, <4>1
    <3> QED
      BY <3>1, <3>2
  <2> QED
    BY <1>2, <2>2, <2>3, <2>4, <2>5, SeqEqual
<1>6. ~close => late = <<>>
  BY <1>2, <1>4, SubSeqEmpty
<1> HIDE DEF now, late
<1>7. PICK first \in Seq(Bytes), rest \in Seq(Bytes) :
        shown = Screen(first) /\ written = first \o rest /\ rest = Coming
  BY <1>2 DEF Displayed
<1>8. written = (first \o now) \o (late \o from_shell)
  <2>1. Coming = (now \o late) \o from_shell
    BY <1>1, <1>5 DEF Coming
  <2>2. (now \o late) \o from_shell = now \o (late \o from_shell)
    <3> HIDE DEF I, close
    <3> QED
      BY <1>2, <1>5, BytesAssociative
  <2>3. late \o from_shell \in Seq(Bytes)
    BY <1>2, <1>5, ConcatProperties
  <2>4. first \o (now \o (late \o from_shell)) = (first \o now) \o (late \o from_shell)
    BY <1>5, <1>7, <2>3, BytesAssociative, Zenon
  <2> QED
    BY <1>7, <2>1, <2>2, <2>4
<1>9. shown' = Screen(first \o now) /\ first \o now \in Seq(Bytes)
  BY <1>1, <1>5, <1>7, ScreenConcat, ConcatProperties
<1>10. shown' \in Seq(Bytes) /\ late \o from_shell \in Seq(Bytes)
  BY <1>2, <1>5, <1>9, ScreenType, ConcatProperties
<1>11. from_shell_open' => late \o from_shell = Coming'
  <2> SUFFICES ASSUME from_shell_open' PROVE late \o from_shell = Coming'
    OBVIOUS
  <2>1. Coming' = <<>> \o from_shell
    BY <1>1 DEF Coming
  <2> QED
    BY <1>1, <1>6, <2>1
<1>12. Displayed'
  BY <1>1, <1>8, <1>9, <1>10, <1>11 DEF Displayed
<1> QED
  BY <1>3, <1>10, <1>12

LEMMA InitSession == Init => SessionInv
<1> SUFFICES ASSUME Init PROVE SessionInv
  OBVIOUS
<1>1. HostInv
  BY HostInit DEF Init
<1>2. /\ opt \in [script : Scripts, shell : BOOLEAN] /\ hungup = FALSE /\ terminal = "normal"
      /\ shown = <<>> /\ host = "start" /\ shell = "none" /\ written = <<>>
      /\ ~from_shell_open /\ <<>> \in Seq(Bytes)
  BY EmptySeq DEF Init, SessionInit
<1>3. Displayed
  <2>1. shown = Screen(<<>>) /\ written = <<>> \o <<>>
    BY <1>2, ScreenEmpty, ConcatEmptySeq
  <2> QED
    BY <1>2, <2>1 DEF Displayed
<1>4. UserTypes
  BY <1>2 DEF UserTypes
<1>5. LeftBehind
  BY <1>2 DEF LeftBehind, Ended
<1>6. host \notin Hosting /\ host # "handler" /\ shell = "none"
  BY <1>2 DEF Hosting
<1> QED
  BY <1>1, <1>3, <1>4, <1>5, <1>6 DEF SessionInv

\* The user's steps, and the steps before there is a shell and of a copy without one.
LEMMA StillKeeps ==
  ASSUME SessionInv,
         \/ UserStep \/ UNCHANGED vars
         \/ /\ terminal_setup \/ Copy \/ CopyEndOfFile \/ ReadTerminal
            /\ UNCHANGED <<opt, terminalVars>>,
         host = "input" => NewlyTyped \in Seq(Bytes) /\ NewlyTyped # <<>>
  PROVE  SessionInv'
<1>1. /\ UNCHANGED <<opt, shown, pipe_event, shell, sigint, written, to_shell,
                     to_shell_open, fed, from_shell, from_shell_open>>
      /\ hungup' \in {hungup, TRUE}
      /\ \/ UNCHANGED <<host, buffer, terminal, taken>>
         \/ host = "start" /\ buffer' = buffer /\ terminal' = "raw"
                           /\ host' = IF opt.shell THEN "fork" ELSE "copy"
         \/ host = "copy" /\ host' \in {"copy", "restore"} /\ buffer' = buffer /\ terminal' = terminal
         \/ host = "input" /\ host' = "forward" /\ buffer' = NewlyTyped /\ terminal' = terminal
  BY DEF UserStep, Type, HangUp, vars, terminal_setup, Copy, CopyEndOfFile, ReadTerminal,
     terminalVars, hostVars, shellVars, inputPipe, outputPipe
<1>2. HostInv'
  BY <1>1 DEF SessionInv, HostInv, HostTypes, PollTold
<1>3. host' = "reply" <=> host = "reply"
  BY <1>1
<1>4. Coming' = Coming
  BY <1>1, <1>3 DEF Coming
<1>5. Displayed'
  BY <1>1, <1>4, NothingWritten DEF SessionInv
<1>6. UserTypes'
  BY <1>1 DEF SessionInv, UserTypes, Hosting
<1>7. LeftBehind'
  <2>1. CASE UNCHANGED <<host, buffer, terminal, taken>>
    BY <1>1, <2>1 DEF SessionInv, LeftBehind, Ended
  <2>2. CASE ~UNCHANGED <<host, buffer, terminal, taken>>
    BY <1>1, <2>2 DEF LeftBehind, Ended
  <2> QED
    BY <2>1, <2>2
<1> QED
  BY <1>1, <1>2, <1>5, <1>6, <1>7 DEF SessionInv, Hosting

\* The shell's steps.
LEMMA ShellKeeps ==
  ASSUME SessionInv, ShellStep
  PROVE  SessionInv'
<1>1. /\ UNCHANGED <<opt, hungup, terminal, taken, shown, host>> /\ UNCHANGED hostVars
      /\ ShellReads \/ ShellWrites \/ CommandEnds \/ ShellQuits
      /\ fed' = fed
  BY DEF ShellStep, ByItself, terminalVars, hostVars, ShellReads, ShellWrites, CommandEnds,
     ShellQuits
<1>2. /\ HostInv' /\ shell \notin {"none", "gone"} /\ shell' # "none"
      /\ from_shell_open' = from_shell_open
  BY <1>1, ShellKeepsHost DEF SessionInv
<1>3. PICK piece \in Seq(Bytes) :
        /\ written' = written \o piece
        /\ from_shell_open => Coming' = Coming \o piece
  BY <1>1, ShellKeepsHost DEF SessionInv
<1>4. Displayed'
  BY <1>1, <1>2, <1>3, NothingShown DEF SessionInv
<1>5. host \notin {"harvested", "sigpipe"}
  BY <1>2 DEF SessionInv, LeftBehind
<1>6. host # "handler"
  BY <1>2 DEF SessionInv
<1> QED
  BY <1>1, <1>2, <1>4, <1>5, <1>6 DEF SessionInv, UserTypes, Hosting, LeftBehind, Ended

\* A program that ends without its shell having ended.
LEMMA EndKeeps ==
  ASSUME SessionInv, SystemCallFails \/ CopyEnds, UNCHANGED <<opt, terminalVars>>
  PROVE  SessionInv'
<1>1. PICK how \in {"finished", "failed"} : HostEnds(how)
  BY DEF SystemCallFails, CopyEnds
<1>2. /\ HostInv' /\ host' = how /\ written' = written /\ ~from_shell_open'
      /\ shown' = shown /\ opt' = opt /\ hungup' = hungup /\ terminal' = "normal"
  BY <1>1, EndKeepsHost DEF SessionInv, SystemCallFails, CopyEnds, terminalVars
<1>3. Displayed'
  BY <1>2, NothingWritten DEF SessionInv
<1> QED
  BY <1>2, <1>3 DEF SessionInv, UserTypes, Hosting, LeftBehind, Ended

\* The end of a program whose shell has ended.
LEMMA HarvestKeeps ==
  ASSUME SessionInv, HarvestShell \/ HandleSigpipe, UNCHANGED <<opt, terminalVars>>
  PROVE  SessionInv'
<1>1. PICK how \in {"harvested", "sigpipe"} : HostEnds(how)
  BY DEF HarvestShell, Harvest, HandleSigpipe, sigHandle
<1>2. /\ HostInv' /\ host' = how /\ written' = written /\ shell' = shell /\ ~from_shell_open'
      /\ shown' = shown /\ opt' = opt /\ hungup' = hungup /\ taken' = taken /\ fed' = fed
      /\ terminal' \in {terminal, "normal"} /\ shell = "gone"
      /\ host \in {"pipe", "handler"}
  BY <1>1, EndKeepsHost DEF SessionInv, HarvestShell, Harvest, HandleSigpipe, sigHandle,
     terminalVars, HostEnds
<1>3. Displayed'
  BY <1>2, NothingWritten DEF SessionInv
<1>4. CASE HarvestShell
  <2>1. /\ host = "pipe" /\ pipe_event = "hup" /\ host' = "harvested" /\ terminal' = "normal"
    BY <1>4 DEF HarvestShell, Harvest, HostEnds
  <2>2. from_shell_open /\ from_shell = <<>> /\ Coming = <<>>
    <3>1. from_shell_open /\ from_shell = <<>>
      BY <2>1 DEF SessionInv, HostInv, PollTold
    <3>2. Coming = <<>> \o <<>>
      BY <2>1, <3>1 DEF Coming
    <3> QED
      BY <3>1, <3>2
  <2>3. shown = Screen(written)
    <3>1. PICK first \in Seq(Bytes) : shown = Screen(first) /\ written = first \o <<>>
      BY <2>2 DEF SessionInv, Displayed
    <3> QED
      BY <3>1, ConcatEmptySeq
  <2>4. LeftBehind'
    BY <1>2, <2>1, <2>3 DEF LeftBehind, Ended
  <2> QED
    BY <1>2, <1>3, <2>1, <2>4 DEF SessionInv, UserTypes, Hosting
<1>5. CASE HandleSigpipe
  <2>1. host = "handler" /\ host' = "sigpipe" /\ terminal' = terminal
    BY <1>5 DEF HandleSigpipe, sigHandle, HostEnds
  <2>2. LeftBehind'
    BY <1>2, <2>1 DEF SessionInv, LeftBehind, Ended
  <2> QED
    BY <1>2, <1>3, <2>1, <2>2 DEF SessionInv, UserTypes, Hosting
<1> QED
  BY <1>4, <1>5

\* The shell is started, or cannot be.
LEMMA ForkKeepsSession ==
  ASSUME SessionInv, Fork \/ ForkWithoutShell, UNCHANGED <<opt, terminalVars>>
  PROVE  SessionInv'
<1>1. /\ host = "fork"
      /\ ForkShell \/ ExecFails
      /\ UNCHANGED <<opt, hungup, terminal, taken, shown>>
  BY DEF Fork, ForkWithoutShell, terminalVars
<1>2. /\ HostInv' /\ host' = "poll" /\ Coming' = written' /\ written' \in Seq(Bytes)
      /\ shell = "none" /\ written = <<>>
  BY <1>1, ForkKeepsHost DEF SessionInv, HostInv
<1>3. Displayed'
  <2>1. PICK first \in Seq(Bytes), rest \in Seq(Bytes) :
          shown = Screen(first) /\ written = first \o rest
    BY DEF SessionInv, Displayed
  <2>2. first = <<>>
    <3>1. first \o rest = <<>>
      BY <1>2, <2>1
    <3> QED
      BY <3>1, ConcatEqualIffEmpty
  <2>3. written' = <<>> \o written' /\ <<>> \in Seq(Bytes)
    BY <1>2, ConcatEmptySeq, EmptySeq
  <2> QED
    BY <1>1, <1>2, <2>1, <2>2, <2>3 DEF Displayed
<1> QED
  BY <1>1, <1>2, <1>3 DEF SessionInv, UserTypes, Hosting, LeftBehind, Ended

\* A round of the loop.  The handler is entered with a byte left that was read and not fed.
LEMMA RoundKeeps ==
  ASSUME SessionInv, IInv, PollBoth \/ TerminalToShell \/ ReadPipe,
         UNCHANGED <<opt, terminalVars>>
  PROVE  SessionInv'
<1>1. /\ (\E readable \in BOOLEAN : Poll(readable)) \/ Forward \/ PipeSilent \/ ReadShell
      /\ UNCHANGED <<opt, hungup, terminal, taken, shown>>
  <2>1. PollBoth => \E readable \in BOOLEAN : Poll(readable)
    <3>1. PollBoth /\ TerminalReadable => Poll(TRUE)
      BY DEF PollBoth, Poll
    <3>2. PollBoth /\ ~TerminalReadable => Poll(FALSE)
      BY DEF PollBoth, Poll
    <3> QED
      BY <3>1, <3>2
  <2> QED
    BY <2>1 DEF PollBoth, TerminalToShell, ReadPipe, terminalVars
<1>2. /\ HostInv' /\ host' \in {"input", "pipe", "forward", "handler", "poll", "reply"}
      /\ written' = written /\ from_shell_open' = from_shell_open
      /\ shell' = shell /\ Coming' = Coming
  BY <1>1, RoundKeepsHost DEF SessionInv
<1>3. Displayed'
  BY <1>1, <1>2, NothingWritten DEF SessionInv
<1>4. host \in {"poll", "forward", "pipe"}
  BY DEF PollBoth, Poll, TerminalToShell, Forward, ForwardInterrupt, ForwardEnd, ForwardByte,
     ReadPipe, PipeSilent, ReadShell
<1>5. host' = "handler" => shell = "gone" /\ taken > Len(fed) /\ fed' = fed
  <2> SUFFICES ASSUME host' = "handler"
               PROVE  shell = "gone" /\ taken > Len(fed) /\ fed' = fed
    OBVIOUS
  <2>1. host = "forward" /\ to_shell_open /\ shell = "gone" /\ fed' = fed
    BY DEF PollBoth, Poll, TerminalToShell, Forward, ForwardInterrupt, ForwardEnd, ForwardByte,
       ReadPipe, PipeSilent, ReadShell
  <2>2. Len(fed) \in Nat /\ Len(buffer) \in Nat \ {0} /\ taken \in Int
    BY <2>1, LenProperties, EmptySeq DEF IInv, FeedTypes, PlaceInv
  <2>3. Len(fed) + Len(buffer) <= taken
    BY <2>1 DEF IInv, FedInv, Pending
  <2> QED
    BY <2>1, <2>2, <2>3
<1>6. opt.shell
  BY <1>4 DEF SessionInv, Hosting
<1>7. LeftBehind'
  BY <1>1, <1>2, <1>5, <1>6 DEF LeftBehind, Ended
<1>8. UserTypes'
  BY <1>1, <1>2 DEF SessionInv, UserTypes, Hosting
<1> QED
  BY <1>1, <1>2, <1>3, <1>5, <1>6, <1>7, <1>8 DEF SessionInv

LEMMA ReplyKeeps ==
  ASSUME SessionInv, ShellToTerminal, UNCHANGED <<opt, terminalVars>>
  PROVE  SessionInv'
<1>1. HostInv' /\ Displayed' /\ shown' \in Seq(Bytes)
  BY ReplyShows DEF SessionInv
<1>2. /\ host = "reply" /\ host' = "poll"
      /\ UNCHANGED <<opt, hungup, terminal>>
  BY DEF ShellToTerminal, Reply, terminalVars
<1> QED
  BY <1>1, <1>2 DEF SessionInv, UserTypes, Hosting, LeftBehind, Ended

LEMMA NextSession == SessionInv /\ IInv /\ [Next]_vars => SessionInv'
<1> SUFFICES ASSUME SessionInv, IInv, [Next]_vars PROVE SessionInv'
  OBVIOUS
<1>1. host = "input" => NewlyTyped \in Seq(Bytes) /\ NewlyTyped # <<>>
  <2> SUFFICES ASSUME host = "input" PROVE NewlyTyped \in Seq(Bytes) /\ NewlyTyped # <<>>
    OBVIOUS
  <2>1. /\ taken \in Nat /\ typed \in Nat /\ taken < typed /\ typed <= Len(opt.script)
        /\ \A i \in (taken + 1)..typed : opt.script[i] \in Bytes
    BY CleanFacts DEF IInv, FeedTypes, PlaceInv
  <2>2. NewlyTyped \in Seq(Bytes) /\ Len(NewlyTyped) = typed - taken
    BY <2>1, SubSeqProperties DEF NewlyTyped
  <2> QED
    BY <2>1, <2>2, EmptySeq
<1>2. CASE UserStep \/ UNCHANGED vars
  BY <1>1, <1>2, StillKeeps
<1>3. CASE ShellStep
  BY <1>3, ShellKeeps
<1>4. CASE MainStep \/ Failure
  <2>1. UNCHANGED <<opt, terminalVars>>
    BY <1>4 DEF MainStep, Failure
  <2>2. CASE terminal_setup \/ Copy \/ CopyEndOfFile \/ ReadTerminal
    BY <1>1, <2>1, <2>2, StillKeeps
  <2>3. CASE SystemCallFails \/ CopyEnds
    BY <2>1, <2>3, EndKeeps
  <2>4. CASE HarvestShell \/ HandleSigpipe
    BY <2>1, <2>4, HarvestKeeps
  <2>5. CASE Fork \/ ForkWithoutShell
    BY <2>1, <2>5, ForkKeepsSession
  <2>6. CASE PollBoth \/ TerminalToShell \/ ReadPipe
    BY <2>1, <2>6, RoundKeeps
  <2>7. CASE ShellToTerminal
    BY <2>1, <2>7, ReplyKeeps
  <2> QED
    BY <1>4, <2>2, <2>3, <2>4, <2>5, <2>6, <2>7 DEF MainStep, Failure
<1> QED
  BY <1>2, <1>3, <1>4 DEF Next

\* What is displayed and what is to come make up what the shell has written, in every
\* state: the invariant the properties of lab1a's output rest on.
THEOREM SessionInvariance == Spec => [](SessionInv /\ IInv)
<1>1. SessionInv /\ IInv /\ [Next]_vars => (SessionInv /\ IInv)'
  BY NextSession, NextIInv
<1> QED
  BY InitSession, InitIInv, <1>1, PTL DEF Spec

\* Every variable of lab1a has its type, and the buffer holds something where the loop
\* passes it on.
THEOREM TypeCorrect == Spec => []TypeOK
<1>1. SessionInv /\ IInv => TypeOK
  BY DEF SessionInv, IInv, FeedTypes, UserTypes, Hosting, HostInv, HostTypes, TypeOK,
     SessionTypeOK
<1> QED
  BY <1>1, SessionInvariance, PTL

\* The display shows what the shell wrote, from its start and in order, with line ends
\* spelled out.
THEOREM ShownInOrder == Spec => []OutputInOrder
<1>1. SessionInv => OutputInOrder
  BY ScreenPrefix DEF SessionInv, Displayed, OutputInOrder
<1> QED
  BY <1>1, SessionInvariance, PTL

\* Every exit of lab1a but the one in sig_handle restores the terminal; the exit with the
\* shell's status comes after all output has been displayed, and leaves no shell behind;
\* and sig_handle is entered only for a byte typed after the shell has ended.
THEOREM LeftInOrder == Spec => []LeftBehind
<1>1. SessionInv => LeftBehind
  BY DEF SessionInv
<1> QED
  BY <1>1, SessionInvariance, PTL
=============================================================================
