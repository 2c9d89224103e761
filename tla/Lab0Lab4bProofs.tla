--------------------------- MODULE Lab0Lab4bProofs ---------------------------
(***************************************************************************)
(* Theorems about Lab0, for every set of names and contents of files, of   *)
(* any length, and every set of errors; and about Lab4b, for every input,  *)
(* period, length of the log and number of lines in a read.  The two       *)
(* programs have nothing to do with each other; their modules share no     *)
(* name, and each theorem is about one of them.                            *)
(***************************************************************************)
EXTENDS Lab0, Lab4b, TLAPS, SequenceTheorems, FiniteSetTheorems, WellFoundedInduction

-----------------------------------------------------------------------------
(***************************************************************************)
(* Lab0.                                                                   *)
(***************************************************************************)

AllFiles == FileNames \union {"stdin", "stdout"}

\* What is behind the first two descriptors.
StandardInput ==
  IF place \in {"arguments", "input", "usage", "no_input"} THEN "stdin" ELSE In

StandardOutput ==
  IF place \in {"arguments", "input", "output", "usage", "no_input", "no_output"}
    THEN "stdout" ELSE Out

Lab0Types ==
  /\ args \in Options
  /\ before \in Files
  /\ before \in [AllFiles -> Seq(Bytes)] /\ before["stdout"] = <<>>
  /\ file \in [AllFiles -> Seq(Bytes)]
  /\ byte \in Seq(Bytes)

\* Redirections leave descriptors 0 and 1 open on what was asked for, or closed.
FdInv ==
  /\ DOMAIN fd = Descriptors
  /\ fd[2].file = "stderr" /\ fd[3] = Closed
  /\ fd[0] # Closed => fd[0].file = StandardInput
  /\ fd[1] # Closed => fd[1].file = StandardOutput
  /\ fd[0].at \in Nat
  /\ place \in {"arguments", "input", "output", "fault", "usage", "no_input"} => fd[0].at = 0

\* The output has the input up to the position that has been read, but for the byte
\* that is still to be written.
CopyInv ==
  /\ place \in {"fault", "read"} => byte = <<>> /\ file[Out] = SubSeq(before[In], 1, fd[0].at)
  /\ place \in {"write", "write_error", "broken_pipe"} =>
       /\ In # Out
       /\ fd[0].at \in 1..Len(before[In])
       /\ byte = <<before[In][fd[0].at]>>
       /\ file[Out] = SubSeq(before[In], 1, fd[0].at - 1)
  /\ In = Out => fd[0].at = 0
  /\ fd[0].at <= Len(before[In])
  /\ place \notin {"write", "write_error", "broken_pipe"} => byte = <<>>

\* Nothing is touched before the output is opened.
EarlyInv ==
  /\ place \in {"arguments", "input", "output"} => file = before
  /\ place \in {"arguments", "input", "output", "fault", "read", "write", "usage", "no_input",
                "no_output", "caught", "killed", "read_error", "write_error", "broken_pipe",
                "copied"}

Lab0IInv == Lab0Types /\ exit_status \in 0..141 /\ FdInv /\ CopyInv /\ EarlyInv /\ EndingTells

-----------------------------------------------------------------------------
(***************************************************************************)
(* Descriptors.                                                            *)
(***************************************************************************)
LEMMA LowestClosed ==
  ASSUME NEW fds, NEW d \in Descriptors, fds[d] = Closed,
         \A e \in Descriptors : e < d => fds[e] # Closed
  PROVE  Lowest(fds) = d
<1>1. \A c \in Descriptors :
        (fds[c] = Closed /\ \A e \in 0..c - 1 : fds[e] # Closed) <=> c = d
  BY DEF Descriptors
<1> QED
  BY <1>1 DEF Lowest

\* open, close, dup and close make the target the file, or leave it closed.
LEMMA RedirectTo ==
  ASSUME FdInv, NEW name \in FileNames, NEW target \in {0, 1}, Redirect(name, target)
  PROVE  /\ DOMAIN fd' = Descriptors
         /\ \A e \in Descriptors \ {target} : fd'[e] = fd[e]
         /\ fd'[target] \in {Closed, [file |-> name, at |-> 0]}
<1> DEFINE X == [file |-> name, at |-> 0]
           d == Lowest(fd)
           opened == [fd EXCEPT ![d] = X]
<1>1. X # Closed /\ fd[2] # Closed /\ fd[3] = Closed
  BY Lab0Assumption DEF FdInv, Closed
<1>2. fd' = Close(Dup(Close(opened, target), d), d)
  BY DEF Redirect
<1>3. d \in {0, 1, 3} /\ fd[d] = Closed /\ \A e \in Descriptors : e < d => fd[e] # Closed
  <2>1. CASE fd[0] = Closed
    BY <2>1, LowestClosed DEF Descriptors
  <2>2. CASE fd[0] # Closed /\ fd[1] = Closed
    BY <2>2, LowestClosed DEF Descriptors
  <2>3. CASE fd[0] # Closed /\ fd[1] # Closed
    BY <1>1, <2>3, LowestClosed DEF Descriptors
  <2> QED
    BY <2>1, <2>2, <2>3
<1> HIDE DEF d, X
\* The target was closed and got the file itself: it is closed again.
<1>4. CASE d = target
  <2>1. Close(opened, target)[d] = Closed
    BY <1>4 DEF Close, FdInv, Descriptors
  <2>2. fd' = Close(Close(opened, target), d)
    BY <1>2, <2>1 DEF Dup
  <2> QED
    BY <1>4, <2>2 DEF Close, FdInv, Descriptors
\* Else the target is the lowest that is closed when it is duplicated to.
<1>5. CASE d # target
  <2> DEFINE closed == Close(opened, target)
  <2>1. /\ DOMAIN closed = Descriptors /\ closed[d] = X /\ closed[target] = Closed
        /\ \A e \in Descriptors \ {d, target} : closed[e] = fd[e]
    BY <1>3, <1>5 DEF Close, FdInv, Descriptors
  <2> HIDE DEF closed
  <2>2. \A e \in Descriptors : e < target => closed[e] # Closed
    BY <1>1, <1>3, <1>5, <2>1 DEF Descriptors
  <2>3. Lowest(closed) = target
    BY <2>1, <2>2, LowestClosed DEF Descriptors
  <2>4. fd' = Close([closed EXCEPT ![target] = X], d)
    BY <1>1, <1>2, <2>1, <2>3 DEF Dup, closed
  <2> QED
    BY <1>3, <1>5, <2>1, <2>4 DEF Close, Descriptors, X
<1> QED
  BY <1>4, <1>5

-----------------------------------------------------------------------------
(***************************************************************************)
(* The steps.                                                              *)
(***************************************************************************)

\* The files that are read and written are among those there are.
LEMMA Named ==
  ASSUME Lab0Types
  PROVE  /\ In \in AllFiles /\ Out \in AllFiles
         /\ before[In] \in Seq(Bytes) /\ Len(before[In]) \in Nat
         /\ DOMAIN file = AllFiles /\ DOMAIN before = AllFiles
         /\ SubSeq(before[In], 1, 0) = <<>>
<1>1. In \in AllFiles /\ Out \in AllFiles
  BY DEF Lab0Types, Options, In, Out, AllFiles
<1> QED
  BY <1>1, LenProperties, SubSeqEmpty DEF Lab0Types

LEMMA InitLab0 == Init0 => Lab0IInv
<1> SUFFICES ASSUME Init0 PROVE Lab0IInv
  OBVIOUS
<1>1. /\ place = "arguments" /\ exit_status = 0 /\ byte = <<>> /\ file = before
      /\ args \in Options /\ before["stdout"] = <<>>
  BY DEF Init0
<1>2. Lab0Types
  BY <1>1, Lab0Assumption, EmptySeq DEF Init0, Lab0Types, Files, AllFiles
<1>3. FdInv
  BY <1>1 DEF Init0, FdInv, Descriptors, Closed, StandardInput, StandardOutput
<1>4. CopyInv
  BY <1>1, <1>2, <1>3, Named DEF CopyInv, FdInv
<1> QED
  BY <1>1, <1>2, <1>3, <1>4, Named DEF Lab0IInv, EarlyInv, EndingTells

\* A step that only goes on, or ends, before anything is read.
LEMMA ArgumentsKeep ==
  ASSUME Lab0IInv, UNCHANGED <<args, before>>, Arguments
  PROVE  Lab0IInv'
<1>1. /\ UNCHANGED <<args, before, file, fd, byte>> /\ Out' = Out /\ In' = In
      /\ place = "arguments" /\ place' \in {"input", "usage"} /\ exit_status' \in 0..141
  <2>1. Out' = Out /\ In' = In
    BY DEF In, Out
  <2>2. /\ UNCHANGED <<args, before, file, fd, byte>>
        /\ place = "arguments" /\ place' \in {"input", "usage"}
        /\ exit_status' = exit_status \/ exit_status' = 1
    BY DEF Arguments, End
  <2>3. exit_status' \in 0..141
    BY <2>2 DEF Lab0IInv
  <2> QED
    BY <2>1, <2>2, <2>3
<1>2. Lab0Types' /\ FdInv' /\ EarlyInv'
  BY <1>1 DEF Lab0IInv, Lab0Types, FdInv, EarlyInv, StandardInput, StandardOutput
<1>3. CopyInv' /\ EndingTells'
  BY <1>1 DEF Lab0IInv, CopyInv, EarlyInv, EndingTells
<1> QED
  BY <1>1, <1>2, <1>3 DEF Lab0IInv

LEMMA RedirectInputKeeps ==
  ASSUME Lab0IInv, UNCHANGED <<args, before>>, RedirectInput
  PROVE  Lab0IInv'
<1>1. /\ UNCHANGED <<args, before, file, byte>> /\ Out' = Out /\ In' = In
      /\ place = "input" /\ place' \in {"output", "no_input"} /\ exit_status' \in 0..141
  <2>1. Out' = Out /\ In' = In
    BY DEF In, Out
  <2>2. /\ UNCHANGED <<args, before, file, byte>>
        /\ place = "input" /\ place' \in {"output", "no_input"}
        /\ exit_status' = exit_status \/ exit_status' = 2
    BY DEF RedirectInput, End
  <2>3. exit_status' \in 0..141
    BY <2>2 DEF Lab0IInv
  <2> QED
    BY <2>1, <2>2, <2>3
<1>2. /\ DOMAIN fd' = Descriptors /\ fd'[1] = fd[1] /\ fd'[2] = fd[2] /\ fd'[3] = fd[3]
      /\ fd'[0] # Closed => fd'[0].file = StandardInput'
      /\ fd'[0].at = 0
  <2>1. CASE place' = "output" /\ args.input # "none"
    <3>1. args.input \in FileNames /\ Redirect(args.input, 0) /\ In = args.input
      BY <1>1, <2>1 DEF RedirectInput, End, Lab0IInv, Lab0Types, Options, In
    <3>2. /\ DOMAIN fd' = Descriptors
          /\ \A e \in Descriptors \ {0} : fd'[e] = fd[e]
          /\ fd'[0] \in {Closed, [file |-> args.input, at |-> 0]}
      BY <3>1, RedirectTo DEF Lab0IInv
    <3> QED
      BY <1>1, <2>1, <3>1, <3>2 DEF Closed, StandardInput, Descriptors
  <2>2. CASE ~(place' = "output" /\ args.input # "none")
    <3>1. fd' = fd
      BY <1>1, <2>2 DEF RedirectInput, End
    <3>2. fd[0].at = 0 /\ (fd[0] # Closed => fd[0].file = "stdin")
      BY <1>1 DEF Lab0IInv, FdInv, StandardInput
    <3>3. StandardInput' = "stdin"
      BY <1>1, <2>2 DEF RedirectInput, End, StandardInput, In
    <3> QED
      BY <3>1, <3>2, <3>3 DEF Lab0IInv, FdInv
  <2> QED
    BY <2>1, <2>2
<1>3. Lab0Types' /\ FdInv' /\ EarlyInv'
  BY <1>1, <1>2 DEF Lab0IInv, Lab0Types, FdInv, EarlyInv, StandardOutput
<1>4. CopyInv'
  BY <1>1, <1>2, Named DEF Lab0IInv, CopyInv
<1>5. EndingTells'
  BY <1>1 DEF Lab0IInv, EarlyInv, EndingTells
<1> QED
  BY <1>1, <1>3, <1>4, <1>5 DEF Lab0IInv

LEMMA RedirectOutputKeeps ==
  ASSUME Lab0IInv, UNCHANGED <<args, before>>, RedirectOutput
  PROVE  Lab0IInv'
<1>1. /\ UNCHANGED <<args, before, byte>> /\ Out' = Out /\ In' = In
      /\ place = "output" /\ place' \in {"fault", "no_output"} /\ exit_status' \in 0..141
  <2>1. Out' = Out /\ In' = In
    BY DEF In, Out
  <2>2. /\ UNCHANGED <<args, before, byte>>
        /\ place = "output" /\ place' \in {"fault", "no_output"}
        /\ exit_status' = exit_status \/ exit_status' = 3
    BY DEF RedirectOutput, End
  <2>3. exit_status' \in 0..141
    BY <2>2 DEF Lab0IInv
  <2> QED
    BY <2>1, <2>2, <2>3
<1>2. fd[0].at = 0 /\ file = before
  BY <1>1 DEF Lab0IInv, FdInv, EarlyInv
\* The output is emptied, or is the standard output, which is empty.
<1>3. /\ DOMAIN fd' = Descriptors /\ fd'[0] = fd[0] /\ fd'[2] = fd[2] /\ fd'[3] = fd[3]
      /\ fd'[1] # Closed => fd'[1].file = StandardOutput'
      /\ file' = IF place' = "fault" THEN [before EXCEPT ![Out] = <<>>] ELSE before
  <2>1. CASE place' = "fault" /\ args.output # "none"
    <3>1. /\ args.output \in FileNames /\ Redirect(args.output, 1) /\ Out = args.output
          /\ file' = [file EXCEPT ![args.output] = <<>>]
      BY <1>1, <2>1 DEF RedirectOutput, End, Lab0IInv, Lab0Types, Options, Out
    <3>2. /\ DOMAIN fd' = Descriptors
          /\ \A e \in Descriptors \ {1} : fd'[e] = fd[e]
          /\ fd'[1] \in {Closed, [file |-> args.output, at |-> 0]}
      BY <3>1, RedirectTo DEF Lab0IInv
    <3> QED
      BY <1>1, <1>2, <2>1, <3>1, <3>2 DEF Closed, StandardOutput, Descriptors
  <2>2. CASE ~(place' = "fault" /\ args.output # "none")
    <3>1. fd' = fd /\ file' = before
      BY <1>1, <1>2, <2>2 DEF RedirectOutput, End
    <3>2. fd[1] # Closed => fd[1].file = "stdout"
      BY <1>1 DEF Lab0IInv, FdInv, StandardOutput
    <3>3. StandardOutput' = "stdout" /\ (place' = "fault" => Out = "stdout")
      BY <1>1, <2>2 DEF RedirectOutput, End, StandardOutput, Out
    <3>4. place' = "fault" => before = [before EXCEPT ![Out] = <<>>]
      BY <3>3 DEF Lab0IInv, Lab0Types
    <3> QED
      BY <3>1, <3>2, <3>3, <3>4 DEF Lab0IInv, FdInv
  <2> QED
    BY <2>1, <2>2
<1>4. file' \in [AllFiles -> Seq(Bytes)] /\ (place' = "fault" => file'[Out] = <<>>)
  BY <1>3, EmptySeq, Named DEF Lab0IInv, Lab0Types
<1>5. Lab0Types' /\ EarlyInv'
  BY <1>1, <1>4 DEF Lab0IInv, Lab0Types, EarlyInv
<1>6. FdInv'
  BY <1>1, <1>2, <1>3 DEF Lab0IInv, FdInv, StandardInput
<1>7. CopyInv'
  BY <1>1, <1>2, <1>3, <1>4, Named DEF Lab0IInv, CopyInv
<1>8. EndingTells'
  BY <1>1, <1>3, Named DEF Lab0IInv, EndingTells
<1> QED
  BY <1>1, <1>5, <1>6, <1>7, <1>8 DEF Lab0IInv

LEMMA SegFaultKeeps ==
  ASSUME Lab0IInv, UNCHANGED <<args, before>>, segFault
  PROVE  Lab0IInv'
<1>1. /\ UNCHANGED <<args, before, file, fd, byte>> /\ Out' = Out /\ In' = In
      /\ place = "fault" /\ place' \in {"read", "caught", "killed"} /\ exit_status' \in 0..141
  <2>1. Out' = Out /\ In' = In
    BY DEF In, Out
  <2>2. /\ UNCHANGED <<args, before, file, fd, byte>>
        /\ place = "fault" /\ place' \in {"read", "caught", "killed"}
        /\ exit_status' \in {exit_status, 4, 139}
    BY DEF segFault, End
  <2>3. exit_status' \in 0..141
    BY <2>2 DEF Lab0IInv
  <2> QED
    BY <2>1, <2>2, <2>3
<1>2. Lab0Types' /\ FdInv' /\ EarlyInv' /\ CopyInv'
  BY <1>1 DEF Lab0IInv, Lab0Types, FdInv, EarlyInv, CopyInv, StandardInput, StandardOutput
<1>3. file[Out] = <<>>
  BY <1>1, Named DEF Lab0IInv, FdInv, CopyInv
<1>4. EndingTells'
  BY <1>1, <1>3 DEF Lab0IInv, EndingTells
<1> QED
  BY <1>1, <1>2, <1>4 DEF Lab0IInv

LEMMA ReadKeeps ==
  ASSUME Lab0IInv, UNCHANGED <<args, before>>, Read
  PROVE  Lab0IInv'
<1> DEFINE at == fd[0].at
           source == before[In]
<1>1. /\ Out' = Out /\ In' = In /\ args' = args /\ before' = before /\ file' = file
      /\ place = "read" /\ fd[0] # Closed /\ byte = <<>>
  BY DEF Read, End, In, Out, Lab0IInv, CopyInv
<1>2. /\ fd[0].file = In /\ at \in Nat /\ at <= Len(source)
      /\ file[Out] = SubSeq(source, 1, at) /\ (In = Out => at = 0)
      /\ source \in Seq(Bytes) /\ Len(source) \in Nat /\ SubSeq(source, 1, 0) = <<>>
      /\ In \in AllFiles /\ DOMAIN before = AllFiles
  BY <1>1, Named DEF Lab0IInv, FdInv, CopyInv, StandardInput
<1>3. In # Out => file[In] = source
  BY <1>2 DEF Lab0IInv, EndingTells
\* There is a byte to read.
<1>4. CASE at < Len(file[In])
  <2>1. In # Out /\ file[In] = source
    BY <1>2, <1>3, <1>4, EmptySeq
  <2>2. /\ place' = "write" /\ byte' = <<source[at + 1]>> /\ exit_status' = exit_status
        /\ fd' = [fd EXCEPT ![0].at = at + 1]
    BY <1>1, <1>2, <1>4, <2>1 DEF Read
  <2>3. source[at + 1] \in Bytes
    BY <1>2, <1>4, <2>1, LenProperties
  <2>4. /\ DOMAIN fd' = Descriptors /\ \A e \in {1, 2, 3} : fd'[e] = fd[e]
        /\ fd'[0].file = In /\ fd'[0].at = at + 1
    <3>1. fd'[0] = [fd[0] EXCEPT !.at = at + 1] /\ DOMAIN fd' = Descriptors
      BY <2>2 DEF Lab0IInv, FdInv, Descriptors
    <3>2. \A e \in {1, 2, 3} : fd'[e] = fd[e]
      BY <2>2 DEF Lab0IInv, FdInv, Descriptors
    <3>3. fd'[0].file = In /\ fd'[0].at = at + 1
      BY <1>2, <3>1
    <3> QED
      BY <3>1, <3>2, <3>3
  <2>5. Lab0Types' /\ EarlyInv'
    <3>1. byte' \in Seq(Bytes)
      BY <2>2, <2>3
    <3> QED
      BY <1>1, <2>2, <3>1 DEF Lab0IInv, Lab0Types, EarlyInv
  <2>6. FdInv'
    BY <1>1, <1>2, <2>2, <2>4 DEF Lab0IInv, FdInv, StandardInput, StandardOutput
  <2>7. CopyInv'
    BY <1>1, <1>2, <1>4, <2>1, <2>2, <2>4 DEF CopyInv
  <2>8. EndingTells'
    BY <1>1, <2>2 DEF Lab0IInv, EndingTells
  <2> QED
    BY <2>2, <2>5, <2>6, <2>7, <2>8 DEF Lab0IInv
\* The end of the file.
<1>5. CASE ~(at < Len(file[In]))
  <2>1. /\ UNCHANGED <<fd, byte>> /\ place' = "copied" /\ exit_status' = 0
    BY <1>1, <1>2, <1>5 DEF Read, End
  <2>2. file[Out] = IF In = Out THEN <<>> ELSE source
    <3>1. CASE In = Out
      BY <1>2, <3>1
    <3>2. CASE In # Out
      <4>1. at = Len(source)
        BY <1>2, <1>3, <1>5, <3>2
      <4> QED
        BY <1>2, <3>2, <4>1, SubSeqFull
    <3> QED
      BY <3>1, <3>2
  <2>3. Lab0Types' /\ FdInv' /\ EarlyInv' /\ CopyInv'
    BY <1>1, <2>1 DEF Lab0IInv, Lab0Types, FdInv, EarlyInv, CopyInv, StandardInput, StandardOutput
  <2>4. EndingTells'
    BY <1>1, <2>1, <2>2 DEF Lab0IInv, EndingTells
  <2> QED
    BY <2>1, <2>3, <2>4 DEF Lab0IInv
<1> QED
  BY <1>4, <1>5

LEMMA WriteKeeps ==
  ASSUME Lab0IInv, UNCHANGED <<args, before>>, Write
  PROVE  Lab0IInv'
<1> DEFINE at == fd[0].at
           source == before[In]
<1>1. /\ Out' = Out /\ In' = In /\ args' = args /\ before' = before /\ fd' = fd
      /\ place = "write" /\ place' = "read" /\ exit_status' = exit_status /\ byte' = <<>>
      /\ fd[1].file = Out
  BY DEF Write, In, Out, Lab0IInv, FdInv, StandardOutput
<1>2. /\ In # Out /\ at \in 1..Len(source) /\ byte = <<source[at]>>
      /\ file[Out] = SubSeq(source, 1, at - 1)
  BY <1>1 DEF Lab0IInv, CopyInv
<1>3. file' = [file EXCEPT ![Out] = SubSeq(source, 1, at)]
  <2>1. file' = [file EXCEPT ![Out] = file[Out] \o byte]
    BY <1>1 DEF Write
  <2>2. SubSeq(source, 1, at) = SubSeq(source, 1, at - 1) \o <<source[at]>>
    <3>1. 1 \in 1..Len(source) /\ source \in Seq(Bytes)
      BY <1>2, Named DEF Lab0IInv
    <3> QED
      BY <1>2, <3>1, SubSeqRecursiveSecond
  <2> QED
    BY <1>2, <2>1, <2>2
<1>4. /\ file' \in [AllFiles -> Seq(Bytes)]
      /\ file'[Out] = SubSeq(source, 1, at)
      /\ \A name \in AllFiles \ {Out} : file'[name] = file[name]
  <2>1. SubSeq(source, 1, at) \in Seq(Bytes)
    <3>1. \A i \in 1..at : source[i] \in Bytes
      BY <1>2, Named, LenProperties DEF Lab0IInv
    <3>2. at \in Int
      BY <1>2, Named DEF Lab0IInv
    <3> QED
      BY <3>1, <3>2, SubSeqProperties
  <2> QED
    BY <1>3, <2>1, Named DEF Lab0IInv, Lab0Types
<1>5. Lab0Types' /\ EarlyInv' /\ FdInv'
  BY <1>1, <1>4, EmptySeq DEF Lab0IInv, Lab0Types, EarlyInv, FdInv, StandardInput, StandardOutput
<1>6. CopyInv'
  BY <1>1, <1>2, <1>4 DEF Lab0IInv, CopyInv
<1>7. EndingTells'
  BY <1>1, <1>4, Named DEF Lab0IInv, EndingTells
<1> QED
  BY <1>1, <1>5, <1>6, <1>7 DEF Lab0IInv

\* The start of a file is a prefix of it.
LEMMA StartIsPrefix ==
  ASSUME NEW s \in Seq(Bytes), NEW n \in 0..Len(s)
  PROVE  Len(SubSeq(s, 1, n)) = n /\ IsPrefix(SubSeq(s, 1, n), s)
<1>1. Len(s) \in Nat /\ \A i \in 1..n : s[i] \in Bytes
  BY LenProperties
<1>2. SubSeq(s, 1, n) \in Seq(Bytes) /\ Len(SubSeq(s, 1, n)) = n
  BY <1>1, SubSeqProperties
<1>3. SubSeq(SubSeq(s, 1, n), 1, n) = SubSeq(s, 1, n)
  BY <1>2, SubSeqFull
<1> QED
  BY <1>1, <1>2, <1>3 DEF IsPrefix

\* While it copies the output is a start of the input.
LEMMA OutputIsStart ==
  ASSUME Lab0IInv, place \in {"fault", "read", "write", "write_error", "broken_pipe"}
  PROVE  \E n \in 0..Len(before[In]) : file[Out] = SubSeq(before[In], 1, n)
<1> DEFINE at == fd[0].at
           length == Len(before[In])
<1>1. at \in Nat /\ length \in Nat /\ at <= length
  BY Named DEF Lab0IInv, FdInv, CopyInv
<1>2. CASE place \in {"fault", "read"}
  <2>1. file[Out] = SubSeq(before[In], 1, at)
    BY <1>2 DEF Lab0IInv, CopyInv
  <2> QED
    BY <1>1, <2>1
<1>3. CASE place \in {"write", "write_error", "broken_pipe"}
  <2>1. file[Out] = SubSeq(before[In], 1, at - 1) /\ at \in 1..length
    BY <1>3 DEF Lab0IInv, CopyInv
  <2>2. at - 1 \in 0..length
    <3> HIDE DEF at, length
    <3> QED
      BY <1>1, <2>1
  <2> QED
    BY <2>1, <2>2
<1> QED
  BY <1>2, <1>3

LEMMA CopyFailsKeeps ==
  ASSUME Lab0IInv, UNCHANGED <<args, before>>, CopyFails
  PROVE  Lab0IInv'
<1>1. /\ UNCHANGED <<args, before, file, fd, byte>> /\ Out' = Out /\ In' = In
      /\ \/ place = "read" /\ place' = "read_error"
         \/ place = "write" /\ place' \in {"write_error", "broken_pipe"}
      /\ exit_status' \in Errnos \union {EBADF, 141}
  BY DEF CopyFails, End, In, Out
<1>2. exit_status' \in 0..141
  BY <1>1, Lab0Assumption DEF EBADF
<1>3. Lab0Types' /\ FdInv' /\ EarlyInv' /\ CopyInv'
  BY <1>1 DEF Lab0IInv, Lab0Types, FdInv, EarlyInv, CopyInv, StandardInput, StandardOutput
<1>4. IsPrefix(file[Out], before[In])
  <2>1. \E n \in 0..Len(before[In]) : file[Out] = SubSeq(before[In], 1, n)
    BY <1>1, OutputIsStart
  <2> QED
    BY <2>1, Named, StartIsPrefix DEF Lab0IInv
<1>5. EndingTells'
  BY <1>1, <1>4 DEF Lab0IInv, EndingTells
<1> QED
  BY <1>2, <1>3, <1>5 DEF Lab0IInv

LEMMA NextLab0 == Lab0IInv /\ [Next0]_lab0Vars => Lab0IInv'
<1> SUFFICES ASSUME Lab0IInv, [Next0]_lab0Vars PROVE Lab0IInv'
  OBVIOUS
<1>1. CASE Next0
  BY <1>1, ArgumentsKeep, RedirectInputKeeps, RedirectOutputKeeps, SegFaultKeeps,
     ReadKeeps, WriteKeeps, CopyFailsKeeps DEF Next0
<1>2. CASE UNCHANGED lab0Vars
  <2>1. Out' = Out /\ In' = In
    BY <1>2 DEF lab0Vars, In, Out
  <2> QED
    BY <1>2, <2>1 DEF lab0Vars, Lab0IInv, Lab0Types, FdInv, CopyInv, EarlyInv, EndingTells,
       StandardInput, StandardOutput
<1> QED
  BY <1>1, <1>2

-----------------------------------------------------------------------------
\* Lab0IInv holds in every reachable state.
THEOREM CopyInvariance == Spec0 => []Lab0IInv
BY InitLab0, NextLab0, PTL DEF Spec0

\* lab0 copies: an exit with 0 means that the output is what the input was, and every
\* other ending tells what has become of the files.
THEOREM CopyIsTrue == Spec0 => []EndingTells
<1>1. Lab0IInv => EndingTells
  BY DEF Lab0IInv
<1> QED
  BY CopyInvariance, <1>1, PTL

\* The output never gets longer than the input.
LEMMA NotLonger ==
  ASSUME Lab0IInv, NEW name \in AllFiles
  PROVE  \E longest \in AllFiles : Len(file[name]) <= Len(before[longest])
<1>1. /\ In \in AllFiles /\ Out \in AllFiles /\ before[In] \in Seq(Bytes)
      /\ \A n \in AllFiles : Len(before[n]) \in Nat
      /\ DOMAIN before = AllFiles
  BY Named, LenProperties DEF Lab0IInv, Lab0Types
<1>2. CASE file[name] = before[name]
  BY <1>1, <1>2
<1>3. CASE file[name] = <<>>
  BY <1>1, <1>3, EmptySeq
<1>4. CASE file[name] # before[name] /\ file[name] # <<>>
  <2>1. name = Out /\ file # before
    BY <1>1, <1>4 DEF Lab0IInv, EndingTells
  <2>2. \/ place = "copied" /\ file[Out] = before[In]
        \/ IsPrefix(file[Out], before[In])
        \/ place \in {"fault", "read"} /\ file[Out] = SubSeq(before[In], 1, fd[0].at)
        \/ place \in {"write", "write_error", "broken_pipe"}
             /\ file[Out] = SubSeq(before[In], 1, fd[0].at - 1)
    BY <1>4, <2>1 DEF Lab0IInv, EarlyInv, EndingTells, CopyInv
  <2>3. CASE IsPrefix(file[Out], before[In])
    BY <1>1, <2>1, <2>3 DEF IsPrefix
  <2>4. CASE ~IsPrefix(file[Out], before[In])
    <3>1. file[Out] = before[In] \/ \E n \in 0..Len(before[In]) : file[Out] = SubSeq(before[In], 1, n)
      BY <2>2, <2>4, OutputIsStart
    <3> QED
      BY <1>1, <2>1, <3>1, StartIsPrefix
  <2> QED
    BY <2>3, <2>4
<1> QED
  BY <1>2, <1>3, <1>4

\* Every variable of lab0 has its type, and no file outgrows what there was.
THEOREM CopyTyped == Spec0 => []Lab0TypeOK
<1>1. Lab0IInv => Lab0TypeOK
  <2> SUFFICES ASSUME Lab0IInv PROVE Lab0TypeOK
    OBVIOUS
  <2>1. args \in Options /\ before \in Files /\ byte \in Seq(Bytes) /\ exit_status \in 0..141
    BY DEF Lab0IInv, Lab0Types
  <2>2. DOMAIN file = DOMAIN before /\ \A name \in DOMAIN file : file[name] \in Seq(Bytes)
    BY DEF Lab0IInv, Lab0Types
  <2>3. \A name \in DOMAIN file : \E longest \in DOMAIN before :
          Len(file[name]) <= Len(before[longest])
    BY NotLonger, Named DEF Lab0IInv
  <2>4. \A d \in Descriptors : fd[d].file \in FileNames \union {"closed", "stdin", "stdout", "stderr"}
    <3>1. StandardInput \in FileNames \union {"stdin", "stdout"}
      BY Named DEF Lab0IInv, StandardInput, AllFiles
    <3>2. StandardOutput \in FileNames \union {"stdin", "stdout"}
      BY Named DEF Lab0IInv, StandardOutput, AllFiles
    <3> QED
      BY <3>1, <3>2 DEF Lab0IInv, FdInv, Descriptors, Closed
  <2>5. fd[0] # Closed => fd[0].at <= Len(before[fd[0].file])
    <3>1. CASE StandardInput = In
      BY <3>1 DEF Lab0IInv, FdInv, CopyInv
    <3>2. CASE StandardInput # In
      <4>1. fd[0].at = 0 /\ StandardInput = "stdin"
        BY <3>2 DEF Lab0IInv, FdInv, StandardInput
      <4>2. Len(before["stdin"]) \in Nat
        BY LenProperties DEF Lab0IInv, Lab0Types, AllFiles
      <4> QED
        BY <4>1, <4>2 DEF Lab0IInv, FdInv
    <3> QED
      BY <3>1, <3>2
  <2>6. Len(byte) = IF place \in {"write", "write_error", "broken_pipe"} THEN 1 ELSE 0
    BY EmptySeq DEF Lab0IInv, CopyInv
  <2> QED
    BY <2>1, <2>2, <2>3, <2>4, <2>5, <2>6 DEF Lab0TypeOK, Lab0IInv, EarlyInv
<1> QED
  BY CopyInvariance, <1>1, PTL

-----------------------------------------------------------------------------
(***************************************************************************)
(* Lab4b.  Everything rests on what the threads may still have to call:    *)
(* the invariant Typed says which sequences of calls there are, Settings   *)
(* ties the settings to the log, Farewell the log to the shut-down, and    *)
(* AsSent the log and the lines that wait to the input.                    *)
(***************************************************************************)

\* What the main thread may have still to do: to start, to make a report, to obey the
\* lines of one read, or to shut down.  The button's thread can only shut down.
ToStart == <<<<"init">>>>

TimeNext == <<<<"print_current_time">>, <<"print_current_temp">>, <<"poll">>>>
TempNext == <<<<"print_current_temp">>, <<"poll">>>>
PollNext == <<<<"poll">>>>
Reporting == {TimeNext, TempNext, PollNext}

\* Lines to obey, and then the clock to read.
Obeying(calls) ==
  /\ calls \in Seq(Seq(Names)) /\ calls # <<>>
  /\ calls[Len(calls)] = <<"gettimeofday">>
  /\ \A k \in 1..(Len(calls) - 1) : calls[k] # <<>> /\ calls[k][1] = "process_input"

\* The shut-down, call by call.
ToTell == <<<<"SHUTDOWN">>, <<"fclose">>, <<"close">>, <<"exit">>>>
ToClose == <<<<"fclose">>, <<"close">>, <<"exit">>>>
ToRelease == <<<<"close">>, <<"exit">>>>
ToExit == <<<<"exit">>>>
ShuttingDown == {process_shutdown, ToTell, ToClose, ToRelease, ToExit}

\* The calls of the two threads.
Todos ==
  /\ todo = [t \in Threads |-> todo[t]]
  /\ todo["main"] \in {ToStart} \union Reporting \union ShuttingDown \/ Obeying(todo["main"])
  /\ todo["isr"] \in {<<>>} \union ShuttingDown

\* The other variables, the clock and the input in their order.
Values ==
  /\ opt \in [script : Scripts, log : BOOLEAN, scale : {"F", "C"}, period : Periods]
  /\ arrived \in 0..Len(opt.script) /\ taken \in 0..arrived
  /\ now \in 0..MaxTime /\ cur_time \in 0..now /\ run_time \in Int
  /\ scale \in {"F", "C"} /\ period \in Periods \union {0, 2} /\ status \in {0, 1}
  /\ open \subseteq {"file", "button", "sensor"}
  /\ log \in Seq(Seq(Names)) /\ (log # <<>> => opt.log)
  /\ ended \in {"no", "exit 0", "exit 1", "killed"}

\* Before the start nothing is open, and nothing has happened.
Fresh ==
  todo["main"] = ToStart =>
    /\ open = {} /\ log = <<>> /\ todo["isr"] = <<>>
    /\ scale = opt.scale /\ status = 1 /\ ended \in {"no", "exit 1"}

Typed == Todos /\ Values /\ Fresh

\* The settings are those that the log tells of, as long as it is written.
Settings ==
  /\ opt.log /\ "file" \in open =>
       /\ scale = ScaleSet(opt.scale, log, Len(log) + 1)
       /\ status = 1 => LeftRunning(log, Len(log) + 1)
  /\ todo["main"] \in {TimeNext, TempNext} => status = 1

\* The log says that the program shuts down; and a thread that has come so far.
Told == Contains(log, <<"SHUTDOWN">>)
Gone == {ToClose, ToRelease, ToExit}

\* It says so last and once, after an OFF and the time.
ToldOnce ==
  \A i \in 1..Len(log) :
    log[i] = <<"SHUTDOWN">> => /\ i = Len(log) /\ log[i - 1] = <<"time">> /\ log[i - 2] = <<"OFF">>

\* Without the button the main thread finds open what it uses and has logged the OFF
\* before the shut-down; nothing is said before its time, and nothing faults.
Alone ==
  /\ opt.log /\ todo["main"] \notin {ToStart, ToRelease, ToExit} => "file" \in open
  /\ todo["main"] \notin {ToStart, ToExit} => "sensor" \in open
  /\ opt.log /\ todo["main"] = process_shutdown => log # <<>> /\ log[Len(log)] = <<"OFF">>
  /\ opt.log /\ todo["main"] = ToTell =>
       Len(log) > 1 /\ log[Len(log)] = <<"time">> /\ log[Len(log) - 1] = <<"OFF">>
  /\ todo["main"] \notin Gone => ~Told
  /\ ToldOnce
  /\ ended # "killed"

\* Who has come so far has said so; the file is not closed before it is said; and as
\* long as the button is not pressed the main thread is alone.
Farewell ==
  /\ \A t \in Threads : opt.log /\ todo[t] \in Gone => Told
  /\ opt.log /\ "file" \notin open => todo["main"] = ToStart \/ Told
  /\ ended = "exit 0" /\ opt.log => Told
  /\ todo["isr"] = <<>> => Alone

\* The line is the end of the text, from the last line feed or later.
IsEndOf(line, text) == IsSuffix(line, text) /\ ~Contains(line, "NL")

\* The lines that wait to be obeyed, and the commands in a log.
Pending(calls) == {k \in 1..Len(calls) : calls[k][1] = "process_input"}
Commands(entries) == {i \in 1..Len(entries) : Known(entries[i])}

\* The line feeds that have been read.
Ends(script, read) == {i \in 1..read : script[i] = "NL"}

\* The commands in the log and the lines that wait end at different line feeds, in the
\* order in which they stand, those in the log before those that wait.
Matched(script, entries, calls, end, next) ==
  /\ \A i, j \in Commands(entries) : i < j => end[i] < end[j]
  /\ \A i, j \in Pending(calls) : i < j => next[i] < next[j]
  /\ \A i \in Commands(entries), j \in Pending(calls) : end[i] < next[j]
  /\ \A i \in Commands(entries) : IsEndOf(entries[i], SubSeq(script, 1, end[i] - 1))
  /\ \A j \in Pending(calls) : IsEndOf(Tail(calls[j]), SubSeq(script, 1, next[j] - 1))

FromSent(script, read, entries, calls) ==
  \E end \in [Commands(entries) -> Ends(script, read)],
     next \in [Pending(calls) -> Ends(script, read)] :
    Matched(script, entries, calls, end, next)

\* What makes CommandsAsSent inductive: the lines that wait are accounted for too.
AsSent == FromSent(opt.script, taken, log, todo["main"])

-----------------------------------------------------------------------------
(***************************************************************************)
(* What the threads have to do.                                            *)
(***************************************************************************)

\* The calls of the shut-down follow each other.
LEMMA ShutdownSteps ==
  /\ Head(process_shutdown)[1] = "print_current_time" /\ Tail(process_shutdown) = ToTell
  /\ Head(ToTell)[1] = "SHUTDOWN" /\ Tail(ToTell) = ToClose
  /\ Head(ToClose)[1] = "fclose" /\ Tail(ToClose) = ToRelease
  /\ Head(ToRelease)[1] = "close" /\ Tail(ToRelease) = ToExit
  /\ Head(ToExit)[1] = "exit"
  BY DEF process_shutdown, ToTell, ToClose, ToRelease, ToExit

LEMMA ReportSteps ==
  /\ Head(ToStart)[1] = "init"
  /\ Head(TimeNext)[1] = "print_current_time" /\ Tail(TimeNext) = TempNext
  /\ Head(TempNext)[1] = "print_current_temp" /\ Tail(TempNext) = PollNext
  /\ Head(PollNext)[1] = "poll"
  BY DEF ToStart, TimeNext, TempNext, PollNext

LEMMA NeverNothing ==
  /\ ToStart # <<>> /\ TimeNext # <<>> /\ TempNext # <<>> /\ PollNext # <<>>
  /\ process_shutdown # <<>> /\ ToTell # <<>> /\ ToClose # <<>> /\ ToRelease # <<>> /\ ToExit # <<>>
  BY DEF ToStart, TimeNext, TempNext, PollNext,
     process_shutdown, ToTell, ToClose, ToRelease, ToExit

LEMMA TextsTyped ==
  /\ \A text \in Texts : <<text>> \in Seq(Names)
  /\ \A s \in {"F", "C"} : <<"temp", s>> \in Seq(Names)
  BY Lab4bAssumption DEF Texts

LEMMA CallsTyped ==
  \A calls \in {ToStart} \union Reporting \union ShuttingDown : calls \in Seq(Seq(Names))
<1> DEFINE C == Seq(Names)
<1>1. /\ <<"init">> \in C /\ <<"print_current_time">> \in C /\ <<"print_current_temp">> \in C
      /\ <<"poll">> \in C /\ <<"SHUTDOWN">> \in C /\ <<"fclose">> \in C /\ <<"close">> \in C
      /\ <<"exit">> \in C
  BY TextsTyped DEF Texts
<1> HIDE DEF C
<1>2. ToStart \in Seq(C) /\ TimeNext \in Seq(C) /\ TempNext \in Seq(C) /\ PollNext \in Seq(C)
  BY <1>1 DEF ToStart, TimeNext, TempNext, PollNext
<1>3. /\ process_shutdown \in Seq(C) /\ ToTell \in Seq(C) /\ ToClose \in Seq(C)
      /\ ToRelease \in Seq(C) /\ ToExit \in Seq(C)
  BY <1>1 DEF process_shutdown, ToTell, ToClose, ToRelease, ToExit
<1> QED
  BY <1>2, <1>3 DEF C, Reporting, ShuttingDown

\* The first call of the lines that are obeyed is a line or, after them, the clock.
LEMMA ObeyingSteps ==
  ASSUME NEW calls, Obeying(calls)
  PROVE  /\ Head(calls)[1] \in {"process_input", "gettimeofday"}
         /\ Head(calls)[1] = "process_input" => Obeying(Tail(calls))
         /\ Head(calls) \in Seq(Names) /\ Head(calls) # <<>>
<1> DEFINE n == Len(calls)
<1>1. n \in Nat \ {0} /\ Head(calls) = calls[1] /\ Head(calls) \in Seq(Names)
  BY EmptySeq, HeadTailProperties DEF Obeying
<1>2. calls[n] = <<"gettimeofday">> /\ \A k \in 1..(n - 1) : calls[k] # <<>> /\ calls[k][1] = "process_input"
  BY DEF Obeying
<1>3. /\ Tail(calls) \in Seq(Seq(Names)) /\ Len(Tail(calls)) = n - 1
      /\ \A k \in 1..(n - 1) : Tail(calls)[k] = calls[k + 1]
  <2>1. calls \in Seq(Seq(Names)) /\ calls # <<>>
    BY DEF Obeying
  <2>2. /\ Tail(calls) \in Seq(Seq(Names)) /\ Len(Tail(calls)) = n - 1
        /\ \A k \in 1..Len(Tail(calls)) : Tail(calls)[k] = calls[k + 1]
    BY <2>1, HeadTailProperties
  <2> QED
    BY <2>2
<1> HIDE DEF n
<1>4. CASE n = 1
  BY <1>1, <1>2, <1>4
<1>5. CASE n # 1
  <2>1. Head(calls)[1] = "process_input" /\ Head(calls) # <<>>
    BY <1>1, <1>2, <1>5
  <2>2. Tail(calls) # <<>>
    <3>1. n - 1 # 0 /\ Len(<<>>) = 0
      BY <1>1, <1>5
    <3> QED
      BY <1>3, <3>1, Zenon
  <2>3. Tail(calls)[n - 1] = <<"gettimeofday">>
    BY <1>1, <1>2, <1>3, <1>5
  <2>4. \A k \in 1..(n - 2) : Tail(calls)[k] # <<>> /\ Tail(calls)[k][1] = "process_input"
    BY <1>1, <1>2, <1>3
  <2> DEFINE rest == Tail(calls)
  <2>5. /\ rest \in Seq(Seq(Names)) /\ rest # <<>> /\ Len(rest) = n - 1
        /\ rest[n - 1] = <<"gettimeofday">> /\ (n - 1) - 1 = n - 2
        /\ \A k \in 1..(n - 2) : rest[k] # <<>> /\ rest[k][1] = "process_input"
    BY <1>1, <1>3, <2>2, <2>3, <2>4
  <2> HIDE DEF rest
  <2>6. Obeying(rest)
    BY <2>5, Zenon DEF Obeying
  <2> QED
    BY <1>1, <2>1, <2>6 DEF rest
<1> QED
  BY <1>4, <1>5

LEMMA LoopIsObeying == Obeying(Loop)
<1>1. <<"gettimeofday">> \in Seq(Names)
  BY TextsTyped DEF Texts
<1> QED
  BY <1>1 DEF Obeying, Loop

\* What a call of the main thread says about the rest.
LEMMA MainCalls ==
  ASSUME Todos, NEW name, Calls("main", name)
  PROVE  /\ name = "init" => todo["main"] = ToStart
         /\ name = "gettimeofday" => Obeying(todo["main"])
         /\ name = "print_current_time" => todo["main"] \in {TimeNext, process_shutdown}
         /\ name = "print_current_temp" => todo["main"] = TempNext
         /\ name = "poll" => todo["main"] = PollNext
         /\ name = "process_input" => Obeying(todo["main"])
         /\ name = "SHUTDOWN" => todo["main"] = ToTell
         /\ name = "fclose" => todo["main"] = ToClose
         /\ name = "close" => todo["main"] = ToRelease
         /\ name = "exit" => todo["main"] = ToExit
<1> DEFINE m == todo["main"]
<1>1. Head(m)[1] = name
  BY DEF Calls
<1> HIDE DEF m
<1>2. m \in {ToStart} \union Reporting \union ShuttingDown \/ Obeying(m)
  BY DEF Todos, m
<1>3. Obeying(m) => name \in {"process_input", "gettimeofday"}
  BY <1>1, ObeyingSteps
<1>4. CASE Obeying(m)
  BY <1>3, <1>4 DEF m
<1>5. CASE m \in {ToStart} \union Reporting
  BY <1>1, <1>5, ReportSteps DEF m, Reporting
<1>6. CASE m \in ShuttingDown
  BY <1>1, <1>6, ShutdownSteps DEF m, ShuttingDown
<1> QED
  BY <1>2, <1>4, <1>5, <1>6

LEMMA IsrCalls ==
  ASSUME Todos, NEW name, Calls("isr", name)
  PROVE  /\ todo["isr"] \in ShuttingDown
         /\ name = "print_current_time" => todo["isr"] = process_shutdown
         /\ name = "SHUTDOWN" => todo["isr"] = ToTell
         /\ name = "fclose" => todo["isr"] = ToClose
         /\ name = "close" => todo["isr"] = ToRelease
         /\ name = "exit" => todo["isr"] = ToExit
<1>1. Head(todo["isr"])[1] = name /\ todo["isr"] # <<>>
  BY DEF Calls
<1>2. todo["isr"] \in ShuttingDown
  BY <1>1 DEF Todos
<1> QED
  BY <1>1, <1>2, ShutdownSteps DEF ShuttingDown

-----------------------------------------------------------------------------
(***************************************************************************)
(* The lines of a text.  The n-th line feed is where the number of line    *)
(* feeds up to a place first becomes n.                                    *)
(***************************************************************************)
LEMMA Least ==
  ASSUME NEW T \in SUBSET Nat, T # {}
  PROVE  \E i \in T : \A j \in T : i <= j
<1> DEFINE R == OpToRel(<, Nat)
<1>1. \A i, j \in Nat : j < i => <<j, i>> \in R
  BY Zenon DEF OpToRel
<1>2. IsWellFoundedOn(R, Nat)
  BY NatLessThanWellFounded, Zenon
<1> HIDE DEF R
<1>3. PICK i \in T : \A j \in T : <<j, i>> \notin R
  BY <1>2, WFMin, Zenon
<1>4. \A j \in T : ~(j < i)
  BY <1>1, <1>3, Zenon
<1>5. \A j \in T : i <= j
  BY <1>4
<1> QED
  BY <1>5

\* How many of a set of places come before the next one.
Upto(places, i) == {j \in places : j <= i}

LEMMA UptoCounts ==
  ASSUME NEW length \in Nat, NEW places \in SUBSET (1..length)
  PROVE  /\ IsFiniteSet(places) /\ Cardinality(places) \in Nat
         /\ \A i \in Nat : Cardinality(Upto(places, i)) \in Nat
         /\ Cardinality(Upto(places, 0)) = 0 /\ Upto(places, length) = places
         /\ \A i \in Nat \ {0} : i \notin places => Upto(places, i) = Upto(places, i - 1)
         /\ \A i \in Nat \ {0} : i \in places =>
              Cardinality(Upto(places, i)) = Cardinality(Upto(places, i - 1)) + 1
         /\ \A i, j \in places :
              i < j => Cardinality(Upto(places, i)) < Cardinality(Upto(places, j))
<1>0. \A i \in places : i \in Nat /\ 0 < i /\ i <= length
  OBVIOUS
<1>1. IsFiniteSet(places)
  <2>1. IsFiniteSet(1..length)
    BY FS_Interval
  <2> QED
    BY <2>1, FS_Subset
<1>2. \A i : Upto(places, i) \in SUBSET places
  BY DEF Upto
<1>3. \A i : IsFiniteSet(Upto(places, i)) /\ Cardinality(Upto(places, i)) \in Nat
  BY <1>1, <1>2, FS_Subset, FS_CardinalityType
<1>4. Cardinality(Upto(places, 0)) = 0 /\ Upto(places, length) = places
  <2>1. \A j \in places : ~(j <= 0) /\ j <= length
    BY <1>0
  <2>2. Upto(places, 0) = {} /\ Upto(places, length) = places
    BY <2>1, Zenon DEF Upto
  <2> QED
    BY <2>2, FS_EmptySet
<1>5. ASSUME NEW i \in Nat \ {0}, i \notin places
      PROVE  Upto(places, i) = Upto(places, i - 1)
  <2>1. \A j \in places : j <= i <=> j <= i - 1
    BY <1>0, <1>5
  <2> QED
    BY <2>1, Zenon DEF Upto
<1>6. ASSUME NEW i \in Nat \ {0}, i \in places
      PROVE  Cardinality(Upto(places, i)) = Cardinality(Upto(places, i - 1)) + 1
  <2>1. Upto(places, i) = Upto(places, i - 1) \union {i} /\ i \notin Upto(places, i - 1)
    <3>1. \A j \in places : j <= i <=> j <= i - 1 \/ j = i
      BY <1>0
    <3>2. i <= i /\ ~(i <= i - 1)
      BY <1>0, <1>6
    <3> QED
      BY <1>6, <3>1, <3>2, Zenon DEF Upto
  <2> QED
    BY <1>3, <2>1, FS_AddElement
<1>7. ASSUME NEW i \in places, NEW j \in places, i < j
      PROVE  Cardinality(Upto(places, i)) < Cardinality(Upto(places, j))
  <2>1. Upto(places, i) \in SUBSET Upto(places, j) /\ Upto(places, i) # Upto(places, j)
    <3>1. \A k \in places : k <= i => k <= j
      BY <1>0, <1>7
    <3>2. j <= j /\ ~(j <= i)
      BY <1>0, <1>7
    <3> QED
      BY <3>1, <3>2, Zenon DEF Upto
  <2> DEFINE a == Cardinality(Upto(places, i))
             b == Cardinality(Upto(places, j))
  <2>2. a <= b /\ a # b /\ a \in Nat /\ b \in Nat
    BY <1>3, <2>1, FS_Subset
  <2> QED
    BY <2>2
<1> QED
  BY <1>1, <1>3, <1>4, <1>5, <1>6, <1>7, FS_CardinalityType

\* There is an n-th place.
LEMMA NthPlace ==
  ASSUME NEW length \in Nat, NEW places \in SUBSET (1..length),
         NEW n \in 1..Cardinality(places)
  PROVE  \E i \in places : Cardinality(Upto(places, i)) = n
<1> DEFINE count(i) == Cardinality(Upto(places, i))
           T == {i \in Nat : count(i) >= n}
<1>1. Cardinality(places) \in Nat /\ \A i \in Nat : count(i) \in Nat
  BY UptoCounts
<1>2. n \in Nat \ {0} /\ n <= Cardinality(places)
  BY <1>1
<1>3. count(0) = 0 /\ count(length) = Cardinality(places)
  BY UptoCounts
<1>4. \A i \in Nat \ {0} : i \notin places => count(i) = count(i - 1)
  BY UptoCounts
<1>5. \A i \in Nat \ {0} : i \in places => count(i) = count(i - 1) + 1
  BY UptoCounts
<1> HIDE DEF count
<1>6. length \in T
  BY <1>2, <1>3
<1>7. PICK i \in T : \A j \in T : i <= j
  <2>1. T \in SUBSET Nat /\ T # {}
    BY <1>6
  <2> HIDE DEF T
  <2> QED
    BY <2>1, Least
<1>8. i \in Nat \ {0} /\ count(i) >= n /\ i - 1 \in Nat
  BY <1>2, <1>3, <1>7
<1>9. count(i - 1) < n /\ count(i - 1) \in Nat /\ count(i) \in Nat
  <2>1. i - 1 \notin T
    BY <1>7, <1>8
  <2> QED
    BY <1>1, <1>2, <1>8, <2>1
<1>10. i \in places /\ count(i) = n
  BY <1>2, <1>4, <1>5, <1>8, <1>9
<1> QED
  BY <1>10 DEF count

\* The line feeds are numbered in their order, without a gap.
LEMMA FeedsInOrder ==
  ASSUME NEW input \in Seq(Names)
  PROVE  /\ Cardinality(Feeds(input)) \in Nat
         /\ \A n \in 1..Cardinality(Feeds(input)) : Feed(input, n) \in Feeds(input)
         /\ \A m, n \in 1..Cardinality(Feeds(input)) :
              m < n => Feed(input, m) < Feed(input, n)
         /\ \A n \in 1..Cardinality(Feeds(input)), i \in Feeds(input) :
              i < Feed(input, n) => n > 1 /\ i <= Feed(input, n - 1)
<1> DEFINE places == Feeds(input)
           many == Cardinality(places)
           count(i) == Cardinality(Upto(places, i))
<1>1. Len(input) \in Nat /\ places \in SUBSET (1..Len(input))
  BY LenProperties DEF Feeds
<1>2. \A i : {j \in places : j <= i} = Upto(places, i)
  BY DEF Upto
<1>3. \A n : Feed(input, n) = CHOOSE i \in places : count(i) = n
  BY <1>2 DEF Feed
<1>4. many \in Nat /\ places \in SUBSET Nat
  BY <1>1, UptoCounts
<1>5. \A i, j \in places : i < j => count(i) < count(j)
  BY <1>1, UptoCounts
<1>6. \A n \in 1..many : \E i \in places : count(i) = n
  BY <1>1, NthPlace
<1>7. \A i \in places : count(i) \in Nat
  BY <1>1, <1>4, UptoCounts
<1>8. \A i \in places : count(i) > 0
  <2> SUFFICES ASSUME NEW i \in places PROVE count(i) > 0
    OBVIOUS
  <2>1. i \in Nat \ {0} /\ i - 1 \in Nat
    BY <1>1
  <2>2. count(i) = count(i - 1) + 1 /\ count(i - 1) \in Nat
    BY <1>1, <2>1, UptoCounts
  <2> HIDE DEF count
  <2> QED
    BY <2>2
<1> HIDE DEF places, many, count
<1>9. \A n \in 1..many : Feed(input, n) \in places /\ count(Feed(input, n)) = n
  BY <1>3, <1>6
<1>10. ASSUME NEW m \in 1..many, NEW n \in 1..many, m < n
       PROVE  Feed(input, m) < Feed(input, n)
  <2> DEFINE a == Feed(input, m)
             b == Feed(input, n)
  <2>1. a \in places /\ b \in places /\ count(a) = m /\ count(b) = n /\ a \in Nat /\ b \in Nat
    BY <1>4, <1>9
  <2> HIDE DEF a, b
  <2>2. ~(b < a) /\ a # b
    BY <1>4, <1>5, <1>10, <2>1
  <2>3. a < b
    BY <2>1, <2>2
  <2> QED
    BY <2>3 DEF a, b
<1>11. ASSUME NEW n \in 1..many, NEW i \in places, i < Feed(input, n)
       PROVE  n > 1 /\ i <= Feed(input, n - 1)
  <2>1. n \in Nat /\ count(i) < n /\ count(i) \in Nat /\ count(i) > 0
    BY <1>4, <1>5, <1>7, <1>8, <1>9, <1>11
  <2>2. n > 1 /\ n - 1 \in 1..many
    BY <1>4, <2>1
  <2> DEFINE b == Feed(input, n - 1)
  <2>3. b \in places /\ count(b) = n - 1 /\ b \in Nat /\ i \in Nat
    BY <1>4, <1>9, <2>2
  <2> HIDE DEF b
  <2>4. ~(b < i)
    BY <1>5, <2>1, <2>3
  <2>5. i <= b
    BY <2>3, <2>4
  <2> QED
    BY <2>2, <2>5 DEF b
<1> QED
  BY <1>4, <1>9, <1>10, <1>11 DEF many, places

\* Where the n-th line begins.
Begin(input, n) == IF n = 1 THEN 1 ELSE Feed(input, n - 1) + 1

LEMMA LinesFound ==
  ASSUME NEW input \in Seq(Names)
  PROVE  /\ Lines(input) \in Seq(Seq(Names)) /\ Len(Lines(input)) = Cardinality(Feeds(input))
         /\ \A n \in 1..Len(Lines(input)) :
              Lines(input)[n] = SubSeq(input, Begin(input, n), Feed(input, n) - 1)
<1> DEFINE many == Cardinality(Feeds(input))
           line(n) == SubSeq(input, Begin(input, n), Feed(input, n) - 1)
<1>1. Lines(input) = [n \in 1..many |-> line(n)]
  BY DEF Lines, Begin
<1>2. ASSUME NEW n \in 1..many
      PROVE  line(n) \in Seq(Names)
  <2> DEFINE a == Begin(input, n)
             b == Feed(input, n) - 1
  <2>1. /\ many \in Nat /\ Feeds(input) \in SUBSET (1..Len(input)) /\ Len(input) \in Nat
        /\ \A k \in 1..many : Feed(input, k) \in Feeds(input)
    BY FeedsInOrder, LenProperties DEF Feeds
  <2>2. a \in Nat \ {0} /\ b \in Nat /\ b < Len(input)
    <3>1. Feed(input, n) \in 1..Len(input)
      BY <2>1
    <3>2. n = 1 \/ n - 1 \in 1..many
      BY <2>1
    <3>3. n = 1 \/ Feed(input, n - 1) \in 1..Len(input)
      BY <2>1, <3>2
    <3> QED
      BY <2>1, <3>1, <3>3 DEF Begin
  <2> HIDE DEF a, b
  <2>3. \A i \in a..b : input[i] \in Names
    <3> SUFFICES ASSUME NEW i \in a..b PROVE input[i] \in Names
      OBVIOUS
    <3>1. i \in 1..Len(input)
      BY <2>1, <2>2
    <3> QED
      BY <3>1, ElementOfSeq
  <2>4. SubSeq(input, a, b) \in Seq(Names)
    BY <2>2, <2>3, SubSeqProperties
  <2> QED
    BY <2>4 DEF a, b
<1>3. many \in Nat
  BY FeedsInOrder
<1> HIDE DEF many, line
<1>4. [n \in 1..many |-> line(n)] \in Seq(Seq(Names))
  BY <1>2, <1>3, IsASeq
<1>5. Len([n \in 1..many |-> line(n)]) = many
  BY <1>3
<1> QED
  BY <1>1, <1>4, <1>5 DEF many, line

-----------------------------------------------------------------------------
(***************************************************************************)
(* Types, and what is left to do.                                          *)
(***************************************************************************)
Tagged(lines) == [n \in 1..Len(lines) |-> <<"process_input">> \o lines[n]]

\* What is appended comes last, and what was there stays where it was.
LEMMA OneAppended ==
  ASSUME NEW n \in Nat, NEW f, NEW g, NEW h,
         \A i \in 1..(n + 1) : f[i] = IF i <= n THEN g[i] ELSE h[i - n]
  PROVE  f[n + 1] = h[1] /\ \A k \in 1..n : f[k] = g[k]
<1>1. n + 1 \in 1..(n + 1) /\ ~(n + 1 <= n) /\ (n + 1) - n = 1
  OBVIOUS
<1>2. \A k \in 1..n : k \in 1..(n + 1) /\ k <= n
  OBVIOUS
<1>3. f[n + 1] = h[(n + 1) - n]
  BY <1>1, Zenon
<1>4. \A k \in 1..n : f[k] = g[k]
  BY <1>2, Zenon
<1> QED
  BY <1>1, <1>3, <1>4, Zenon

\* A read leaves its lines to be obeyed, and then the clock to be read.
LEMMA TaggedLines ==
  ASSUME NEW lines \in Seq(Seq(Names))
  PROVE  /\ Obeying(Tagged(lines) \o Loop)
         /\ Len(Tagged(lines) \o Loop) = Len(lines) + 1
         /\ \A k \in 1..Len(lines) :
              /\ (Tagged(lines) \o Loop)[k][1] = "process_input"
              /\ Tail((Tagged(lines) \o Loop)[k]) = lines[k]
         /\ (Tagged(lines) \o Loop)[Len(lines) + 1] = <<"gettimeofday">>
<1> DEFINE C == Seq(Names)
           call(k) == <<"process_input">> \o lines[k]
           n == Len(lines)
           all == Tagged(lines) \o Loop
<1>1. n \in Nat /\ \A k \in 1..n : lines[k] \in C
  BY LenProperties, ElementOfSeq
<1>2. <<"process_input">> \in C /\ <<"gettimeofday">> \in C
  BY TextsTyped DEF Texts
<1>3. ASSUME NEW k \in 1..n
      PROVE  call(k) \in C /\ call(k) # <<>> /\ call(k)[1] = "process_input" /\ Tail(call(k)) = lines[k]
  <2> DEFINE line == lines[k]
             whole == <<"process_input">> \o line
  <2>1. line \in C /\ <<"process_input">> \in C /\ Len(line) \in Nat
    BY <1>1, <1>2, LenProperties
  <2> HIDE DEF line
  <2>2. /\ whole \in Seq(Names) /\ Len(whole) = Len(<<"process_input">>) + Len(line)
        /\ \A i \in 1..Len(<<"process_input">>) + Len(line) :
             whole[i] = IF i <= Len(<<"process_input">>) THEN <<"process_input">>[i]
                        ELSE line[i - Len(<<"process_input">>)]
    BY <2>1, ConcatProperties, Zenon
  <2>3. Len(<<"process_input">>) = 1 /\ <<"process_input">>[1] = "process_input"
    OBVIOUS
  <2>4. Len(whole) = Len(line) + 1 /\ whole[1] = "process_input" /\ whole # <<>>
    BY <2>1, <2>2, <2>3
  <2>5. \A i \in 1..Len(line) : whole[i + 1] = line[i]
    BY <2>1, <2>2, <2>3
  <2> HIDE DEF whole
  <2>6. Tail(whole) \in Seq(Names) /\ Len(Tail(whole)) = Len(line)
    BY <2>1, <2>2, <2>4, HeadTailProperties
  <2>7. \A i \in 1..Len(line) : Tail(whole)[i] = line[i]
    BY <2>2, <2>4, <2>5, <2>6, HeadTailProperties
  <2>8. Tail(whole) = line
    BY <2>1, <2>6, <2>7, SeqEqual
  <2> QED
    BY <2>2, <2>4, <2>8 DEF whole, line
<1>4. Tagged(lines) = [k \in 1..n |-> call(k)]
  BY DEF Tagged
<1> HIDE DEF C, call, n
<1>5. [k \in 1..n |-> call(k)] \in Seq(C)
  BY <1>1, <1>3, IsASeq
<1>6. Tagged(lines) \in Seq(C) /\ Len(Tagged(lines)) = n /\ \A k \in 1..n : Tagged(lines)[k] = call(k)
  BY <1>1, <1>4, <1>5
<1>7. Loop \in Seq(C) /\ Len(Loop) = 1 /\ Loop[1] = <<"gettimeofday">>
  BY <1>2 DEF Loop
<1>8. /\ all \in Seq(C) /\ Len(all) = Len(Tagged(lines)) + Len(Loop)
      /\ \A i \in 1..Len(Tagged(lines)) + Len(Loop) :
           all[i] = IF i <= Len(Tagged(lines)) THEN Tagged(lines)[i] ELSE Loop[i - Len(Tagged(lines))]
  BY <1>6, <1>7, ConcatProperties, Zenon
<1> HIDE DEF all
<1>9. /\ Len(all) = n + 1 /\ all[n + 1] = <<"gettimeofday">>
      /\ \A k \in 1..n : all[k] = call(k)
  <2>1. \A i \in 1..(n + 1) : all[i] = IF i <= n THEN Tagged(lines)[i] ELSE Loop[i - n]
    <3>1. Len(Tagged(lines)) = n /\ Len(Loop) = 1
      BY <1>6, <1>7
    <3> QED
      BY <1>8, <3>1, Zenon
  <2>2. n \in Nat
    BY <1>1
  <2>3. all[n + 1] = Loop[1] /\ \A k \in 1..n : all[k] = Tagged(lines)[k]
    <3> HIDE DEF Tagged, Loop
    <3> QED
      BY <2>1, <2>2, OneAppended
  <2>6. Len(all) = n + 1
    <3>1. Len(Tagged(lines)) = n /\ Len(Loop) = 1
      BY <1>6, <1>7
    <3> QED
      BY <1>8, <3>1, Zenon
  <2>7. all[n + 1] = <<"gettimeofday">>
    BY <1>7, <2>3, Zenon
  <2>8. \A k \in 1..n : all[k] = call(k)
    BY <1>6, <2>3, Zenon
  <2> QED
    BY <2>6, <2>7, <2>8
<1>10. all # <<>> /\ Len(all) - 1 = n
  <2>1. Len(<<>>) = 0 /\ n + 1 # 0
    BY <1>1
  <2>2. all # <<>>
    BY <1>9, <2>1, Zenon
  <2> QED
    BY <1>1, <1>9, <2>2
<1>11. \A k \in 1..n : all[k] # <<>> /\ all[k][1] = "process_input" /\ Tail(all[k]) = lines[k]
  BY <1>3, <1>9
<1>12. Obeying(all)
  BY <1>8, <1>9, <1>10, <1>11 DEF Obeying, C
<1> QED
  BY <1>9, <1>11, <1>12 DEF all, n

\* What is written to the log.
LEMMA FprintfWrites ==
  ASSUME Values, NEW text \in Seq(Names), fprintf(text)
  PROVE  \/ /\ opt.log /\ "file" \in open /\ UNCHANGED ended
            /\ log' = Append(log, text) /\ log' \in Seq(Seq(Names)) /\ log' # <<>>
            /\ Len(log') = Len(log) + 1 /\ log'[Len(log) + 1] = text
            /\ \A i \in 1..Len(log) : log'[i] = log[i]
         \/ /\ ~(opt.log /\ "file" \in open) /\ UNCHANGED log
            /\ \/ ended' = ended
               \/ opt.log /\ ended' \in {"no", "killed"}
<1>1. CASE opt.log /\ "file" \in open
  <2>1. log' = Append(log, text) /\ UNCHANGED ended
    BY <1>1 DEF fprintf
  <2>2. log \in Seq(Seq(Names)) /\ text \in Seq(Names)
    BY DEF Values
  <2>3. /\ Append(log, text) \in Seq(Seq(Names)) /\ Append(log, text) # <<>>
        /\ Len(Append(log, text)) = Len(log) + 1 /\ Append(log, text)[Len(log) + 1] = text
        /\ \A i \in 1..Len(log) : Append(log, text)[i] = log[i]
    BY <2>2, AppendProperties
  <2> QED
    BY <1>1, <2>1, <2>3, Zenon
<1>2. CASE ~(opt.log /\ "file" \in open)
  BY <1>2 DEF fprintf, UseAfterClose
<1> QED
  BY <1>1, <1>2

LEMMA FprintfKeeps ==
  ASSUME Values, NEW text \in Seq(Names), fprintf(text)
  PROVE  /\ log' \in Seq(Seq(Names)) /\ (log' # <<>> => opt.log)
         /\ ended' \in {"no", "exit 0", "exit 1", "killed"}
<1>1. log \in Seq(Seq(Names)) /\ (log # <<>> => opt.log) /\ ended \in {"no", "exit 0", "exit 1", "killed"}
  BY DEF Values
<1> QED
  BY <1>1, FprintfWrites, Zenon

\* A thread that does the next of its steps.
LEMMA ReturnSteps ==
  ASSUME Todos, NEW t \in Threads, Return(t)
  PROVE  /\ todo' = [u \in Threads |-> todo'[u]] /\ todo'[t] = Tail(todo[t])
         /\ \A u \in Threads \ {t} : todo'[u] = todo[u]
  BY DEF Return, Todos

LEMMA ThreadsAre == "main" \in Threads /\ "isr" \in Threads /\ \A t \in Threads : t \in {"main", "isr"}
  BY DEF Threads

\* No two of the things that are left to do are the same.
LEMMA AllDifferent ==
  /\ ToStart \notin Reporting \union ShuttingDown
  /\ TimeNext \notin {TempNext, PollNext} \union ShuttingDown
  /\ TempNext \notin {PollNext} \union ShuttingDown
  /\ PollNext \notin ShuttingDown
  /\ process_shutdown \notin {ToTell, ToClose, ToRelease, ToExit}
  /\ ToTell \notin {ToClose, ToRelease, ToExit}
  /\ ToClose \notin {ToRelease, ToExit}
  /\ ToRelease # ToExit
  /\ \A calls : Obeying(calls) => calls \notin {ToStart} \union Reporting \union ShuttingDown
<1>1. TimeNext # process_shutdown
  BY ReportSteps, ShutdownSteps
<1>2. \A calls : Obeying(calls) => calls \notin {ToStart} \union Reporting \union ShuttingDown
  BY ObeyingSteps, ReportSteps, ShutdownSteps DEF Reporting, ShuttingDown
<1> QED
  BY <1>1, <1>2, ReportSteps, ShutdownSteps, ZenonT(30) DEF Reporting, ShuttingDown

\* A thread that shuts down goes on to do so; the main thread may also be in a report.
LEMMA ShutdownReturns ==
  ASSUME Todos, NEW t \in Threads, NEW name, Calls(t, name), Return(t),
         name \in {"print_current_time", "SHUTDOWN", "fclose", "close"}
  PROVE  /\ Todos'
         /\ \A u \in Threads \ {t} : todo'[u] = todo[u]
         /\ todo[t] # <<>> /\ todo'[t] # <<>>
         /\ todo[t] # ToStart /\ todo'[t] # ToStart
         /\ \/ /\ name = "print_current_time" /\ t = "main"
               /\ todo[t] = TimeNext /\ todo'[t] = TempNext
            \/ name = "print_current_time" /\ todo[t] = process_shutdown /\ todo'[t] = ToTell
            \/ name = "SHUTDOWN" /\ todo[t] = ToTell /\ todo'[t] = ToClose
            \/ name = "fclose" /\ todo[t] = ToClose /\ todo'[t] = ToRelease
            \/ name = "close" /\ todo[t] = ToRelease /\ todo'[t] = ToExit
<1>1. /\ todo' = [u \in Threads |-> todo'[u]] /\ todo'[t] = Tail(todo[t])
      /\ \A u \in Threads \ {t} : todo'[u] = todo[u]
  BY ReturnSteps
<1>2. \/ name = "print_current_time" /\ t = "main" /\ todo[t] = TimeNext
      \/ name = "print_current_time" /\ todo[t] = process_shutdown
      \/ name = "SHUTDOWN" /\ todo[t] = ToTell
      \/ name = "fclose" /\ todo[t] = ToClose
      \/ name = "close" /\ todo[t] = ToRelease
  <2>1. CASE t = "main"
    BY <2>1, MainCalls
  <2>2. CASE t = "isr"
    BY <2>2, IsrCalls
  <2> QED
    BY <2>1, <2>2, ThreadsAre
<1>3. \/ /\ name = "print_current_time" /\ t = "main"
         /\ todo[t] = TimeNext /\ todo'[t] = TempNext
      \/ name = "print_current_time" /\ todo[t] = process_shutdown /\ todo'[t] = ToTell
      \/ name = "SHUTDOWN" /\ todo[t] = ToTell /\ todo'[t] = ToClose
      \/ name = "fclose" /\ todo[t] = ToClose /\ todo'[t] = ToRelease
      \/ name = "close" /\ todo[t] = ToRelease /\ todo'[t] = ToExit
  BY <1>1, <1>2, ReportSteps, ShutdownSteps, Zenon
<1>4. Todos'
  <2>1. CASE t = "main"
    BY <1>1, <1>3, <2>1, ThreadsAre DEF Todos, Reporting, ShuttingDown
  <2>2. CASE t = "isr"
    BY <1>1, <1>3, <2>2, ThreadsAre DEF Todos, Reporting, ShuttingDown
  <2> QED
    BY <2>1, <2>2, ThreadsAre
<1>5. todo[t] # <<>> /\ todo'[t] # <<>> /\ todo[t] # ToStart /\ todo'[t] # ToStart
  BY <1>3, NeverNothing, AllDifferent DEF Reporting, ShuttingDown
<1> QED
  BY <1>1, <1>3, <1>4, <1>5, Zenon

LEMMA InitTyped == Init => Typed
<1> SUFFICES ASSUME Init PROVE Typed
  OBVIOUS
<1>1. Todos
  BY DEF Init, Todos, ToStart, Threads
<1>2. Values
  <2>1. opt.script \in Seq(Names) /\ Len(opt.script) \in Nat
    BY Lab4bAssumption, LenProperties DEF Init
  <2> QED
    BY <2>1, Lab4bAssumption, EmptySeq DEF Init, Values
<1>3. Fresh
  BY DEF Init, Fresh
<1> QED
  BY <1>1, <1>2, <1>3 DEF Typed

LEMMA ScriptTyped ==
  ASSUME Values
  PROVE  /\ opt.script \in Seq(Names) /\ Len(opt.script) \in Nat
         /\ arrived \in Nat /\ taken \in Nat /\ now \in Nat /\ cur_time \in Nat
         /\ arrived <= Len(opt.script) /\ taken <= arrived /\ now <= MaxTime /\ cur_time <= now
<1>1. opt.script \in Seq(Names) /\ Len(opt.script) \in Nat
  BY Lab4bAssumption, LenProperties DEF Values
<1> DEFINE n == Len(opt.script)
<1>2. arrived \in 0..n /\ taken \in 0..arrived /\ now \in 0..MaxTime /\ cur_time \in 0..now
  BY DEF Values
<1> HIDE DEF n
<1>3. n \in Nat /\ MaxTime \in Nat
  BY <1>1, Lab4bAssumption DEF n
<1>4. /\ arrived \in Nat /\ taken \in Nat /\ now \in Nat /\ cur_time \in Nat
      /\ arrived <= n /\ taken <= arrived /\ now <= MaxTime /\ cur_time <= now
  BY <1>2, <1>3
<1> QED
  BY <1>1, <1>4 DEF n

\* The steps of process_shutdown, and of a report, that print or close something.
LEMMA StepsOfShutdown ==
  ASSUME Typed, UNCHANGED <<opt, now>>, NEW t \in Threads, Shutdown(t)
  PROVE  Typed'
<1>1. CASE print_current_time(t) \/ PrintShutdown(t) \/ CloseFile(t) \/ CloseSensors(t)
  <2>1. PICK name \in {"print_current_time", "SHUTDOWN", "fclose", "close"} :
          Calls(t, name) /\ Return(t)
    BY <1>1 DEF print_current_time, PrintShutdown, CloseFile, CloseSensors
  <2>2. Todos' /\ Fresh'
    BY <2>1, ShutdownReturns, ThreadsAre DEF Typed, Fresh
  <2>3. UNCHANGED <<opt, now, arrived, taken, cur_time, run_time, scale, period, status>>
    BY <1>1 DEF print_current_time, PrintShutdown, CloseFile, CloseSensors, clocks, settings
  <2>4. open' \subseteq {"file", "button", "sensor"}
    BY <1>1 DEF print_current_time, PrintShutdown, CloseFile, CloseSensors, Typed, Values
  <2>5. /\ log' \in Seq(Seq(Names)) /\ (log' # <<>> => opt.log)
        /\ ended' \in {"no", "exit 0", "exit 1", "killed"}
    <3>1. CASE print_current_time(t) \/ PrintShutdown(t)
      BY <3>1, FprintfKeeps, TextsTyped DEF print_current_time, PrintShutdown, Typed, Texts
    <3>2. CASE CloseFile(t) \/ CloseSensors(t)
      BY <3>2 DEF CloseFile, CloseSensors, UseAfterClose, Typed, Values
    <3> QED
      BY <1>1, <3>1, <3>2
  <2>6. Values'
    BY <2>3, <2>4, <2>5 DEF Typed, Values
  <2> QED
    BY <2>2, <2>6 DEF Typed
<1>2. CASE Exit(t)
  <2>1. /\ UNCHANGED <<opt, now, arrived, taken, cur_time, run_time, scale, period, status, todo, open, log>>
        /\ ended' = "exit 0"
    BY <1>2 DEF Exit, clocks, settings
  <2>2. todo["main"] # ToStart
    <3>1. CASE t = "main"
      BY <1>2, <3>1, MainCalls, AllDifferent DEF Exit, Typed, ShuttingDown
    <3>2. CASE t = "isr"
      BY <1>2, <3>2, IsrCalls, NeverNothing DEF Exit, Typed, Fresh
    <3> QED
      BY <3>1, <3>2, ThreadsAre
  <2> QED
    BY <2>1, <2>2, ZenonT(30) DEF Typed, Todos, Values, Fresh
<1> QED
  BY <1>1, <1>2 DEF Shutdown

LEMMA InitializeTyped ==
  ASSUME Typed, UNCHANGED <<opt, now>>, Initialize
  PROVE  Typed'
<1>1. todo["main"] = ToStart
  BY MainCalls DEF Initialize, Typed
<1>2. UNCHANGED <<opt, now, arrived, taken, cur_time, run_time, scale, period, status, log>>
  BY DEF Initialize, clocks, settings
<1>3. CASE ended' = "exit 1"
  <2>1. UNCHANGED <<todo, open>>
    <3>1. ended # "exit 1"
      BY DEF Initialize, Calls
    <3> QED
      BY <1>3, <3>1 DEF Initialize
  <2> QED
    BY <1>2, <1>3, <2>1 DEF Typed, Todos, Values, Fresh
<1>4. CASE ended' # "exit 1"
  <2>1. /\ open' \subseteq {"file", "button", "sensor"} /\ UNCHANGED ended
        /\ todo' = [todo EXCEPT !["main"] = Loop]
    BY <1>4 DEF Initialize
  <2>2. todo' = [u \in Threads |-> todo'[u]] /\ todo'["main"] = Loop /\ todo'["isr"] = todo["isr"]
    BY <2>1, ThreadsAre DEF Typed, Todos
  <2>3. Todos' /\ Fresh'
    BY <2>2, LoopIsObeying, AllDifferent DEF Typed, Todos, Fresh
  <2> QED
    BY <1>2, <2>1, <2>3 DEF Typed, Values
<1> QED
  BY <1>3, <1>4

LEMMA ReadClockTyped ==
  ASSUME Typed, UNCHANGED <<opt, now>>, ReadClock
  PROVE  Typed'
<1>1. /\ UNCHANGED <<opt, now, arrived, taken, run_time, scale, period, status, open, log, ended>>
      /\ cur_time' = now
  BY DEF ReadClock, settings
<1>2. /\ todo' = [u \in Threads |-> todo'[u]] /\ todo'["main"] \in {TimeNext, PollNext}
      /\ todo'["isr"] = todo["isr"]
  BY ThreadsAre DEF ReadClock, Typed, Todos, TimeNext, PollNext
<1>3. Todos' /\ Fresh'
  BY <1>2, AllDifferent DEF Typed, Todos, Fresh, Reporting
<1>4. cur_time' \in 0..now'
  BY <1>1, ScriptTyped DEF Typed
<1>5. Values'
  BY <1>1, <1>4 DEF Typed, Values
<1> QED
  BY <1>3, <1>5 DEF Typed

LEMMA PrintTempTyped ==
  ASSUME Typed, UNCHANGED <<opt, now>>, print_current_temp
  PROVE  Typed'
<1>1. /\ UNCHANGED <<opt, now, arrived, taken, cur_time, scale, period, status, open>>
      /\ run_time' = cur_time + period
      /\ Return("main") /\ Calls("main", "print_current_temp")
  BY DEF print_current_temp, settings
<1>2. /\ todo' = [u \in Threads |-> todo'[u]] /\ todo'["main"] = PollNext /\ todo'["isr"] = todo["isr"]
  BY <1>1, MainCalls, ReportSteps, ReturnSteps, ThreadsAre, ZenonT(30) DEF Typed
<1>3. Todos' /\ Fresh'
  BY <1>2, AllDifferent DEF Typed, Todos, Fresh, Reporting
<1>4. /\ log' \in Seq(Seq(Names)) /\ (log' # <<>> => opt.log)
      /\ ended' \in {"no", "exit 0", "exit 1", "killed"}
  <2>1. <<"temp", scale>> \in Seq(Names)
    BY TextsTyped DEF Typed, Values
  <2>2. CASE "sensor" \in open
    BY <2>1, <2>2, FprintfKeeps DEF print_current_temp, Typed
  <2>3. CASE "sensor" \notin open
    BY <2>3 DEF print_current_temp, UseAfterClose, Typed, Values
  <2> QED
    BY <2>2, <2>3
<1>5. run_time' \in Int
  <2>1. cur_time \in Nat /\ period \in Int
    <3>1. period \in Periods \union {0, 2}
      BY DEF Typed, Values
    <3> QED
      BY <3>1, ScriptTyped, Lab4bAssumption DEF Typed
  <2> QED
    BY <1>1, <2>1
<1>6. Values'
  BY <1>1, <1>4, <1>5 DEF Typed, Values
<1> QED
  BY <1>3, <1>6 DEF Typed

\* What the program reads of its input is a part of it.
Piece == SubSeq(opt.script, taken + 1, arrived)

LEMMA PieceTyped ==
  ASSUME Values
  PROVE  /\ Piece \in Seq(Names) /\ Len(Piece) = arrived - taken
         /\ \A i \in 1..(arrived - taken) : Piece[i] = opt.script[taken + i]
         /\ Lines(Piece) \in Seq(Seq(Names))
<1> DEFINE script == opt.script
<1>1. script \in Seq(Names) /\ Len(script) \in Nat /\ arrived \in Nat /\ taken \in Nat
      /\ arrived <= Len(script) /\ taken <= arrived
  BY ScriptTyped
<1>2. Piece = SubSeq(script, taken + 1, arrived)
  BY DEF Piece
<1>3. \A i \in (taken + 1)..arrived : script[i] \in Names
  <2> SUFFICES ASSUME NEW i \in (taken + 1)..arrived PROVE script[i] \in Names
    OBVIOUS
  <2>1. i \in 1..Len(script)
    <3> HIDE DEF script
    <3> QED
      BY <1>1
  <2> QED
    BY <1>1, <2>1, ElementOfSeq
<1> HIDE DEF script
<1>4. taken + 1 \in Int /\ arrived \in Int
  BY <1>1
<1>5. /\ Piece \in Seq(Names)
      /\ Len(Piece) = IF taken + 1 <= arrived THEN arrived - (taken + 1) + 1 ELSE 0
      /\ \A i \in 1..(arrived - (taken + 1) + 1) : Piece[i] = script[(taken + 1) + i - 1]
  BY <1>2, <1>3, <1>4, SubSeqProperties
<1>6. Len(Piece) = arrived - taken
  BY <1>1, <1>5
<1>7. \A i \in 1..(arrived - taken) : Piece[i] = script[taken + i]
  <2> SUFFICES ASSUME NEW i \in 1..(arrived - taken) PROVE Piece[i] = script[taken + i]
    OBVIOUS
  <2>1. i \in 1..(arrived - (taken + 1) + 1) /\ (taken + 1) + i - 1 = taken + i
    BY <1>1
  <2> QED
    BY <1>5, <2>1
<1> QED
  BY <1>5, <1>6, <1>7, LinesFound DEF script

LEMMA PollInputTyped ==
  ASSUME Typed, UNCHANGED <<opt, now>>, PollInput
  PROVE  Typed'
<1>1. /\ UNCHANGED <<opt, now, arrived, cur_time, run_time, scale, period, status, open, log>>
  BY DEF PollInput, clocks, settings
<1>2. todo["main"] = PollNext
  BY MainCalls DEF PollInput, Typed
<1>3. CASE ended' = "exit 1" /\ UNCHANGED <<taken, todo>>
  BY <1>1, <1>2, <1>3, AllDifferent DEF Typed, Todos, Values, Fresh, Reporting
<1>4. CASE ~(ended' = "exit 1" /\ UNCHANGED <<taken, todo>>)
  <2>1. /\ taken' = arrived /\ UNCHANGED ended
        /\ todo' = [todo EXCEPT !["main"] = Tagged(Lines(Piece)) \o Loop]
    BY <1>4 DEF PollInput, Tagged, Piece
  <2>2. Obeying(Tagged(Lines(Piece)) \o Loop)
    BY PieceTyped, TaggedLines DEF Typed
  <2>3. todo' = [u \in Threads |-> todo'[u]] /\ Obeying(todo'["main"]) /\ todo'["isr"] = todo["isr"]
    BY <2>1, <2>2, ThreadsAre DEF Typed, Todos
  <2>4. Todos' /\ Fresh'
    BY <2>3, AllDifferent DEF Typed, Todos, Fresh
  <2>5. taken' \in 0..arrived
    BY <2>1, ScriptTyped DEF Typed
  <2> QED
    BY <1>1, <2>1, <2>4, <2>5 DEF Typed, Values
<1> QED
  BY <1>3, <1>4

\* What obeying a line leaves to do.
LEMMA ThenSteps ==
  ASSUME Todos, Calls("main", "process_input"), NEW line,
         todo' = [todo EXCEPT !["main"] = Then(line)]
  PROVE  /\ Todos' /\ todo'["isr"] = todo["isr"]
         /\ todo["main"] # ToStart /\ todo'["main"] # ToStart
         /\ IF line = <<"OFF">> THEN todo'["main"] = process_shutdown
            ELSE Obeying(todo'["main"]) /\ todo'["main"] = Tail(todo["main"])
<1>1. Obeying(todo["main"]) /\ Head(todo["main"])[1] = "process_input"
  BY MainCalls DEF Calls
<1>2. Obeying(Tail(todo["main"]))
  BY <1>1, ObeyingSteps
<1>3. todo' = [u \in Threads |-> todo'[u]] /\ todo'["main"] = Then(line) /\ todo'["isr"] = todo["isr"]
  BY ThreadsAre DEF Todos
<1>4. IF line = <<"OFF">> THEN todo'["main"] = process_shutdown
      ELSE Obeying(todo'["main"]) /\ todo'["main"] = Tail(todo["main"])
  BY <1>2, <1>3 DEF Then
<1> QED
  BY <1>1, <1>3, <1>4, AllDifferent DEF Todos, ShuttingDown

LEMMA ProcessInputTyped ==
  ASSUME Typed, UNCHANGED <<opt, now>>, process_input
  PROVE  Typed'
<1> DEFINE line == Tail(Head(todo["main"]))
<1>1. /\ UNCHANGED <<opt, now, arrived, taken, cur_time, run_time, open>>
      /\ scale' \in {scale, "F", "C"} /\ period' \in {period, 0, 2} /\ status' \in {status, 0, 1}
  BY DEF process_input, clocks, NewPeriod
<1>2. Calls("main", "process_input") /\ todo' = [todo EXCEPT !["main"] = Then(line)]
  BY DEF process_input
<1>3. Todos' /\ Fresh'
  BY <1>2, ThenSteps DEF Typed, Fresh
<1>4. line \in Seq(Names)
  <2>1. Head(todo["main"]) \in Seq(Names) /\ Head(todo["main"]) # <<>>
    BY <1>2, MainCalls, ObeyingSteps DEF Typed
  <2> QED
    BY <2>1, HeadTailProperties
<1>5. /\ log' \in Seq(Seq(Names)) /\ (log' # <<>> => opt.log)
      /\ ended' \in {"no", "exit 0", "exit 1", "killed"}
  <2>1. CASE Known(line)
    BY <1>4, <2>1, FprintfKeeps DEF process_input, Typed
  <2>2. CASE ~Known(line)
    BY <2>2 DEF process_input, Typed, Values
  <2> QED
    BY <2>1, <2>2
<1> HIDE DEF line
<1>6. Values'
  BY <1>1, <1>5 DEF Typed, Values
<1> QED
  BY <1>3, <1>6 DEF Typed

LEMMA EnvironmentTyped ==
  ASSUME Typed, Environment
  PROVE  Typed'
<1>1. CASE Send
  <2>1. /\ UNCHANGED <<opt, taken, now, cur_time, run_time, scale, period, status, todo, open, log, ended>>
        /\ arrived' = arrived + 1 /\ arrived < Len(opt.script)
    BY <1>1 DEF Send, Environment, clocks, settings
  <2> DEFINE n == Len(opt.script)
  <2>2. arrived \in Nat /\ taken \in Nat /\ taken <= arrived /\ arrived < n /\ n \in Nat
    BY <2>1, ScriptTyped DEF Typed
  <2> HIDE DEF n
  <2>3. arrived + 1 \in 0..n /\ taken \in 0..(arrived + 1)
    BY <2>2
  <2> QED
    BY <2>1, <2>3, ZenonT(30) DEF Typed, Todos, Values, Fresh, n
<1>2. CASE PressButton
  <2>1. /\ UNCHANGED <<opt, arrived, taken, now, cur_time, run_time, scale, period, status, open, log, ended>>
        /\ todo' = [todo EXCEPT !["isr"] = process_shutdown] /\ open # {}
    BY <1>2 DEF PressButton, Environment, clocks, settings
  <2>2. todo'["main"] = todo["main"] /\ todo' = [u \in Threads |-> todo'[u]] /\ todo'["isr"] = process_shutdown
    BY <2>1, ThreadsAre DEF Typed, Todos
  <2> QED
    BY <2>1, <2>2 DEF Typed, Todos, Values, Fresh, ShuttingDown
<1>3. CASE Tick
  <2>1. /\ UNCHANGED <<opt, arrived, taken, cur_time, run_time, scale, period, status, todo, open, log, ended>>
        /\ now' = now + 1 /\ now < MaxTime
    BY <1>3 DEF Tick, Environment, clocks, settings
  <2>2. now + 1 \in 0..MaxTime /\ cur_time \in 0..(now + 1)
    BY <2>1, ScriptTyped, Lab4bAssumption DEF Typed
  <2> QED
    BY <2>1, <2>2, ZenonT(30) DEF Typed, Todos, Values, Fresh
<1> QED
  BY <1>1, <1>2, <1>3 DEF Environment

LEMMA NextTyped == Typed /\ [Next]_vars => Typed'
<1> SUFFICES ASSUME Typed, [Next]_vars PROVE Typed'
  OBVIOUS
<1>1. CASE main
  BY <1>1, ThreadsAre, InitializeTyped, ReadClockTyped, PrintTempTyped, PollInputTyped,
     ProcessInputTyped, StepsOfShutdown DEF main
<1>2. CASE isr
  BY <1>2, ThreadsAre, StepsOfShutdown DEF isr
<1>3. CASE Environment
  BY <1>3, EnvironmentTyped
<1>4. CASE UNCHANGED vars
  BY <1>4, ZenonT(30) DEF vars, clocks, settings, Typed, Todos, Values, Fresh
<1> QED
  BY <1>1, <1>2, <1>3, <1>4 DEF Next

\* The threads only ever have the calls to make that Todos lists, whatever they do to
\* each other, and the variables their values.
THEOREM TypedAlways == Spec => []Typed
BY InitTyped, NextTyped, PTL DEF Spec

\* Every variable of lab4b has its type, and the main thread always has a call to make.
THEOREM LoggerTyped == Spec => []TypeOK
<1>1. Typed => TypeOK
  <2> SUFFICES ASSUME Typed PROVE TypeOK
    OBVIOUS
  <2>1. \A t \in Threads : todo[t] \in Seq(Seq(Names))
    <3>1. todo["main"] \in Seq(Seq(Names))
      BY CallsTyped DEF Typed, Todos, Obeying
    <3>2. todo["isr"] \in Seq(Seq(Names))
      BY CallsTyped, EmptySeq DEF Typed, Todos
    <3> QED
      BY <3>1, <3>2, ThreadsAre
  <2>2. todo = [t \in Threads |-> todo[t]] /\ todo["main"] # <<>>
    BY NeverNothing DEF Typed, Todos, Obeying, Reporting, ShuttingDown
  <2>3. todo \in [Threads -> Seq(Seq(Names))]
    BY <2>1, <2>2
  <2> QED
    BY <2>2, <2>3 DEF Typed, Values, TypeOK
<1> QED
  BY TypedAlways, <1>1, PTL

-----------------------------------------------------------------------------
(***************************************************************************)
(* The log tells of the settings.                                          *)
(***************************************************************************)
LEMMA LastOfFound ==
  ASSUME NEW lines, NEW entries, NEW n \in Nat, NEW last, last = LastOf(lines, entries, n + 1)
  PROVE  /\ last \in 0..n
         /\ last = 0 => \A j \in 1..n : entries[j] \notin lines
         /\ last # 0 => entries[last] \in lines /\ \A j \in 1..n : entries[j] \in lines => j <= last
<1> DEFINE places == {j \in 1..(n + 1 - 1) : entries[j] \in lines}
<1>1. last = IF places = {} THEN 0 ELSE CHOOSE j \in places : \A k \in places : k <= j
  BY DEF LastOf
<1>2. places = {j \in 1..n : entries[j] \in lines}
  <2>1. n + 1 - 1 = n
    OBVIOUS
  <2> QED
    BY <2>1, Zenon
<1> HIDE DEF places
<1>3. ASSUME places # {}
      PROVE  \E j \in places : \A k \in places : k <= j
  <2> DEFINE T == {i \in Nat : i <= n /\ n - i \in places}
  <2>1. T \in SUBSET Nat /\ T # {}
    <3>1. PICK j \in places : TRUE
      BY <1>3
    <3>2. j \in 1..n
      BY <1>2
    <3>3. n - j \in Nat /\ n - j <= n /\ n - (n - j) = j
      BY <3>2
    <3>4. n - j \in T
      BY <3>1, <3>3
    <3> QED
      BY <3>4
  <2>2. PICK i \in T : \A k \in T : i <= k
    <3> HIDE DEF T
    <3> QED
      BY <2>1, Least
  <2>3. n - i \in places /\ i \in Nat
    OBVIOUS
  <2>4. \A k \in places : k <= n - i
    <3> SUFFICES ASSUME NEW k \in places PROVE k <= n - i
      OBVIOUS
    <3>1. k \in 1..n
      BY <1>2
    <3>2. n - k \in Nat /\ n - k <= n /\ n - (n - k) = k
      BY <3>1
    <3>3. i <= n - k
      BY <2>2, <3>2
    <3> QED
      BY <2>3, <3>1, <3>3
  <2> QED
    BY <2>3, <2>4
<1>4. CASE places = {}
  BY <1>1, <1>2, <1>4
<1>5. CASE places # {}
  <2>1. last \in places /\ \A k \in places : k <= last
    BY <1>1, <1>3, <1>5
  <2> QED
    BY <1>2, <2>1
<1> QED
  BY <1>4, <1>5

\* What comes later does not matter.
LEMMA LastOfSame ==
  ASSUME NEW lines, NEW entries, NEW more, NEW i \in Nat \ {0},
         \A j \in 1..(i - 1) : more[j] = entries[j]
  PROVE  LastOf(lines, more, i) = LastOf(lines, entries, i)
<1> DEFINE late == {j \in 1..(i - 1) : more[j] \in lines}
           early == {j \in 1..(i - 1) : entries[j] \in lines}
           last(places) == IF places = {} THEN 0 ELSE CHOOSE j \in places : \A k \in places : k <= j
<1>1. late = early
  OBVIOUS
<1>2. LastOf(lines, more, i) = last(late) /\ LastOf(lines, entries, i) = last(early)
  BY DEF LastOf
<1> HIDE DEF late, early, last
<1> QED
  BY <1>1, <1>2

LEMMA LastOfNext ==
  ASSUME NEW lines, NEW entries, NEW n \in Nat
  PROVE  LastOf(lines, entries, n + 2) =
           IF entries[n + 1] \in lines THEN n + 1 ELSE LastOf(lines, entries, n + 1)
<1> DEFINE a == LastOf(lines, entries, n + 1)
           b == LastOf(lines, entries, n + 1 + 1)
<1>1. /\ a \in 0..n
      /\ a = 0 => \A j \in 1..n : entries[j] \notin lines
      /\ a # 0 => entries[a] \in lines /\ \A j \in 1..n : entries[j] \in lines => j <= a
  BY LastOfFound
<1>2. n + 1 \in Nat /\ n + 2 = n + 1 + 1
  OBVIOUS
<1>3. /\ b \in 0..(n + 1)
      /\ b = 0 => \A j \in 1..(n + 1) : entries[j] \notin lines
      /\ b # 0 => entries[b] \in lines /\ \A j \in 1..(n + 1) : entries[j] \in lines => j <= b
  BY <1>2, LastOfFound, ZenonT(30)
<1>4. LastOf(lines, entries, n + 2) = b
  BY <1>2, Zenon
<1> HIDE DEF a, b
<1>5. b = IF entries[n + 1] \in lines THEN n + 1 ELSE a
  <2>1. CASE entries[n + 1] \in lines
    BY <1>2, <1>3, <2>1
  <2>2. CASE entries[n + 1] \notin lines
    <3>1. b # n + 1
      BY <1>3, <2>2
    <3>2. b \in 0..n
      BY <1>3, <3>1
    <3>3. CASE b = 0
      <4>1. a = 0
        BY <1>1, <1>3, <3>3
      <4> QED
        BY <2>2, <3>3, <4>1
    <3>4. CASE b # 0
      <4>1. a # 0 /\ b <= a
        BY <1>1, <1>3, <3>2, <3>4
      <4>2. a <= b
        BY <1>1, <1>3, <3>4, <4>1
      <4>3. a = b
        BY <1>1, <3>2, <4>1, <4>2
      <4> QED
        BY <2>2, <4>3
    <3> QED
      BY <3>3, <3>4
  <2> QED
    BY <2>1, <2>2
<1> QED
  BY <1>4, <1>5 DEF a

\* What the settings are after one more entry.
LEMMA SettingsNext ==
  ASSUME NEW first, NEW entries, NEW n \in Nat
  PROVE  /\ ScaleSet(first, entries, n + 2) =
              IF entries[n + 1] = <<"SCALE=C">> THEN "C"
              ELSE IF entries[n + 1] = <<"SCALE=F">> THEN "F" ELSE ScaleSet(first, entries, n + 1)
         /\ LeftRunning(entries, n + 2) <=>
              \/ entries[n + 1] = <<"START">>
              \/ entries[n + 1] # <<"STOP">> /\ LeftRunning(entries, n + 1)
<1>1. <<"SCALE=C">> # <<"SCALE=F">> /\ <<"START">> # <<"STOP">> /\ n + 1 # 0
  OBVIOUS
<1>2. ScaleSet(first, entries, n + 2) =
        IF entries[n + 1] = <<"SCALE=C">> THEN "C"
        ELSE IF entries[n + 1] = <<"SCALE=F">> THEN "F" ELSE ScaleSet(first, entries, n + 1)
  <2> DEFINE lines == {<<"SCALE=F">>, <<"SCALE=C">>}
  <2>1. LastOf(lines, entries, n + 2) =
          IF entries[n + 1] \in lines THEN n + 1 ELSE LastOf(lines, entries, n + 1)
    BY LastOfNext
  <2>2. CASE entries[n + 1] \in lines
    BY <1>1, <2>1, <2>2, Zenon DEF ScaleSet
  <2>3. CASE entries[n + 1] \notin lines
    BY <1>1, <2>1, <2>3, Zenon DEF ScaleSet
  <2> QED
    BY <2>2, <2>3
<1>3. LeftRunning(entries, n + 2) <=>
        \/ entries[n + 1] = <<"START">>
        \/ entries[n + 1] # <<"STOP">> /\ LeftRunning(entries, n + 1)
  <2> DEFINE lines == {<<"STOP">>, <<"START">>}
  <2>1. LastOf(lines, entries, n + 2) =
          IF entries[n + 1] \in lines THEN n + 1 ELSE LastOf(lines, entries, n + 1)
    BY LastOfNext
  <2>2. CASE entries[n + 1] \in lines
    BY <1>1, <2>1, <2>2, Zenon DEF LeftRunning
  <2>3. CASE entries[n + 1] \notin lines
    BY <1>1, <2>1, <2>3, Zenon DEF LeftRunning
  <2> QED
    BY <2>2, <2>3
<1> QED
  BY <1>2, <1>3

SameBefore(first, entries, more, i) ==
  /\ ScaleSet(first, more, i) = ScaleSet(first, entries, i)
  /\ LeftRunning(more, i) <=> LeftRunning(entries, i)

LEMMA SettingsSame ==
  \A first, entries, more : \A n \in Nat : (\A j \in 1..n : more[j] = entries[j]) =>
    \A i \in 1..(n + 1) : SameBefore(first, entries, more, i)
<1> SUFFICES ASSUME NEW first, NEW entries, NEW more, NEW n \in Nat,
                    \A j \in 1..n : more[j] = entries[j], NEW i \in 1..(n + 1)
             PROVE  SameBefore(first, entries, more, i)
  OBVIOUS
<1>1. ASSUME NEW lines
      PROVE  /\ LastOf(lines, more, i) = LastOf(lines, entries, i)
             /\ LastOf(lines, entries, i) # 0 =>
                  more[LastOf(lines, entries, i)] = entries[LastOf(lines, entries, i)]
  <2> DEFINE last == LastOf(lines, entries, i)
  <2>1. i \in Nat \ {0} /\ i - 1 \in Nat /\ i - 1 + 1 = i /\ \A j \in 1..(i - 1) : j \in 1..n
    OBVIOUS
  <2>2. LastOf(lines, more, i) = last
    BY <2>1, LastOfSame
  <2>3. last \in 0..(i - 1)
    <3>1. LastOf(lines, entries, i - 1 + 1) \in 0..(i - 1)
      BY <2>1, LastOfFound
    <3> QED
      BY <2>1, <3>1
  <2> HIDE DEF last
  <2>4. last # 0 => last \in 1..n
    BY <2>1, <2>3
  <2> QED
    BY <2>2, <2>4 DEF last
<1>2. ScaleSet(first, more, i) = ScaleSet(first, entries, i)
  BY <1>1, Zenon DEF ScaleSet
<1>3. LeftRunning(more, i) <=> LeftRunning(entries, i)
  BY <1>1, Zenon DEF LeftRunning
<1> QED
  BY <1>2, <1>3, Zenon DEF SameBefore

LEMMA ReportsAreNoCommands ==
  /\ \A s \in {"F", "C"} : ~Known(<<"temp", s>>)
  /\ ~Known(<<"time">>) /\ ~Known(<<"SHUTDOWN">>)
<1>1. ASSUME NEW s \in {"F", "C"} PROVE ~Known(<<"temp", s>>)
  <2> DEFINE line == <<"temp", s>>
  <2>1. 1..Len(line) = {1, 2} /\ line[1] = "temp" /\ line[2] = s
    OBVIOUS
  <2>2. /\ <<"SCALE=F">>[1] = "SCALE=F" /\ <<"SCALE=C">>[1] = "SCALE=C" /\ <<"STOP">>[1] = "STOP"
        /\ <<"START">>[1] = "START" /\ <<"OFF">>[1] = "OFF"
    OBVIOUS
  <2> HIDE DEF line
  <2>3. ~Contains(line, "PERIOD=") /\ ~Contains(line, "LOG ")
    BY <2>1 DEF Contains
  <2>4. line \notin {<<"SCALE=F">>, <<"SCALE=C">>, <<"STOP">>, <<"START">>, <<"OFF">>}
    BY <2>1, <2>2
  <2>5. ~Known(line)
    BY <2>3, <2>4, Zenon DEF Known
  <2> QED
    BY <2>5 DEF line
<1>2. ASSUME NEW s \in {"time", "SHUTDOWN"} PROVE ~Known(<<s>>)
  <2> DEFINE line == <<s>>
  <2>1. 1..Len(line) = {1} /\ line[1] = s
    OBVIOUS
  <2>2. /\ <<"SCALE=F">>[1] = "SCALE=F" /\ <<"SCALE=C">>[1] = "SCALE=C" /\ <<"STOP">>[1] = "STOP"
        /\ <<"START">>[1] = "START" /\ <<"OFF">>[1] = "OFF"
    OBVIOUS
  <2> HIDE DEF line
  <2>3. ~Contains(line, "PERIOD=") /\ ~Contains(line, "LOG ")
    BY <2>1 DEF Contains
  <2>4. line \notin {<<"SCALE=F">>, <<"SCALE=C">>, <<"STOP">>, <<"START">>, <<"OFF">>}
    BY <2>1, <2>2
  <2>5. ~Known(line)
    BY <2>3, <2>4, Zenon DEF Known
  <2> QED
    BY <2>5 DEF line
<1> QED
  BY <1>1, <1>2

Truthful == Settings /\ LogTellsReports

\* One more entry, under the settings that it makes.
LEMMA EntryTruthful ==
  ASSUME Typed, Truthful, opt' = opt, opt.log, "file" \in open, NEW text,
         Len(log') = Len(log) + 1, log'[Len(log) + 1] = text,
         \A i \in 1..Len(log) : log'[i] = log[i],
         scale' = IF text = <<"SCALE=C">> THEN "C" ELSE IF text = <<"SCALE=F">> THEN "F" ELSE scale,
         status' = 1 => \/ text = <<"START">>
                        \/ text # <<"STOP">> /\ status = 1,
         \A shown \in {"F", "C"} : text = <<"temp", shown>> => shown = scale /\ status = 1,
         todo'["main"] \in {TimeNext, TempNext} => status' = 1
  PROVE  Truthful'
<1> DEFINE n == Len(log)
           first == opt.scale
<1>1. n \in Nat
  BY LenProperties DEF Typed, Values
<1>2. /\ Len(log') = n + 1 /\ log'[n + 1] = text /\ \A i \in 1..n : log'[i] = log[i]
      /\ opt'.scale = first
  OBVIOUS
<1>3. scale = ScaleSet(first, log, n + 1) /\ (status = 1 => LeftRunning(log, n + 1))
  BY DEF Truthful, Settings
<1>4. \A i \in 1..n, shown \in {"F", "C"} :
        log[i] = <<"temp", shown>> => shown = ScaleSet(first, log, i) /\ LeftRunning(log, i)
  BY DEF Truthful, LogTellsReports
<1> HIDE DEF n, first
<1>5. \A i \in 1..(n + 1) : /\ ScaleSet(first, log', i) = ScaleSet(first, log, i)
                            /\ LeftRunning(log', i) <=> LeftRunning(log, i)
  <2>1. \A i \in 1..n : log'[i] = log[i]
    BY <1>2
  <2>2. \A i \in 1..(n + 1) : SameBefore(first, log, log', i)
    BY <1>1, <2>1, SettingsSame, Zenon
  <2> QED
    BY <2>2, Zenon DEF SameBefore
<1>6. n + 1 \in 1..(n + 1) /\ n + 1 + 1 = n + 2
  BY <1>1
<1>7. /\ ScaleSet(first, log', n + 2) =
           IF text = <<"SCALE=C">> THEN "C"
           ELSE IF text = <<"SCALE=F">> THEN "F" ELSE ScaleSet(first, log', n + 1)
      /\ LeftRunning(log', n + 2) <=>
           \/ text = <<"START">>
           \/ text # <<"STOP">> /\ LeftRunning(log', n + 1)
  BY <1>1, <1>2, SettingsNext, ZenonT(30)
<1>8. scale' = ScaleSet(first, log', n + 2) /\ (status' = 1 => LeftRunning(log', n + 2))
  BY <1>3, <1>5, <1>6, <1>7
<1>9. Settings'
  BY <1>2, <1>6, <1>8 DEF Settings, first
<1>10. ASSUME NEW i \in 1..(n + 1), NEW shown \in {"F", "C"}, log'[i] = <<"temp", shown>>
       PROVE  shown = ScaleSet(first, log', i) /\ LeftRunning(log', i)
  <2>1. CASE i = n + 1
    BY <1>2, <1>3, <1>5, <1>10, <2>1
  <2>2. CASE i # n + 1
    <3>1. i \in 1..n
      BY <1>1, <2>2
    <3> QED
      BY <1>2, <1>4, <1>5, <1>10, <3>1
  <2> QED
    BY <2>1, <2>2
<1>11. LogTellsReports'
  BY <1>2, <1>10 DEF LogTellsReports, first
<1> QED
  BY <1>9, <1>11 DEF Truthful

\* The log as it was, under the settings as they were.
LEMMA SilentTruthful ==
  ASSUME Truthful, opt' = opt, log' = log, opt.log /\ "file" \in open' => "file" \in open,
         opt.log /\ "file" \in open' => scale' = scale /\ (status' = 1 => status = 1),
         todo'["main"] \in {TimeNext, TempNext} => status' = 1
  PROVE  Truthful'
  BY DEF Truthful, Settings, LogTellsReports

LEMMA InitTruthful == Init => Truthful
<1> SUFFICES ASSUME Init PROVE Truthful
  OBVIOUS
<1>1. log = <<>> /\ Len(<<>>) = 0 /\ todo["main"] = ToStart /\ open = {}
  BY DEF Init, ToStart
<1>2. todo["main"] \notin {TimeNext, TempNext}
  BY <1>1, AllDifferent DEF Reporting
<1>3. LogTellsReports
  BY <1>1 DEF LogTellsReports
<1> QED
  BY <1>1, <1>2, <1>3 DEF Truthful, Settings

\* The steps of process_shutdown, and of a report, that print or close something.
LEMMA ShutdownTruthful ==
  ASSUME Typed, Truthful, UNCHANGED <<opt, now>>, NEW t \in Threads, Shutdown(t)
  PROVE  Truthful'
<1>1. scale' = scale /\ status' = status
  BY DEF Shutdown, print_current_time, PrintShutdown, CloseFile, CloseSensors, Exit, settings
<1>2. todo'["main"] \in {TimeNext, TempNext} => status' = 1
  <2>1. CASE UNCHANGED todo
    BY <1>1, <2>1 DEF Truthful, Settings
  <2>2. CASE ~UNCHANGED todo
    <3>1. PICK name \in {"print_current_time", "SHUTDOWN", "fclose", "close"} :
            Calls(t, name) /\ Return(t)
      BY <2>2 DEF Shutdown, print_current_time, PrintShutdown, CloseFile, CloseSensors, Exit
    <3>2. /\ \A u \in Threads \ {t} : todo'[u] = todo[u]
          /\ \/ t = "main" /\ todo[t] = TimeNext
             \/ todo'[t] \in {ToTell, ToClose, ToRelease, ToExit}
      BY <3>1, ShutdownReturns DEF Typed
    <3> QED
      BY <1>1, <3>2, ThreadsAre, AllDifferent DEF Truthful, Settings, ShuttingDown
  <2> QED
    BY <2>1, <2>2
<1>3. open' \subseteq open
  BY DEF Shutdown, print_current_time, PrintShutdown, CloseFile, CloseSensors, Exit
<1>4. ASSUME NEW text \in {<<"time">>, <<"SHUTDOWN">>}, fprintf(text)
      PROVE  Truthful'
  <2>1. /\ text \in Seq(Names) /\ \A s \in {"F", "C"} : text # <<"temp", s>>
        /\ text # <<"SCALE=C">> /\ text # <<"SCALE=F">> /\ text # <<"STOP">>
    <3>1. /\ <<"time">>[1] = "time" /\ <<"SHUTDOWN">>[1] = "SHUTDOWN"
          /\ <<"SCALE=C">>[1] = "SCALE=C" /\ <<"SCALE=F">>[1] = "SCALE=F" /\ <<"STOP">>[1] = "STOP"
          /\ \A s \in {"F", "C"} : <<"temp", s>>[1] = "temp"
      OBVIOUS
    <3>2. text \in Seq(Names)
      BY TextsTyped DEF Texts
    <3>3. text[1] \in {"time", "SHUTDOWN"}
      BY <3>1
    <3>4. \A s \in {"F", "C"} : text # <<"temp", s>>
      BY <3>1, <3>3
    <3>5. text # <<"SCALE=C">> /\ text # <<"SCALE=F">> /\ text # <<"STOP">>
      BY <3>1, <3>3
    <3> QED
      BY <3>2, <3>4, <3>5
  <2>2. CASE opt.log /\ "file" \in open
    <3>1. /\ Len(log') = Len(log) + 1 /\ log'[Len(log) + 1] = text
          /\ \A i \in 1..Len(log) : log'[i] = log[i]
      BY <1>4, <2>1, <2>2, FprintfWrites DEF Typed
    <3> QED
      BY <1>1, <1>2, <2>1, <2>2, <3>1, EntryTruthful
  <2>3. CASE ~(opt.log /\ "file" \in open)
    <3>1. log' = log
      BY <1>4, <2>1, <2>3, FprintfWrites DEF Typed
    <3> QED
      BY <1>1, <1>2, <1>3, <3>1, SilentTruthful
  <2> QED
    BY <2>2, <2>3
<1>5. CASE CloseFile(t) \/ CloseSensors(t) \/ Exit(t)
  <2>1. log' = log
    BY <1>5 DEF CloseFile, CloseSensors, Exit
  <2> QED
    BY <1>1, <1>2, <1>3, <2>1, SilentTruthful
<1>6. CASE print_current_time(t) \/ PrintShutdown(t)
  BY <1>4, <1>6 DEF print_current_time, PrintShutdown
<1> QED
  BY <1>5, <1>6 DEF Shutdown

\* A temperature is printed in the scale that is set, while reports are running.
LEMMA PrintTempTruthful ==
  ASSUME Typed, Truthful, UNCHANGED <<opt, now>>, print_current_temp
  PROVE  Truthful'
<1>1. UNCHANGED <<open, scale, status>>
  BY DEF print_current_temp, settings
<1>2. todo["main"] = TempNext /\ todo'["main"] = PollNext /\ status = 1
  <2>1. Return("main") /\ Calls("main", "print_current_temp")
    BY DEF print_current_temp
  <2> QED
    BY <2>1, MainCalls, ReportSteps, ReturnSteps, ThreadsAre DEF Typed, Truthful, Settings
<1>3. todo'["main"] \notin {TimeNext, TempNext}
  BY <1>2, AllDifferent
<1>4. CASE log' = log
  BY <1>1, <1>3, <1>4, SilentTruthful
<1>5. CASE log' # log
  <2> DEFINE text == <<"temp", scale>>
  <2>1. fprintf(text)
    BY <1>5 DEF print_current_temp
  <2>2. text \in Seq(Names) /\ scale \in {"F", "C"}
    BY TextsTyped DEF Typed, Values
  <2>3. /\ \A s : text = <<"temp", s>> => s = scale
        /\ text # <<"SCALE=C">> /\ text # <<"SCALE=F">> /\ text # <<"STOP">>
    OBVIOUS
  <2> HIDE DEF text
  <2>4. /\ opt.log /\ "file" \in open /\ Len(log') = Len(log) + 1 /\ log'[Len(log) + 1] = text
        /\ \A i \in 1..Len(log) : log'[i] = log[i]
    BY <1>5, <2>1, <2>2, FprintfWrites DEF Typed
  <2> QED
    BY <1>1, <1>2, <1>3, <2>3, <2>4, EntryTruthful
<1> QED
  BY <1>4, <1>5

\* A command is obeyed and, if there is a log, in the log.
LEMMA ProcessInputTruthful ==
  ASSUME Typed, Truthful, UNCHANGED <<opt, now>>, process_input
  PROVE  Truthful'
<1> DEFINE line == Tail(Head(todo["main"]))
<1>1. /\ Calls("main", "process_input") /\ todo' = [todo EXCEPT !["main"] = Then(line)]
      /\ UNCHANGED open /\ (IF Known(line) THEN fprintf(line) ELSE UNCHANGED <<log, ended>>)
      /\ scale' = CASE line = <<"SCALE=F">> -> "F" [] line = <<"SCALE=C">> -> "C" [] OTHER -> scale
      /\ status' = CASE line = <<"STOP">> -> 0 [] line = <<"START">> -> 1 [] OTHER -> status
  BY DEF process_input
<1>2. line \in Seq(Names)
  <2>1. Head(todo["main"]) \in Seq(Names) /\ Head(todo["main"]) # <<>>
    BY <1>1, MainCalls, ObeyingSteps DEF Typed
  <2> QED
    BY <2>1, HeadTailProperties
<1>3. todo'["main"] \notin {TimeNext, TempNext}
  <2>1. todo'["main"] = process_shutdown \/ Obeying(todo'["main"])
    BY <1>1, ThenSteps DEF Typed
  <2> QED
    BY <2>1, AllDifferent DEF ShuttingDown, Reporting
<1> HIDE DEF line
<1>4. /\ scale' = IF line = <<"SCALE=C">> THEN "C" ELSE IF line = <<"SCALE=F">> THEN "F" ELSE scale
      /\ status' = 1 => \/ line = <<"START">>
                        \/ line # <<"STOP">> /\ status = 1
  BY <1>1
<1>5. CASE Known(line) /\ opt.log /\ "file" \in open
  <2>1. /\ Len(log') = Len(log) + 1 /\ log'[Len(log) + 1] = line
        /\ \A i \in 1..Len(log) : log'[i] = log[i]
    BY <1>1, <1>2, <1>5, FprintfWrites DEF Typed
  <2>2. \A s \in {"F", "C"} : line # <<"temp", s>>
    BY <1>5, ReportsAreNoCommands
  <2> QED
    BY <1>3, <1>4, <1>5, <2>1, <2>2, EntryTruthful
<1>6. CASE Known(line) /\ ~(opt.log /\ "file" \in open)
  <2>1. log' = log
    BY <1>1, <1>2, <1>6, FprintfWrites DEF Typed
  <2> QED
    BY <1>1, <1>3, <1>6, <2>1, SilentTruthful
<1>7. CASE ~Known(line)
  <2>1. line \notin {<<"SCALE=F">>, <<"SCALE=C">>, <<"STOP">>, <<"START">>}
    BY <1>7 DEF Known
  <2>2. log' = log /\ scale' = scale /\ (status' = 1 => status = 1)
    BY <1>1, <1>4, <1>7, <2>1
  <2> QED
    BY <1>1, <1>3, <2>2, SilentTruthful
<1> QED
  BY <1>5, <1>6, <1>7

LEMMA NextTruthful == Typed /\ Truthful /\ [Next]_vars => Truthful'
<1> SUFFICES ASSUME Typed, Truthful, [Next]_vars PROVE Truthful'
  OBVIOUS
<1>1. CASE Initialize /\ UNCHANGED <<opt, now>>
  <2>1. todo["main"] = ToStart /\ UNCHANGED <<scale, status, log>>
    BY <1>1, MainCalls DEF Initialize, Typed, settings
  <2>2. log = <<>> /\ scale = opt.scale /\ status = 1
    BY <2>1 DEF Typed, Fresh
  <2>3. Len(<<>>) = 0 /\ opt' = opt
    BY <1>1
  <2>4. \A lines : LastOf(lines, <<>>, 0 + 1) = 0
    BY LastOfFound
  <2>5. 0 + 1 = 1
    OBVIOUS
  <2>6. ScaleSet(opt.scale, log, Len(log) + 1) = scale /\ LeftRunning(log, Len(log) + 1)
    BY <2>2, <2>3, <2>4, <2>5 DEF ScaleSet, LeftRunning
  <2> QED
    BY <2>1, <2>2, <2>3, <2>6 DEF Truthful, Settings, LogTellsReports
<1>2. CASE ReadClock /\ UNCHANGED <<opt, now>>
  <2>1. /\ UNCHANGED <<opt, scale, status, log, open>>
        /\ (todo'["main"] = TimeNext /\ status = 1) \/ todo'["main"] = PollNext
    BY <1>2, ThreadsAre DEF ReadClock, settings, Typed, Todos, TimeNext, PollNext
  <2>2. todo'["main"] \in {TimeNext, TempNext} => status' = 1
    BY <2>1, AllDifferent
  <2> QED
    BY <2>1, <2>2, SilentTruthful
<1>3. CASE PollInput /\ UNCHANGED <<opt, now>>
  <2>1. UNCHANGED <<opt, scale, status, log, open>>
    BY <1>3 DEF PollInput, settings
  <2>2. \/ UNCHANGED todo
        \/ todo' = [todo EXCEPT !["main"] = Tagged(Lines(Piece)) \o Loop]
    BY <1>3 DEF PollInput, Tagged, Piece
  <2>3. Obeying(Tagged(Lines(Piece)) \o Loop)
    BY PieceTyped, TaggedLines DEF Typed
  <2>4. UNCHANGED todo \/ Obeying(todo'["main"])
    BY <2>2, <2>3, ThreadsAre DEF Typed, Todos
  <2>5. todo'["main"] \in {TimeNext, TempNext} => status' = 1
    BY <2>1, <2>4, AllDifferent DEF Reporting, Truthful, Settings
  <2> QED
    BY <2>1, <2>5, SilentTruthful
<1>4. CASE Environment
  <2>1. /\ UNCHANGED <<opt, scale, status, log, open>>
        /\ UNCHANGED todo \/ todo' = [todo EXCEPT !["isr"] = process_shutdown]
    BY <1>4 DEF Environment, Send, PressButton, Tick, settings
  <2>2. todo'["main"] = todo["main"]
    BY <2>1, ThreadsAre DEF Typed, Todos
  <2> QED
    BY <2>1, <2>2 DEF Truthful, Settings, LogTellsReports
<1>5. CASE UNCHANGED vars
  BY <1>5 DEF vars, settings, Truthful, Settings, LogTellsReports
<1>6. CASE main
  BY <1>1, <1>2, <1>3, <1>6, ThreadsAre, PrintTempTruthful, ProcessInputTruthful, ShutdownTruthful DEF main
<1>7. CASE isr
  BY <1>7, ThreadsAre, ShutdownTruthful DEF isr
<1> QED
  BY <1>4, <1>5, <1>6, <1>7 DEF Next

\* A temperature in the log of lab4b is in the scale that the commands before it in the
\* log have set, and none follows a STOP without a START, also while the button's
\* thread writes between the two and closes the file.
THEOREM LogIsTruthful == Spec => []LogTellsReports
<1>1. Truthful => LogTellsReports
  BY DEF Truthful
<1> QED
  BY TypedAlways, InitTruthful, NextTruthful, <1>1, PTL DEF Spec

-----------------------------------------------------------------------------
(***************************************************************************)
(* The log tells of the end.                                               *)
(***************************************************************************)
Appended(text) ==
  /\ opt.log /\ "file" \in open
  /\ Len(log') = Len(log) + 1 /\ log'[Len(log) + 1] = text
  /\ \A i \in 1..Len(log) : log'[i] = log[i]

LEMMA FprintfAppends ==
  ASSUME Values, NEW text \in Seq(Names), fprintf(text)
  PROVE  \/ Appended(text) /\ ended' = ended
         \/ /\ ~(opt.log /\ "file" \in open) /\ log' = log
            /\ \/ ended' = ended
               \/ opt.log /\ "file" \notin open /\ ended' \in {"no", "killed"}
<1>1. CASE opt.log /\ "file" \in open
  BY <1>1, FprintfWrites DEF Appended
<1>2. CASE ~(opt.log /\ "file" \in open)
  BY <1>2, FprintfWrites
<1> QED
  BY <1>1, <1>2

LEMMA ToldGrows ==
  ASSUME Values, NEW text, Appended(text)
  PROVE  /\ Told => Told'
         /\ text = <<"SHUTDOWN">> => Told'
         /\ text # <<"SHUTDOWN">> /\ ~Told => ~Told'
<1> DEFINE n == Len(log)
<1>1. n \in Nat
  BY LenProperties DEF Values
<1>2. Len(log') = n + 1 /\ log'[n + 1] = text /\ \A i \in 1..n : log'[i] = log[i]
  BY DEF Appended
<1>3. Told = \E i \in 1..n : log[i] = <<"SHUTDOWN">>
  BY DEF Told, Contains
<1>4. Told' = \E i \in 1..(n + 1) : log'[i] = <<"SHUTDOWN">>
  BY <1>2 DEF Told, Contains
<1> HIDE DEF n
<1>5. n + 1 \in 1..(n + 1) /\ \A i \in 1..n : i \in 1..(n + 1)
  BY <1>1
<1>6. \A i \in 1..(n + 1) : i \in 1..n \/ i = n + 1
  BY <1>1
<1>7. Told => Told'
  BY <1>2, <1>3, <1>4, <1>5
<1>8. text = <<"SHUTDOWN">> => Told'
  BY <1>2, <1>4, <1>5
<1>9. text # <<"SHUTDOWN">> /\ ~Told => ~Told'
  BY <1>2, <1>3, <1>4, <1>6
<1> QED
  BY <1>7, <1>8, <1>9

LEMMA ToldSame == log' = log => (Told => Told') /\ (~Told => ~Told') /\ (ToldOnce => ToldOnce')
  BY DEF Told, ToldOnce, Contains

LEMMA NotToldOnce == ~Told => ToldOnce
  BY DEF Told, ToldOnce, Contains

IsWorking(calls) == calls \in Reporting \/ Obeying(calls)

LEMMA WorkingIsOther ==
  ASSUME NEW calls, IsWorking(calls)
  PROVE  calls # ToStart /\ calls \notin ShuttingDown /\ calls \notin Gone /\ calls # <<>>
<1>1. CASE calls \in Reporting
  BY <1>1, AllDifferent, NeverNothing DEF Reporting, ShuttingDown, Gone
<1>2. CASE Obeying(calls)
  BY <1>2, AllDifferent DEF Obeying, ShuttingDown, Gone
<1> QED
  BY <1>1, <1>2 DEF IsWorking

LEMMA SuccNotZero == \A n \in Nat : n + 1 # 0
  OBVIOUS

\* The main thread reports or obeys; OFF is logged before the shut-down begins.
LEMMA WorkFarewell ==
  ASSUME Typed, Farewell, UNCHANGED <<opt, open>>, todo'["isr"] = todo["isr"],
         IsWorking(todo["main"]), IsWorking(todo'["main"]) \/ todo'["main"] = process_shutdown,
         NEW text, log' = log \/ Appended(text), text # <<"SHUTDOWN">>,
         todo'["main"] = process_shutdown /\ opt.log /\ "file" \in open =>
           text = <<"OFF">> /\ Appended(text),
         \/ ended' \in {"no", "exit 1"}
         \/ "sensor" \notin open
         \/ opt.log /\ "file" \notin open
  PROVE  (ended = "no" /\ ended' # "exit 0") => Farewell'
<1> SUFFICES ASSUME ended = "no", ended' # "exit 0" PROVE Farewell'
  OBVIOUS
<1>1. todo["main"] # ToStart /\ todo["main"] \notin ShuttingDown /\ todo["main"] \notin Gone
  BY WorkingIsOther
<1>2. todo'["main"] # ToStart /\ todo'["main"] \notin Gone /\ todo'["main"] \notin {ToTell, ToRelease, ToExit}
  BY WorkingIsOther, AllDifferent DEF Gone, ShuttingDown
<1>3. Told => Told'
  BY ToldGrows, ToldSame DEF Typed
<1>4. \A t \in Threads : opt'.log /\ todo'[t] \in Gone => Told'
  BY <1>2, <1>3, ThreadsAre DEF Farewell
<1>5. opt'.log /\ "file" \notin open' => Told'
  BY <1>1, <1>3 DEF Farewell
<1>6. ASSUME todo'["isr"] = <<>> PROVE Alone'
  <2>1. Alone
    BY <1>6 DEF Farewell
  <2>2. (opt.log => "file" \in open) /\ "sensor" \in open /\ ~Told
    BY <1>1, <2>1 DEF Alone, ShuttingDown
  <2>3. ended' \in {"no", "exit 1"}
    BY <2>2
  <2>4. ~Told'
    BY <2>2, ToldGrows, ToldSame DEF Typed
  <2>5. ToldOnce'
    <3>1. ~Told' => ToldOnce'
      BY NotToldOnce, PTL
    <3> QED
      BY <2>4, <3>1
  <2>6. opt'.log /\ todo'["main"] = process_shutdown => log' # <<>> /\ log'[Len(log')] = <<"OFF">>
    <3> SUFFICES ASSUME opt.log, todo'["main"] = process_shutdown
                 PROVE  log' # <<>> /\ log'[Len(log')] = <<"OFF">>
      OBVIOUS
    <3>1. Len(log') = Len(log) + 1 /\ log'[Len(log) + 1] = <<"OFF">>
      BY <2>2 DEF Appended
    <3>2. Len(log) \in Nat /\ Len(<<>>) = 0
      BY LenProperties DEF Typed, Values
    <3>3. log' # <<>>
      BY <3>1, <3>2, SuccNotZero, Zenon
    <3> QED
      BY <3>1, <3>3
  <2> QED
    BY <1>2, <2>2, <2>3, <2>4, <2>5, <2>6 DEF Alone
<1> QED
  BY <1>4, <1>5, <1>6 DEF Farewell

\* A thread that shuts down prints the time.
LEMMA ShutTimeFarewell ==
  ASSUME Typed, Farewell, UNCHANGED <<opt, now>>, NEW t \in Threads, print_current_time(t),
         todo[t] = process_shutdown, todo'[t] = ToTell,
         \A u \in Threads \ {t} : todo'[u] = todo[u], Typed'
  PROVE  Farewell'
<1> DEFINE text == <<"time">>
<1>1. fprintf(text) /\ UNCHANGED open /\ ended = "no"
  BY DEF print_current_time, Calls
<1>2. text \in Seq(Names)
  BY TextsTyped DEF Texts
<1>3. text[1] = "time" /\ <<"SHUTDOWN">>[1] = "SHUTDOWN"
  OBVIOUS
<1> HIDE DEF text
<1>4. text # <<"SHUTDOWN">>
  BY <1>3
<1>5. \/ Appended(text) /\ ended' = ended
      \/ /\ ~(opt.log /\ "file" \in open) /\ log' = log
         /\ \/ ended' = ended
            \/ opt.log /\ "file" \notin open /\ ended' \in {"no", "killed"}
  BY <1>1, <1>2, FprintfAppends DEF Typed
<1>6. Told => Told'
  BY <1>5, ToldGrows, ToldSame DEF Typed
<1>7. todo'[t] \notin Gone /\ todo[t] \notin Gone /\ todo'[t] # <<>> /\ todo[t] # <<>>
  BY AllDifferent, NeverNothing DEF Gone
<1>8. todo["main"] # ToStart
  BY <1>7, AllDifferent, ThreadsAre DEF Typed, Fresh, ShuttingDown
<1>9. \A u \in Threads : opt'.log /\ todo'[u] \in Gone => Told'
  BY <1>6, <1>7 DEF Farewell
<1>10. opt'.log /\ "file" \notin open' => Told'
  BY <1>1, <1>6, <1>8 DEF Farewell
<1>11. ASSUME todo'["isr"] = <<>> PROVE Alone'
  <2>1. t = "main" /\ todo["isr"] = <<>>
    BY <1>7, <1>11, ThreadsAre
  <2>2. Alone
    BY <2>1 DEF Farewell
  <2>3. /\ opt.log => "file" \in open /\ log # <<>> /\ log[Len(log)] = <<"OFF">>
        /\ "sensor" \in open /\ ~Told
    BY <1>7, <2>1, <2>2, AllDifferent, WorkingIsOther DEF Alone, ShuttingDown
  <2>4. ended' = "no" /\ (opt.log => Appended(text)) /\ (~opt.log => log' = log)
    BY <1>1, <1>5, <2>3 DEF Appended
  <2>5. ~Told'
    BY <1>4, <2>3, <2>4, ToldGrows, ToldSame DEF Typed
  <2>6. ToldOnce'
    <3>1. ~Told' => ToldOnce'
      BY NotToldOnce, PTL
    <3> QED
      BY <2>5, <3>1
  <2>7. opt'.log => Len(log') > 1 /\ log'[Len(log')] = <<"time">> /\ log'[Len(log') - 1] = <<"OFF">>
    <3> SUFFICES ASSUME opt.log
                 PROVE  Len(log') > 1 /\ log'[Len(log')] = <<"time">> /\ log'[Len(log') - 1] = <<"OFF">>
      OBVIOUS
    <3> DEFINE n == Len(log)
    <3>1. n \in Nat \ {0} /\ log[n] = <<"OFF">>
      BY <2>3, EmptySeq DEF Typed, Values
    <3>2. Len(log') = n + 1 /\ log'[n + 1] = text /\ \A i \in 1..n : log'[i] = log[i]
      BY <2>4 DEF Appended
    <3> HIDE DEF n
    <3>3. n + 1 > 1 /\ n + 1 - 1 = n /\ n \in 1..n
      BY <3>1
    <3> QED
      BY <3>1, <3>2, <3>3 DEF text
  <2>8. todo'["main"] = ToTell /\ ToTell \notin {ToStart, ToRelease, ToExit, process_shutdown} \union Gone
    BY <2>1, AllDifferent DEF Gone, ShuttingDown
  <2> QED
    BY <1>1, <2>3, <2>4, <2>5, <2>6, <2>7, <2>8 DEF Alone
<1> QED
  BY <1>1, <1>5, <1>9, <1>10, <1>11 DEF Farewell

\* It says that it shuts down.
LEMMA ShutTellFarewell ==
  ASSUME Typed, Farewell, UNCHANGED <<opt, now>>, NEW t \in Threads, PrintShutdown(t),
         todo[t] = ToTell, todo'[t] = ToClose,
         \A u \in Threads \ {t} : todo'[u] = todo[u]
  PROVE  Farewell'
<1> DEFINE text == <<"SHUTDOWN">>
<1>1. fprintf(text) /\ UNCHANGED open /\ ended = "no"
  BY DEF PrintShutdown, Calls
<1>2. text \in Seq(Names)
  BY TextsTyped DEF Texts
<1> HIDE DEF text
<1>3. \/ Appended(text) /\ ended' = ended
      \/ /\ ~(opt.log /\ "file" \in open) /\ log' = log
         /\ \/ ended' = ended
            \/ opt.log /\ "file" \notin open /\ ended' \in {"no", "killed"}
  BY <1>1, <1>2, FprintfAppends DEF Typed
<1>4. todo'[t] # <<>> /\ todo[t] # <<>> /\ todo[t] # ToStart /\ todo["main"] # ToStart
  BY AllDifferent, NeverNothing, ThreadsAre DEF Typed, Fresh, ShuttingDown
<1>5. opt.log => Told'
  <2>1. CASE Appended(text)
    BY <2>1, ToldGrows DEF Typed, text
  <2>2. CASE ~Appended(text)
    BY <1>3, <1>4, <2>2, ToldSame DEF Farewell
  <2> QED
    BY <2>1, <2>2
<1>6. ASSUME todo'["isr"] = <<>> PROVE Alone'
  <2>1. t = "main" /\ todo["isr"] = <<>> /\ todo'["main"] = ToClose
    BY <1>4, <1>6, ThreadsAre
  <2>2. Alone
    BY <2>1 DEF Farewell
  <2>3. /\ opt.log => /\ "file" \in open
                      /\ Len(log) > 1 /\ log[Len(log)] = <<"time">> /\ log[Len(log) - 1] = <<"OFF">>
        /\ "sensor" \in open /\ ~Told
    BY <2>1, <2>2, AllDifferent DEF Alone, ShuttingDown, Gone
  <2>4. ended' = "no" /\ (opt.log => Appended(text)) /\ (~opt.log => log' = log)
    BY <1>1, <1>3, <2>3 DEF Appended
  <2>5. ToldOnce'
    <3>1. CASE opt.log
      <4> DEFINE n == Len(log)
      <4>1. n \in Nat /\ n > 1 /\ log[n] = <<"time">> /\ log[n - 1] = <<"OFF">>
        BY <2>3, <3>1, LenProperties DEF Typed, Values
      <4>2. Len(log') = n + 1 /\ log'[n + 1] = text /\ \A i \in 1..n : log'[i] = log[i]
        BY <2>4, <3>1 DEF Appended
      <4>3. \A i \in 1..n : log[i] # <<"SHUTDOWN">>
        BY <2>3 DEF Told, Contains
      <4> HIDE DEF n
      <4>4. n + 1 - 1 = n /\ n + 1 - 2 = n - 1 /\ n \in 1..n /\ n - 1 \in 1..n
        BY <4>1
      <4>5. \A i \in 1..(n + 1) : log'[i] = <<"SHUTDOWN">> =>
              i = n + 1 /\ log'[i - 1] = <<"time">> /\ log'[i - 2] = <<"OFF">>
        <5> SUFFICES ASSUME NEW i \in 1..(n + 1), log'[i] = <<"SHUTDOWN">>
                     PROVE  i = n + 1 /\ log'[i - 1] = <<"time">> /\ log'[i - 2] = <<"OFF">>
          OBVIOUS
        <5>1. i \in 1..n \/ i = n + 1
          BY <4>1
        <5>2. i = n + 1
          BY <4>2, <4>3, <5>1
        <5>3. log'[n] = <<"time">> /\ log'[n - 1] = <<"OFF">>
          BY <4>1, <4>2, <4>4
        <5> QED
          BY <4>4, <5>2, <5>3
      <4> QED
        BY <4>2, <4>5 DEF ToldOnce
    <3>2. CASE ~opt.log
      BY <2>2, <2>4, <3>2, ToldSame DEF Alone
    <3> QED
      BY <3>1, <3>2
  <2>6. ToClose \notin {ToStart, ToRelease, ToExit, process_shutdown, ToTell} /\ ToClose \in Gone
    BY AllDifferent DEF Gone, ShuttingDown
  <2> QED
    BY <1>1, <2>1, <2>3, <2>4, <2>5, <2>6 DEF Alone
<1> QED
  BY <1>1, <1>3, <1>5, <1>6 DEF Farewell

LEMMA ShutCloseFarewell ==
  ASSUME Typed, Farewell, UNCHANGED <<opt, now>>, NEW t \in Threads, CloseFile(t),
         todo[t] = ToClose, todo'[t] = ToRelease,
         \A u \in Threads \ {t} : todo'[u] = todo[u]
  PROVE  Farewell'
<1>1. /\ UNCHANGED log /\ ended = "no" /\ open' = open \ {"file"}
      /\ IF opt.log /\ "file" \notin open THEN ended' \in {"no", "killed"} ELSE UNCHANGED ended
  BY DEF CloseFile, Calls, UseAfterClose
<1>2. todo'[t] # <<>> /\ todo[t] # <<>>
  BY NeverNothing
<1>3. opt.log => Told'
  BY <1>1, ToldSame DEF Farewell, Gone
<1>4. ASSUME todo'["isr"] = <<>> PROVE Alone'
  <2>1. t = "main" /\ todo["isr"] = <<>> /\ todo'["main"] = ToRelease /\ todo["main"] = ToClose
    BY <1>2, <1>4, ThreadsAre
  <2>2. Alone
    BY <2>1 DEF Farewell
  <2>3. (opt.log => "file" \in open) /\ "sensor" \in open /\ ToldOnce
    BY <2>1, <2>2, AllDifferent DEF Alone, ShuttingDown
  <2>4. ended' = "no" /\ ToldOnce' /\ "sensor" \in open'
    BY <1>1, <2>3, ToldSame
  <2>5. ToRelease \notin {ToStart, process_shutdown, ToTell} /\ ToRelease \in Gone
    BY AllDifferent DEF Gone, ShuttingDown
  <2> QED
    BY <2>1, <2>4, <2>5 DEF Alone
<1> QED
  BY <1>1, <1>3, <1>4 DEF Farewell

LEMMA ShutReleaseFarewell ==
  ASSUME Typed, Farewell, UNCHANGED <<opt, now>>, NEW t \in Threads, CloseSensors(t),
         todo[t] = ToRelease, todo'[t] = ToExit,
         \A u \in Threads \ {t} : todo'[u] = todo[u]
  PROVE  Farewell'
<1>1. /\ UNCHANGED log /\ ended = "no" /\ open' = open \ {"button", "sensor"}
      /\ IF "sensor" \notin open THEN ended' \in {"no", "killed"} ELSE UNCHANGED ended
  BY DEF CloseSensors, Calls, UseAfterClose
<1>2. todo'[t] # <<>> /\ todo[t] # <<>>
  BY NeverNothing
<1>3. opt.log => Told'
  BY <1>1, ToldSame DEF Farewell, Gone
<1>4. ASSUME todo'["isr"] = <<>> PROVE Alone'
  <2>1. t = "main" /\ todo["isr"] = <<>> /\ todo'["main"] = ToExit /\ todo["main"] = ToRelease
    BY <1>2, <1>4, ThreadsAre
  <2>2. Alone
    BY <2>1 DEF Farewell
  <2>3. "sensor" \in open /\ ToldOnce
    BY <2>1, <2>2, AllDifferent DEF Alone, ShuttingDown
  <2>4. ended' = "no" /\ ToldOnce'
    BY <1>1, <2>3, ToldSame
  <2>5. ToExit \notin {ToStart, process_shutdown, ToTell} /\ ToExit \in Gone
    BY AllDifferent DEF Gone, ShuttingDown
  <2> QED
    BY <2>1, <2>4, <2>5 DEF Alone
<1> QED
  BY <1>1, <1>3, <1>4 DEF Farewell

LEMMA ExitFarewell ==
  ASSUME Typed, Farewell, UNCHANGED <<opt, now>>, NEW t \in Threads, Exit(t)
  PROVE  Farewell'
<1>1. UNCHANGED <<todo, open, log>> /\ ended' = "exit 0" /\ Calls(t, "exit")
  BY DEF Exit
<1>2. todo[t] = ToExit
  BY <1>1, ThreadsAre, MainCalls, IsrCalls DEF Typed
<1>3. opt.log => Told
  BY <1>2 DEF Farewell, Gone
<1>4. (Told => Told') /\ (~Told => ~Told') /\ (ToldOnce => ToldOnce')
  BY <1>1, ToldSame
<1>5. Alone => Alone'
  BY <1>1, <1>4 DEF Alone
<1> QED
  BY <1>1, <1>3, <1>4, <1>5 DEF Farewell

LEMMA InitializeFarewell ==
  ASSUME Typed, Farewell, UNCHANGED <<opt, now>>, Initialize
  PROVE  Farewell'
<1>1. todo["main"] = ToStart /\ UNCHANGED log /\ ended = "no"
  BY MainCalls DEF Initialize, Typed, Calls
<1>2. log = <<>> /\ todo["isr"] = <<>>
  BY <1>1 DEF Typed, Fresh
<1>3. ~Told /\ ~Told' /\ ToldOnce'
  <2>1. Len(<<>>) = 0
    OBVIOUS
  <2> QED
    BY <1>1, <1>2, <2>1 DEF Told, ToldOnce, Contains
<1>4. CASE UNCHANGED <<open, todo>> /\ ended' = "exit 1"
  BY <1>1, <1>3, <1>4 DEF Farewell, Alone
<1>5. CASE ~(UNCHANGED <<open, todo>> /\ ended' = "exit 1")
  <2>1. /\ open' = IF opt.log THEN {"file", "button", "sensor"} ELSE {"button", "sensor"}
        /\ todo' = [todo EXCEPT !["main"] = Loop] /\ UNCHANGED ended
    BY <1>5 DEF Initialize
  <2>2. todo'["main"] = Loop /\ todo'["isr"] = todo["isr"]
    BY <2>1, ThreadsAre DEF Typed, Todos
  <2>3. todo'["main"] # ToStart /\ todo'["main"] \notin ShuttingDown /\ todo'["main"] \notin Gone
    BY <2>2, LoopIsObeying, WorkingIsOther DEF IsWorking
  <2>4. <<>> \notin Gone
    BY NeverNothing DEF Gone
  <2>5. Alone'
    BY <1>1, <1>3, <2>1, <2>3 DEF Alone, ShuttingDown
  <2> QED
    BY <1>1, <1>2, <2>1, <2>2, <2>3, <2>4, <2>5, ThreadsAre DEF Farewell
<1> QED
  BY <1>4, <1>5

LEMMA ReportTexts ==
  /\ <<"time">> # <<"SHUTDOWN">>
  /\ \A s : <<"temp", s>> # <<"SHUTDOWN">>
  /\ <<"OFF">> # <<"SHUTDOWN">>
  OBVIOUS

LEMMA InitFarewell == Init => Farewell
<1> SUFFICES ASSUME Init PROVE Farewell
  OBVIOUS
<1>1. todo["main"] = ToStart /\ todo["isr"] = <<>> /\ log = <<>> /\ ended = "no"
  BY DEF Init, ToStart
<1>2. ~Told /\ ToldOnce
  <2>1. Len(<<>>) = 0
    OBVIOUS
  <2> QED
    BY <1>1, <2>1 DEF Told, ToldOnce, Contains
<1>3. Alone
  BY <1>1, <1>2, AllDifferent DEF Alone, ShuttingDown
<1> QED
  BY <1>1, <1>2, <1>3, AllDifferent, NeverNothing, ThreadsAre DEF Farewell, Gone, ShuttingDown

\* Steps that write nothing.
LEMMA QuietFarewell ==
  ASSUME Typed, Farewell, UNCHANGED <<opt, open, log>>, todo'["isr"] = todo["isr"],
         IsWorking(todo["main"]), IsWorking(todo'["main"]),
         ended = "no", ended' \in {"no", "exit 1"}
  PROVE  Farewell'
<1>1. todo'["main"] # process_shutdown
  BY WorkingIsOther DEF ShuttingDown
<1> QED
  BY <1>1, WorkFarewell, ReportTexts

LEMMA ReadClockFarewell ==
  ASSUME Typed, Farewell, UNCHANGED <<opt, now>>, ReadClock
  PROVE  Farewell'
<1>1. /\ UNCHANGED <<opt, open, log>> /\ Calls("main", "gettimeofday") /\ ended = "no" /\ ended' = "no"
      /\ todo'["main"] \in {TimeNext, PollNext} /\ todo'["isr"] = todo["isr"]
  BY ThreadsAre DEF ReadClock, Calls, Typed, Todos, TimeNext, PollNext
<1>2. IsWorking(todo["main"]) /\ IsWorking(todo'["main"])
  BY <1>1, MainCalls DEF IsWorking, Reporting, Typed
<1> QED
  BY <1>1, <1>2, QuietFarewell

LEMMA PollInputFarewell ==
  ASSUME Typed, Farewell, UNCHANGED <<opt, now>>, PollInput
  PROVE  Farewell'
<1>1. UNCHANGED <<opt, open, log>> /\ Calls("main", "poll") /\ ended = "no"
  BY DEF PollInput, Calls
<1>2. todo["main"] = PollNext /\ IsWorking(todo["main"])
  BY <1>1, MainCalls DEF IsWorking, Reporting, Typed
<1>3. \/ UNCHANGED todo /\ ended' = "exit 1"
      \/ todo' = [todo EXCEPT !["main"] = Tagged(Lines(Piece)) \o Loop] /\ UNCHANGED ended
  BY DEF PollInput, Tagged, Piece
<1>4. Obeying(Tagged(Lines(Piece)) \o Loop)
  BY PieceTyped, TaggedLines DEF Typed
<1>5. /\ UNCHANGED todo \/ (Obeying(todo'["main"]) /\ todo'["isr"] = todo["isr"])
      /\ ended' \in {"no", "exit 1"}
  BY <1>1, <1>3, <1>4, ThreadsAre DEF Typed, Todos
<1>6. IsWorking(todo'["main"]) /\ todo'["isr"] = todo["isr"]
  BY <1>2, <1>5 DEF IsWorking
<1> QED
  BY <1>1, <1>2, <1>5, <1>6, QuietFarewell

LEMMA PrintTempFarewell ==
  ASSUME Typed, Farewell, UNCHANGED <<opt, now>>, print_current_temp
  PROVE  Farewell'
<1>1. UNCHANGED <<opt, open>> /\ Return("main") /\ Calls("main", "print_current_temp") /\ ended = "no"
  BY DEF print_current_temp, Calls
<1>2. todo["main"] = TempNext /\ todo'["main"] = PollNext /\ todo'["isr"] = todo["isr"]
  BY <1>1, MainCalls, ReportSteps, ReturnSteps, ThreadsAre, ZenonT(30) DEF Typed
<1>3. IsWorking(todo["main"]) /\ IsWorking(todo'["main"]) /\ todo'["main"] # process_shutdown
  BY <1>2, AllDifferent DEF IsWorking, Reporting, ShuttingDown
<1> DEFINE text == <<"temp", scale>>
<1>4. text \in Seq(Names) /\ text # <<"SHUTDOWN">>
  BY TextsTyped, ReportTexts DEF Typed, Values
<1>5. IF "sensor" \in open THEN fprintf(text) ELSE ended' \in {"no", "killed"} /\ UNCHANGED log
  BY DEF print_current_temp, UseAfterClose
<1> HIDE DEF text
<1>6. /\ log' = log \/ Appended(text)
      /\ \/ ended' \in {"no", "exit 1"}
         \/ "sensor" \notin open
         \/ opt.log /\ "file" \notin open
      /\ ended' # "exit 0"
  <2>1. CASE "sensor" \in open
    BY <1>1, <1>4, <1>5, <2>1, FprintfAppends DEF Typed
  <2>2. CASE "sensor" \notin open
    BY <1>5, <2>2
  <2> QED
    BY <2>1, <2>2
<1> QED
  BY <1>1, <1>2, <1>3, <1>4, <1>6, WorkFarewell

\* In a report the main thread prints the time.
LEMMA ReportTimeFarewell ==
  ASSUME Typed, Farewell, UNCHANGED <<opt, now>>, print_current_time("main"),
         todo["main"] = TimeNext, todo'["main"] = TempNext, todo'["isr"] = todo["isr"]
  PROVE  Farewell'
<1> DEFINE text == <<"time">>
<1>1. fprintf(text) /\ UNCHANGED open /\ ended = "no"
  BY DEF print_current_time, Calls
<1>2. text \in Seq(Names) /\ text # <<"SHUTDOWN">>
  BY TextsTyped, ReportTexts DEF Texts
<1> HIDE DEF text
<1>3. IsWorking(todo["main"]) /\ IsWorking(todo'["main"]) /\ todo'["main"] # process_shutdown
  BY AllDifferent DEF IsWorking, Reporting, ShuttingDown
<1>4. /\ log' = log \/ Appended(text)
      /\ ended' \in {"no", "exit 1"} \/ (opt.log /\ "file" \notin open)
      /\ ended' # "exit 0"
  BY <1>1, <1>2, FprintfAppends DEF Typed
<1> QED
  BY <1>1, <1>2, <1>3, <1>4, WorkFarewell

LEMMA ShutdownFarewell ==
  ASSUME Typed, Farewell, UNCHANGED <<opt, now>>, NEW t \in Threads, Shutdown(t)
  PROVE  Farewell'
<1>0. Typed'
  BY StepsOfShutdown
<1>1. CASE Exit(t)
  BY <1>1, ExitFarewell
<1>2. ASSUME NEW name \in {"print_current_time", "SHUTDOWN", "fclose", "close"},
             Calls(t, name), Return(t)
      PROVE  /\ \A u \in Threads \ {t} : todo'[u] = todo[u]
             /\ \/ /\ name = "print_current_time" /\ t = "main"
                   /\ todo[t] = TimeNext /\ todo'[t] = TempNext
                \/ name = "print_current_time" /\ todo[t] = process_shutdown /\ todo'[t] = ToTell
                \/ name = "SHUTDOWN" /\ todo[t] = ToTell /\ todo'[t] = ToClose
                \/ name = "fclose" /\ todo[t] = ToClose /\ todo'[t] = ToRelease
                \/ name = "close" /\ todo[t] = ToRelease /\ todo'[t] = ToExit
  BY <1>2, ShutdownReturns DEF Typed
<1>3. CASE print_current_time(t)
  <2>1. Calls(t, "print_current_time") /\ Return(t)
    BY <1>3 DEF print_current_time
  <2>2. /\ \A u \in Threads \ {t} : todo'[u] = todo[u]
        /\ \/ t = "main" /\ todo[t] = TimeNext /\ todo'[t] = TempNext
           \/ todo[t] = process_shutdown /\ todo'[t] = ToTell
    BY <1>2, <2>1
  <2>3. CASE t = "main" /\ todo[t] = TimeNext /\ todo'[t] = TempNext
    BY <1>3, <2>2, <2>3, ReportTimeFarewell, ThreadsAre
  <2> QED
    BY <1>0, <1>3, <2>2, <2>3, ShutTimeFarewell
<1>4. CASE PrintShutdown(t)
  <2>1. Calls(t, "SHUTDOWN") /\ Return(t)
    BY <1>4 DEF PrintShutdown
  <2>2. todo[t] = ToTell /\ todo'[t] = ToClose /\ \A u \in Threads \ {t} : todo'[u] = todo[u]
    BY <1>2, <2>1
  <2> QED
    BY <1>4, <2>2, ShutTellFarewell
<1>5. CASE CloseFile(t)
  <2>1. Calls(t, "fclose") /\ Return(t)
    BY <1>5 DEF CloseFile
  <2>2. todo[t] = ToClose /\ todo'[t] = ToRelease /\ \A u \in Threads \ {t} : todo'[u] = todo[u]
    BY <1>2, <2>1
  <2> QED
    BY <1>5, <2>2, ShutCloseFarewell
<1>6. CASE CloseSensors(t)
  <2>1. Calls(t, "close") /\ Return(t)
    BY <1>6 DEF CloseSensors
  <2>2. todo[t] = ToRelease /\ todo'[t] = ToExit /\ \A u \in Threads \ {t} : todo'[u] = todo[u]
    BY <1>2, <2>1
  <2> QED
    BY <1>6, <2>2, ShutReleaseFarewell
<1> QED
  BY <1>1, <1>3, <1>4, <1>5, <1>6 DEF Shutdown

LEMMA ProcessInputFarewell ==
  ASSUME Typed, Farewell, UNCHANGED <<opt, now>>, process_input
  PROVE  Farewell'
<1> DEFINE line == Tail(Head(todo["main"]))
<1>1. /\ Calls("main", "process_input") /\ todo' = [todo EXCEPT !["main"] = Then(line)]
      /\ UNCHANGED open /\ (IF Known(line) THEN fprintf(line) ELSE UNCHANGED <<log, ended>>)
  BY DEF process_input
<1>2. line \in Seq(Names)
  <2>1. Head(todo["main"]) \in Seq(Names) /\ Head(todo["main"]) # <<>>
    BY <1>1, MainCalls, ObeyingSteps DEF Typed
  <2> QED
    BY <2>1, HeadTailProperties
<1>3. ended = "no" /\ IsWorking(todo["main"])
  BY <1>1, MainCalls DEF Calls, IsWorking, Typed
<1>4. /\ todo'["isr"] = todo["isr"]
      /\ IF line = <<"OFF">> THEN todo'["main"] = process_shutdown ELSE Obeying(todo'["main"])
  BY <1>1, ThenSteps DEF Typed
<1> HIDE DEF line
<1>5. /\ IsWorking(todo'["main"]) \/ todo'["main"] = process_shutdown
      /\ todo'["main"] = process_shutdown => line = <<"OFF">>
  BY <1>4, AllDifferent DEF IsWorking, ShuttingDown
<1>6. CASE Known(line)
  <2>1. line # <<"SHUTDOWN">>
    BY <1>6, ReportsAreNoCommands
  <2>2. /\ log' = log \/ Appended(line)
        /\ opt.log /\ "file" \in open => Appended(line)
        /\ ended' \in {"no", "exit 1"} \/ (opt.log /\ "file" \notin open)
        /\ ended' # "exit 0"
    BY <1>1, <1>2, <1>3, <1>6, FprintfAppends DEF Typed
  <2> QED
    BY <1>1, <1>3, <1>4, <1>5, <2>1, <2>2, WorkFarewell
<1>7. CASE ~Known(line)
  <2>1. line # <<"OFF">>
    BY <1>7 DEF Known
  <2>2. IsWorking(todo'["main"])
    BY <1>5, <2>1
  <2>3. UNCHANGED <<opt, open, log>> /\ ended' = "no"
    BY <1>1, <1>3, <1>7
  <2> QED
    BY <1>3, <1>4, <2>2, <2>3, QuietFarewell
<1> QED
  BY <1>6, <1>7

LEMMA EnvironmentFarewell ==
  ASSUME Typed, Farewell, Environment
  PROVE  Farewell'
<1>1. CASE Send \/ Tick
  <2>1. UNCHANGED <<opt, todo, open, log, ended>>
    BY <1>1 DEF Send, Tick, Environment
  <2> QED
    BY <2>1, ToldSame DEF Farewell, Alone, Told, ToldOnce
<1>2. CASE PressButton
  <2>1. /\ UNCHANGED <<opt, open, log, ended>>
        /\ todo' = [todo EXCEPT !["isr"] = process_shutdown]
    BY <1>2 DEF PressButton, Environment
  <2>2. todo'["main"] = todo["main"] /\ todo'["isr"] = process_shutdown
    BY <2>1, ThreadsAre DEF Typed, Todos
  <2>3. process_shutdown # <<>> /\ process_shutdown \notin Gone
    BY NeverNothing, AllDifferent DEF Gone
  <2>4. Told' = Told
    BY <2>1 DEF Told
  <2> QED
    BY <2>1, <2>2, <2>3, <2>4, ThreadsAre DEF Farewell
<1> QED
  BY <1>1, <1>2 DEF Environment

LEMMA NextFarewell == Typed /\ Farewell /\ [Next]_vars => Farewell'
<1> SUFFICES ASSUME Typed, Farewell, [Next]_vars PROVE Farewell'
  OBVIOUS
<1>1. CASE main
  BY <1>1, ThreadsAre, InitializeFarewell, ReadClockFarewell, PrintTempFarewell,
     PollInputFarewell, ProcessInputFarewell, ShutdownFarewell DEF main
<1>2. CASE isr
  BY <1>2, ThreadsAre, ShutdownFarewell DEF isr
<1>3. CASE Environment
  BY <1>3, EnvironmentFarewell
<1>4. CASE UNCHANGED vars
  BY <1>4, ZenonT(30) DEF vars, Farewell, Alone, Told, ToldOnce
<1> QED
  BY <1>1, <1>2, <1>3, <1>4 DEF Next

\* lab4b does not exit without SHUTDOWN in its log, whichever thread shuts down; without
\* the button SHUTDOWN is the last entry, once, after OFF and the time, and no thread
\* uses what has been closed.
THEOREM ShutdownIsLogged == Spec => []ShutdownLogged
<1>1. Typed /\ Farewell => ShutdownLogged
  BY DEF Farewell, Alone, Told, ToldOnce, ShutdownLogged, Pressed
<1> QED
  BY TypedAlways, InitFarewell, NextFarewell, <1>1, PTL DEF Spec

-----------------------------------------------------------------------------
(***************************************************************************)
(* The commands are obeyed as they were sent.                              *)
(***************************************************************************)
SameCommands(entries, more) ==
  /\ Commands(more) = Commands(entries)
  /\ \A i \in Commands(entries) : more[i] = entries[i]

\* What is written beside the commands, and lines that are not obeyed, change nothing.
LEMMA KeptFromSent ==
  ASSUME NEW script, NEW read, NEW entries, NEW more, NEW calls, NEW rest,
         FromSent(script, read, entries, calls), SameCommands(entries, more),
         rest = calls \/ Pending(rest) = {}
  PROVE  FromSent(script, read, more, rest)
<1>1. PICK end \in [Commands(entries) -> Ends(script, read)],
           next \in [Pending(calls) -> Ends(script, read)] :
        Matched(script, entries, calls, end, next)
  BY DEF FromSent
<1>2. CASE rest = calls
  <2>1. Matched(script, more, rest, end, next)
    BY <1>1, <1>2 DEF Matched, SameCommands
  <2>2. end \in [Commands(more) -> Ends(script, read)] /\ next \in [Pending(rest) -> Ends(script, read)]
    BY <1>2 DEF SameCommands
  <2> QED
    BY <2>1, <2>2 DEF FromSent
<1>3. CASE Pending(rest) = {}
  <2> DEFINE none == [k \in {} |-> 0]
  <2>1. none \in [Pending(rest) -> Ends(script, read)]
    BY <1>3
  <2> HIDE DEF none
  <2>2. Matched(script, more, rest, end, none)
    BY <1>1, <1>3 DEF Matched, SameCommands
  <2>3. end \in [Commands(more) -> Ends(script, read)]
    BY DEF SameCommands
  <2> QED
    BY <2>1, <2>2, <2>3 DEF FromSent
<1> QED
  BY <1>2, <1>3

\* The lines but the first.
Follows(rest, calls) ==
  /\ \A k \in Pending(rest) : k + 1 \in Pending(calls) /\ k + 1 > 1 /\ rest[k] = calls[k + 1]
  /\ Pending(rest) \in SUBSET Nat /\ Pending(calls) \in SUBSET Nat

LEMMA ObeyingFollows ==
  ASSUME NEW calls, Obeying(calls), Head(calls)[1] = "process_input"
  PROVE  Follows(Tail(calls), calls) /\ 1 \in Pending(calls) /\ Head(calls) = calls[1]
<1> DEFINE n == Len(calls)
           rest == Tail(calls)
<1>1. calls \in Seq(Seq(Names)) /\ calls # <<>> /\ n \in Nat /\ n # 0
  BY EmptySeq, LenProperties DEF Obeying
<1>2. /\ Head(calls) = calls[1] /\ Len(rest) = n - 1
      /\ \A k \in 1..(n - 1) : rest[k] = calls[k + 1]
  BY <1>1, HeadTailProperties
<1> HIDE DEF n, rest
<1>3. Pending(calls) = {k \in 1..n : calls[k][1] = "process_input"}
  BY DEF Pending, n
<1>4. Pending(rest) = {k \in 1..(n - 1) : rest[k][1] = "process_input"}
  BY <1>2 DEF Pending
<1>5. 1 \in Pending(calls)
  BY <1>1, <1>2, <1>3
<1>6. \A k \in 1..(n - 1) : k + 1 \in 1..n /\ k + 1 > 1
  BY <1>1
<1>7. \A k \in Pending(rest) : k + 1 \in Pending(calls) /\ k + 1 > 1 /\ rest[k] = calls[k + 1]
  BY <1>2, <1>3, <1>4, <1>6
<1>8. Pending(rest) \in SUBSET Nat /\ Pending(calls) \in SUBSET Nat
  BY <1>1, <1>3, <1>4
<1> QED
  BY <1>2, <1>5, <1>7, <1>8 DEF Follows, rest

\* A line that is no command is dropped.
LEMMA DroppedFromSent ==
  ASSUME NEW script, NEW read, NEW entries, NEW calls, NEW rest,
         FromSent(script, read, entries, calls), Follows(rest, calls)
  PROVE  FromSent(script, read, entries, rest)
<1>1. PICK end \in [Commands(entries) -> Ends(script, read)],
           next \in [Pending(calls) -> Ends(script, read)] :
        Matched(script, entries, calls, end, next)
  BY DEF FromSent
<1> DEFINE after == [k \in Pending(rest) |-> next[k + 1]]
<1>2. after \in [Pending(rest) -> Ends(script, read)]
  BY DEF Follows
<1>3. \A k \in Pending(rest) : after[k] = next[k + 1]
  OBVIOUS
<1> HIDE DEF after
<1>4. \A i, j \in Pending(rest) : i < j => after[i] < after[j]
  <2>1. \A i, j \in Pending(rest) : i < j => i + 1 < j + 1
    BY DEF Follows
  <2> QED
    BY <1>1, <1>3, <2>1 DEF Matched, Follows
<1>5. \A i \in Commands(entries), j \in Pending(rest) : end[i] < after[j]
  BY <1>1, <1>3 DEF Matched, Follows
<1>6. \A j \in Pending(rest) : IsEndOf(Tail(rest[j]), SubSeq(script, 1, after[j] - 1))
  BY <1>1, <1>3, Zenon DEF Matched, Follows
<1>7. Matched(script, entries, rest, end, after)
  BY <1>1, <1>4, <1>5, <1>6 DEF Matched
<1> QED
  BY <1>1, <1>2, <1>7 DEF FromSent

\* A command is logged.
LEMMA LoggedFromSent ==
  ASSUME NEW script, NEW read \in Nat, NEW entries, NEW more, NEW calls, NEW rest,
         FromSent(script, read, entries, calls), Follows(rest, calls), 1 \in Pending(calls),
         NEW last \in Nat, Commands(more) = Commands(entries) \union {last},
         \A i \in Commands(entries) : i \in Nat /\ i < last /\ more[i] = entries[i],
         more[last] = Tail(calls[1])
  PROVE  FromSent(script, read, more, rest)
<1>1. PICK end \in [Commands(entries) -> Ends(script, read)],
           next \in [Pending(calls) -> Ends(script, read)] :
        Matched(script, entries, calls, end, next)
  BY DEF FromSent
<1> DEFINE after == [k \in Pending(rest) |-> next[k + 1]]
           with == [i \in Commands(more) |-> IF i = last THEN next[1] ELSE end[i]]
<1>2. /\ after \in [Pending(rest) -> Ends(script, read)]
      /\ with \in [Commands(more) -> Ends(script, read)]
  BY DEF Follows
<1>3. /\ \A k \in Pending(rest) : after[k] = next[k + 1]
      /\ with[last] = next[1] /\ \A i \in Commands(entries) : with[i] = end[i]
  <2>1. \A i \in Commands(entries) : i # last
    OBVIOUS
  <2> QED
    BY <2>1
<1> HIDE DEF after, with
<1>4. \A i, j \in Pending(rest) : i < j => after[i] < after[j]
  <2>1. \A i, j \in Pending(rest) : i < j => i + 1 < j + 1
    BY DEF Follows
  <2> QED
    BY <1>1, <1>3, <2>1 DEF Matched, Follows
<1>5. \A j \in Pending(rest) : next[1] < after[j]
  <2>1. \A j \in Pending(rest) : j + 1 \in Pending(calls) /\ 1 < j + 1
    BY DEF Follows
  <2> QED
    BY <1>1, <1>3, <2>1 DEF Matched
<1>6. \A i \in Commands(entries), j \in Pending(rest) : end[i] < after[j]
  BY <1>1, <1>3 DEF Matched, Follows
<1>7. \A i \in Commands(more), j \in Pending(rest) : with[i] < after[j]
  BY <1>3, <1>5, <1>6
<1>8. \A i, j \in Commands(more) : i < j => with[i] < with[j]
  <2>1. \A i, j \in Commands(entries) : i < j => end[i] < end[j]
    BY <1>1 DEF Matched
  <2>2. \A i \in Commands(entries) : end[i] < next[1]
    BY <1>1 DEF Matched
  <2> SUFFICES ASSUME NEW i \in Commands(more), NEW j \in Commands(more), i < j
               PROVE  with[i] < with[j]
    OBVIOUS
  <2>3. i \in Commands(entries)
    <3>1. i \in Nat /\ j \in Nat /\ i <= last /\ j <= last
      OBVIOUS
    <3>2. i # last
      BY <3>1
    <3> QED
      BY <3>2
  <2>4. CASE j = last
    BY <1>3, <2>2, <2>3, <2>4
  <2>5. CASE j \in Commands(entries)
    BY <1>3, <2>1, <2>3, <2>5
  <2> QED
    BY <2>4, <2>5
<1>9. \A j \in Pending(rest) : IsEndOf(Tail(rest[j]), SubSeq(script, 1, after[j] - 1))
  BY <1>1, <1>3, Zenon DEF Matched, Follows
<1>10. \A i \in Commands(more) : IsEndOf(more[i], SubSeq(script, 1, with[i] - 1))
  <2>1. IsEndOf(more[last], SubSeq(script, 1, with[last] - 1))
    BY <1>1, <1>3, Zenon DEF Matched
  <2>2. \A i \in Commands(entries) : IsEndOf(more[i], SubSeq(script, 1, with[i] - 1))
    BY <1>1, <1>3, Zenon DEF Matched
  <2> QED
    BY <2>1, <2>2
<1>11. Matched(script, more, rest, with, after)
  BY <1>4, <1>7, <1>8, <1>9, <1>10 DEF Matched
<1> QED
  BY <1>2, <1>11 DEF FromSent

\* A sequence that agrees with the end of another one is a suffix of it.
LEMMA AgreesAtEnd ==
  ASSUME NEW line \in Seq(Names), NEW text \in Seq(Names), Len(line) <= Len(text),
         \A i \in 1..Len(line) : line[i] = text[Len(text) - Len(line) + i]
  PROVE  IsSuffix(line, text)
<1> DEFINE m == Len(line)
           n == Len(text)
           ls == Reverse(line)
           ts == Reverse(text)
           first == SubSeq(ls, 1, m)
           second == SubSeq(ts, 1, m)
<1>1. m \in Nat /\ n \in Nat
  BY LenProperties
<1>2. \A i \in 1..m : line[i] \in Names
  BY ElementOfSeq
<1>3. \A i \in 1..n : text[i] \in Names
  BY ElementOfSeq
<1>4. ls = [i \in 1..m |-> line[(m - i) + 1]] /\ ts = [i \in 1..n |-> text[(n - i) + 1]]
  BY DEF Reverse
<1>5. m <= n /\ \A i \in 1..m : line[i] = text[n - m + i]
  OBVIOUS
<1> HIDE DEF m, n, ls, ts
<1>6. Len(ls) = m /\ Len(ts) = n
  BY <1>1, <1>4
<1>7. \A i \in 1..m : ls[i] = line[(m - i) + 1] /\ ts[i] = text[(n - i) + 1]
  BY <1>1, <1>4, <1>5
<1>8. \A i \in 1..m : (m - i) + 1 \in 1..m /\ n - m + ((m - i) + 1) = (n - i) + 1
  BY <1>1
<1>9. \A i \in 1..m : ls[i] = ts[i] /\ ls[i] \in Names
  BY <1>2, <1>5, <1>7, <1>8
<1>10. /\ first \in Seq(Names) /\ Len(first) = IF 1 <= m THEN m - 1 + 1 ELSE 0
       /\ \A i \in 1..(m - 1 + 1) : first[i] = ls[1 + i - 1]
  BY <1>1, <1>9, SubSeqProperties
<1>11. /\ second \in Seq(Names) /\ Len(second) = IF 1 <= m THEN m - 1 + 1 ELSE 0
       /\ \A i \in 1..(m - 1 + 1) : second[i] = ts[1 + i - 1]
  BY <1>1, <1>9, SubSeqProperties
<1> HIDE DEF first, second
<1>12. Len(first) = m /\ Len(second) = m
  BY <1>1, <1>10, <1>11
<1>13. \A i \in 1..m : first[i] = second[i]
  <2> SUFFICES ASSUME NEW i \in 1..m PROVE first[i] = second[i]
    OBVIOUS
  <2>1. i \in 1..(m - 1 + 1) /\ 1 + i - 1 = i
    BY <1>1
  <2> QED
    BY <1>9, <1>10, <1>11, <2>1
<1>14. first = second
  BY <1>10, <1>11, <1>12, <1>13, SeqEqual
<1>15. SubSeq(ls, 1, Len(ls)) = SubSeq(ts, 1, Len(ls)) /\ Len(ls) <= Len(ts)
  BY <1>5, <1>6, <1>14 DEF first, second
<1> QED
  BY <1>15, Zenon DEF IsSuffix, IsPrefix, ls, ts

\* A part of what has been read ends where the script, up to there, ends.
LEMMA PartIsEnd ==
  ASSUME NEW script \in Seq(Names), NEW read \in Nat, NEW piece,
         NEW length \in Nat, read + length <= Len(script),
         \A i \in 1..length : piece[i] = script[read + i],
         NEW a \in Nat \ {0}, NEW b \in Nat, a <= b + 1, b <= length,
         \A i \in a..b : piece[i] # "NL"
  PROVE  IsEndOf(SubSeq(piece, a, b), SubSeq(script, 1, read + b))
<1> DEFINE line == SubSeq(piece, a, b)
           text == SubSeq(script, 1, read + b)
<1>1. Len(script) \in Nat /\ \A i \in 1..Len(script) : script[i] \in Names
  BY LenProperties, ElementOfSeq
<1>2. \A i \in a..b : i \in 1..length /\ read + i \in 1..Len(script)
  BY <1>1
<1>3. \A i \in a..b : piece[i] \in Names
  BY <1>1, <1>2
<1>4. /\ line \in Seq(Names) /\ Len(line) = IF a <= b THEN b - a + 1 ELSE 0
      /\ \A i \in 1..(b - a + 1) : line[i] = piece[a + i - 1]
  BY <1>3, SubSeqProperties
<1>5. \A i \in 1..(read + b) : i \in 1..Len(script)
  BY <1>1
<1>6. \A i \in 1..(read + b) : script[i] \in Names
  BY <1>1, <1>5
<1>7. /\ text \in Seq(Names) /\ Len(text) = IF 1 <= read + b THEN read + b - 1 + 1 ELSE 0
      /\ \A i \in 1..(read + b - 1 + 1) : text[i] = script[1 + i - 1]
  <2> DEFINE n == read + b
  <2>1. n \in Int /\ \A i \in 1..n : script[i] \in Names
    BY <1>6
  <2> HIDE DEF n
  <2>2. /\ SubSeq(script, 1, n) \in Seq(Names)
        /\ Len(SubSeq(script, 1, n)) = IF 1 <= n THEN n - 1 + 1 ELSE 0
        /\ \A i \in 1..(n - 1 + 1) : SubSeq(script, 1, n)[i] = script[1 + i - 1]
    BY <2>1, SubSeqProperties
  <2> QED
    BY <2>2 DEF n
<1> HIDE DEF line, text
<1>8. Len(line) = b - a + 1 /\ Len(text) = read + b /\ Len(line) <= Len(text)
  BY <1>4, <1>7
<1>9. \A i \in 1..Len(line) : line[i] = text[Len(text) - Len(line) + i] /\ line[i] # "NL"
  <2> SUFFICES ASSUME NEW i \in 1..(b - a + 1)
               PROVE  line[i] = text[read + b - (b - a + 1) + i] /\ line[i] # "NL"
    BY <1>8
  <2> DEFINE j == a + i - 1
             k == read + b - (b - a + 1) + i
  <2>1. j \in a..b /\ k = read + j /\ k \in 1..(read + b - 1 + 1) /\ 1 + k - 1 = k
    OBVIOUS
  <2>2. line[i] = piece[j]
    BY <1>4
  <2> HIDE DEF j, k
  <2>3. piece[j] = script[read + j] /\ piece[j] # "NL"
    BY <1>2, <2>1
  <2>4. text[k] = script[k]
    BY <1>7, <2>1
  <2> QED
    BY <2>1, <2>2, <2>3, <2>4 DEF k
<1>10. IsSuffix(line, text)
  BY <1>4, <1>7, <1>8, <1>9, AgreesAtEnd
<1>11. ~Contains(line, "NL")
  BY <1>9 DEF Contains
<1> QED
  BY <1>10, <1>11 DEF IsEndOf, line, text

\* What is read is obeyed after all that was read before.
LEMMA ReadFromSent ==
  ASSUME Values, NEW entries, NEW calls, FromSent(opt.script, taken, entries, calls)
  PROVE  FromSent(opt.script, arrived, entries, Tagged(Lines(Piece)) \o Loop)
<1> DEFINE script == opt.script
           many == Cardinality(Feeds(Piece))
           lines == Lines(Piece)
           all == Tagged(lines) \o Loop
           length == arrived - taken
<1>1. script \in Seq(Names) /\ Len(script) \in Nat /\ arrived \in Nat /\ taken \in Nat
      /\ arrived <= Len(script) /\ taken <= arrived
  BY ScriptTyped
<1>2. /\ Piece \in Seq(Names) /\ Len(Piece) = length
      /\ \A i \in 1..length : Piece[i] = script[taken + i]
      /\ lines \in Seq(Seq(Names))
  BY PieceTyped
<1>3. PICK end \in [Commands(entries) -> Ends(script, taken)],
           next \in [Pending(calls) -> Ends(script, taken)] :
        Matched(script, entries, calls, end, next)
  BY DEF FromSent
<1> HIDE DEF script
<1>4. length \in Nat /\ taken + length = arrived
  BY <1>1
<1>5. /\ many \in Nat /\ Feeds(Piece) = {i \in 1..length : Piece[i] = "NL"}
      /\ \A n \in 1..many : Feed(Piece, n) \in Feeds(Piece)
      /\ \A m, n \in 1..many : m < n => Feed(Piece, m) < Feed(Piece, n)
      /\ \A n \in 1..many, i \in Feeds(Piece) : i < Feed(Piece, n) => n > 1 /\ i <= Feed(Piece, n - 1)
  <2>1. Feeds(Piece) = {i \in 1..length : Piece[i] = "NL"}
    BY <1>2 DEF Feeds
  <2> QED
    BY <1>2, <2>1, FeedsInOrder
<1>6. /\ Len(lines) = many
      /\ \A n \in 1..many : lines[n] = SubSeq(Piece, Begin(Piece, n), Feed(Piece, n) - 1)
  BY <1>2, LinesFound
<1>7. /\ Len(all) = many + 1 /\ all[many + 1] = <<"gettimeofday">>
      /\ \A k \in 1..many : all[k][1] = "process_input" /\ Tail(all[k]) = lines[k]
  BY <1>2, <1>6, TaggedLines
<1> HIDE DEF many, lines, all, length
<1>8. Pending(all) = 1..many
  <2>1. <<"gettimeofday">>[1] # "process_input"
    OBVIOUS
  <2>2. \A k \in 1..(many + 1) : k \in 1..many \/ k = many + 1
    BY <1>5
  <2>3. \A k \in 1..many : k \in 1..(many + 1)
    BY <1>5
  <2> QED
    BY <1>7, <2>1, <2>2, <2>3 DEF Pending
<1> DEFINE after == [k \in 1..many |-> taken + Feed(Piece, k)]
<1>9. \A k \in 1..many : Feed(Piece, k) \in 1..length /\ Piece[Feed(Piece, k)] = "NL"
  BY <1>5
<1>10. \A k \in 1..many : after[k] = taken + Feed(Piece, k)
  OBVIOUS
<1>11. \A k \in 1..many : taken + Feed(Piece, k) \in Ends(script, arrived)
  <2> SUFFICES ASSUME NEW k \in 1..many PROVE taken + Feed(Piece, k) \in Ends(script, arrived)
    OBVIOUS
  <2> DEFINE f == Feed(Piece, k)
  <2>1. f \in 1..length /\ Piece[f] = "NL"
    BY <1>9
  <2> HIDE DEF f
  <2>2. taken + f \in 1..arrived /\ script[taken + f] = "NL"
    BY <1>1, <1>2, <1>4, <2>1
  <2> QED
    BY <2>2 DEF Ends, f
<1>12. after \in [Pending(all) -> Ends(script, arrived)]
  BY <1>8, <1>11
<1> HIDE DEF after
<1>13. end \in [Commands(entries) -> Ends(script, arrived)]
  <2>1. \A i \in 1..taken : i \in 1..arrived
    BY <1>1
  <2>2. Ends(script, taken) \subseteq Ends(script, arrived)
    BY <2>1 DEF Ends
  <2> QED
    BY <1>3, <2>2
<1>14. \A k \in 1..many : IsEndOf(Tail(all[k]), SubSeq(script, 1, after[k] - 1))
  <2> SUFFICES ASSUME NEW k \in 1..many
               PROVE  IsEndOf(Tail(all[k]), SubSeq(script, 1, after[k] - 1))
    OBVIOUS
  <2> DEFINE a == Begin(Piece, k)
             f == Feed(Piece, k)
             b == f - 1
  <2>1. f \in 1..length /\ f \in Nat /\ b \in Nat /\ b <= length
    <3>1. f \in 1..length
      BY <1>9
    <3> HIDE DEF f
    <3> QED
      BY <1>4, <3>1
  <2>2. a \in Nat \ {0} /\ a <= f /\ \A i \in Feeds(Piece) : i < f => i < a
    <3>1. CASE k = 1
      <4>1. a = 1 /\ \A i \in Feeds(Piece) : ~(i < f)
        BY <1>5, <3>1 DEF Begin
      <4> HIDE DEF a, f
      <4> QED
        BY <1>4, <2>1, <4>1
    <3>2. CASE k # 1
      <4> DEFINE g == Feed(Piece, k - 1)
      <4>1. k - 1 \in 1..many /\ k - 1 < k
        BY <1>5, <3>2
      <4>2. g < f /\ g \in 1..length /\ a = g + 1 /\ \A i \in Feeds(Piece) : i < f => i <= g
        BY <1>5, <1>9, <3>2, <4>1 DEF Begin
      <4>3. \A i \in Feeds(Piece) : i \in Nat
        BY <1>5, <1>4
      <4> HIDE DEF a, f, g
      <4> QED
        BY <1>4, <2>1, <4>2, <4>3
    <3> QED
      BY <3>1, <3>2
  <2>3. lines[k] = SubSeq(Piece, a, b) /\ after[k] = taken + f
    BY <1>6, <1>10
  <2> HIDE DEF a, f
  <2>4. a <= b + 1 /\ after[k] - 1 = taken + b
    BY <1>1, <2>1, <2>2, <2>3
  <2>5. \A i \in a..b : Piece[i] # "NL"
    <3> SUFFICES ASSUME NEW i \in a..b, Piece[i] = "NL" PROVE FALSE
      OBVIOUS
    <3>1. i \in 1..length /\ i < f /\ ~(i < a)
      BY <1>4, <2>1, <2>2
    <3>2. i \in Feeds(Piece)
      BY <1>5, <3>1
    <3> QED
      BY <2>2, <3>1, <3>2
  <2> HIDE DEF b
  <2>6. IsEndOf(SubSeq(Piece, a, b), SubSeq(script, 1, taken + b))
    <3>1. taken + length <= Len(script)
      BY <1>1, <1>4
    <3> QED
      BY <1>1, <1>2, <1>4, <2>1, <2>2, <2>4, <2>5, <3>1, PartIsEnd
  <2> QED
    BY <1>7, <2>3, <2>4, <2>6
<1>15. \A i, j \in 1..many : i < j => after[i] < after[j]
  <2> SUFFICES ASSUME NEW i \in 1..many, NEW j \in 1..many, i < j PROVE after[i] < after[j]
    OBVIOUS
  <2> DEFINE f == Feed(Piece, i)
             g == Feed(Piece, j)
  <2>1. f < g /\ f \in 1..length /\ g \in 1..length /\ after[i] = taken + f /\ after[j] = taken + g
    BY <1>5, <1>9, <1>10
  <2> HIDE DEF f, g
  <2> QED
    BY <1>1, <1>4, <2>1
<1>16. \A i \in Commands(entries), j \in 1..many : end[i] < after[j]
  <2> SUFFICES ASSUME NEW i \in Commands(entries), NEW j \in 1..many PROVE end[i] < after[j]
    OBVIOUS
  <2> DEFINE f == Feed(Piece, j)
  <2>1. end[i] \in 1..taken /\ f \in 1..length /\ after[j] = taken + f
    BY <1>3, <1>9, <1>10 DEF Ends
  <2> HIDE DEF f
  <2> QED
    BY <1>1, <1>4, <2>1
<1>17. Matched(script, entries, all, end, after)
  BY <1>3, <1>8, <1>14, <1>15, <1>16 DEF Matched
<1> QED
  BY <1>12, <1>13, <1>17 DEF FromSent, script, all, lines

LEMMA NothingPending ==
  \A calls \in {ToStart, Loop} \union Reporting \union ShuttingDown : Pending(calls) = {}
<1>1. Pending(ToStart) = {} /\ Pending(Loop) = {}
  BY DEF Pending, ToStart, Loop
<1>2. Pending(TimeNext) = {} /\ Pending(TempNext) = {} /\ Pending(PollNext) = {}
  BY DEF Pending, TimeNext, TempNext, PollNext
<1>3. Pending(process_shutdown) = {} /\ Pending(ToTell) = {} /\ Pending(ToClose) = {}
  BY DEF Pending, process_shutdown, ToTell, ToClose
<1>4. Pending(ToRelease) = {} /\ Pending(ToExit) = {}
  BY DEF Pending, ToRelease, ToExit
<1> QED
  BY <1>1, <1>2, <1>3, <1>4 DEF Reporting, ShuttingDown

LEMMA SameLog == log' = log => SameCommands(log, log')
  BY DEF SameCommands, Commands

\* What an entry adds to the commands.
LEMMA EntryAdds ==
  ASSUME Values, NEW text, Appended(text)
  PROVE  /\ ~Known(text) => SameCommands(log, log')
         /\ Known(text) => Commands(log') = Commands(log) \union {Len(log) + 1}
         /\ \A i \in Commands(log) : i \in Nat /\ i < Len(log) + 1 /\ log'[i] = log[i]
         /\ Len(log) + 1 \in Nat /\ log'[Len(log) + 1] = text
<1> DEFINE n == Len(log)
<1>1. n \in Nat
  BY LenProperties DEF Values
<1>2. Len(log') = n + 1 /\ log'[n + 1] = text /\ \A i \in 1..n : log'[i] = log[i]
  BY DEF Appended
<1>3. Commands(log) = {i \in 1..n : Known(log[i])}
  BY DEF Commands
<1>4. Commands(log') = {i \in 1..(n + 1) : Known(log'[i])}
  BY <1>2 DEF Commands
<1> HIDE DEF n
<1>5. \A i : i \in 1..(n + 1) <=> i \in 1..n \/ i = n + 1
  BY <1>1
<1>6. \A i \in 1..n : i \in Nat /\ i < n + 1
  BY <1>1
<1>7. ~Known(text) => SameCommands(log, log')
  <2>1. ~Known(text) => Commands(log') = Commands(log)
    BY <1>2, <1>3, <1>4, <1>5
  <2> QED
    BY <1>2, <1>3, <2>1 DEF SameCommands
<1>8. Known(text) => Commands(log') = Commands(log) \union {n + 1}
  BY <1>2, <1>3, <1>4, <1>5
<1>9. n + 1 \in Nat
  BY <1>1
<1> QED
  BY <1>2, <1>3, <1>6, <1>7, <1>8, <1>9 DEF n

\* Steps that read nothing and obey nothing.
LEMMA KeptAsSent ==
  ASSUME AsSent, UNCHANGED <<opt, taken>>, SameCommands(log, log'),
         todo'["main"] = todo["main"] \/ Pending(todo'["main"]) = {}
  PROVE  AsSent'
<1>1. FromSent(opt.script, taken, log', todo'["main"])
  BY KeptFromSent DEF AsSent
<1> QED
  BY <1>1 DEF AsSent

LEMMA WrittenKeeps ==
  ASSUME Values, NEW text \in Seq(Names), ~Known(text), fprintf(text)
  PROVE  SameCommands(log, log')
BY FprintfAppends, EntryAdds, SameLog

LEMMA ShutdownAsSent ==
  ASSUME Typed, AsSent, UNCHANGED <<opt, now>>, NEW t \in Threads, Shutdown(t)
  PROVE  AsSent'
<1>1. taken' = taken
  BY DEF Shutdown, print_current_time, PrintShutdown, CloseFile, CloseSensors, Exit
<1>2. SameCommands(log, log')
  <2>1. CASE print_current_time(t)
    BY <2>1, WrittenKeeps, TextsTyped, ReportsAreNoCommands DEF print_current_time, Typed, Texts
  <2>2. CASE PrintShutdown(t)
    BY <2>2, WrittenKeeps, TextsTyped, ReportsAreNoCommands DEF PrintShutdown, Typed, Texts
  <2>3. CASE CloseFile(t) \/ CloseSensors(t) \/ Exit(t)
    BY <2>3, SameLog DEF CloseFile, CloseSensors, Exit
  <2> QED
    BY <2>1, <2>2, <2>3 DEF Shutdown
<1>3. todo'["main"] = todo["main"] \/ Pending(todo'["main"]) = {}
  <2>1. CASE Exit(t)
    BY <2>1 DEF Exit
  <2>2. CASE ~Exit(t)
    <3>1. PICK name \in {"print_current_time", "SHUTDOWN", "fclose", "close"} :
            Calls(t, name) /\ Return(t)
      BY <2>2 DEF Shutdown, print_current_time, PrintShutdown, CloseFile, CloseSensors
    <3>2. /\ \A u \in Threads \ {t} : todo'[u] = todo[u]
          /\ todo'[t] \in {TempNext, ToTell, ToClose, ToRelease, ToExit}
      BY <3>1, ShutdownReturns DEF Typed
    <3> QED
      BY <3>2, NothingPending, ThreadsAre DEF Reporting, ShuttingDown
  <2> QED
    BY <2>1, <2>2
<1> QED
  BY <1>1, <1>2, <1>3, KeptAsSent

LEMMA ProcessInputAsSent ==
  ASSUME Typed, AsSent, UNCHANGED <<opt, now>>, process_input
  PROVE  AsSent'
<1> DEFINE line == Tail(Head(todo["main"]))
           rest == Tail(todo["main"])
<1>1. /\ Calls("main", "process_input") /\ todo' = [todo EXCEPT !["main"] = Then(line)]
      /\ UNCHANGED <<open, taken>> /\ (IF Known(line) THEN fprintf(line) ELSE UNCHANGED <<log, ended>>)
  BY DEF process_input
<1>2. line \in Seq(Names)
  <2>1. Head(todo["main"]) \in Seq(Names) /\ Head(todo["main"]) # <<>>
    BY <1>1, MainCalls, ObeyingSteps DEF Typed
  <2> QED
    BY <2>1, HeadTailProperties
<1>3. /\ Follows(rest, todo["main"]) /\ 1 \in Pending(todo["main"])
      /\ line = Tail(todo["main"][1])
  <2>1. Obeying(todo["main"]) /\ Head(todo["main"])[1] = "process_input"
    BY <1>1, MainCalls DEF Calls, Typed
  <2> QED
    BY <2>1, ObeyingFollows
<1>4. todo'["main"] = rest \/ Pending(todo'["main"]) = {}
  BY <1>1, ThenSteps, NothingPending DEF Typed, ShuttingDown
<1> HIDE DEF line, rest
<1>5. taken \in Nat /\ FromSent(opt.script, taken, log, todo["main"])
  BY ScriptTyped DEF AsSent, Typed
<1>6. FromSent(opt.script, taken, log', rest)
  <2>1. CASE Known(line) /\ Appended(line)
    <3> DEFINE last == Len(log) + 1
    <3>1. /\ Commands(log') = Commands(log) \union {last}
          /\ \A i \in Commands(log) : i \in Nat /\ i < last /\ log'[i] = log[i]
          /\ last \in Nat /\ log'[last] = line
      BY <2>1, EntryAdds DEF Typed
    <3> HIDE DEF last
    <3> QED
      BY <1>3, <1>5, <3>1, LoggedFromSent
  <2>2. CASE ~(Known(line) /\ Appended(line))
    <3>1. log' = log
      BY <1>1, <1>2, <2>2, FprintfAppends DEF Typed
    <3> QED
      BY <1>3, <1>5, <3>1, DroppedFromSent
  <2> QED
    BY <2>1, <2>2
<1>7. SameCommands(log', log')
  BY DEF SameCommands
<1>8. FromSent(opt.script, taken, log', todo'["main"])
  BY <1>4, <1>6, <1>7, KeptFromSent
<1> QED
  BY <1>1, <1>8 DEF AsSent

LEMMA InitAsSent == Init => AsSent
<1> SUFFICES ASSUME Init PROVE AsSent
  OBVIOUS
<1>1. log = <<>> /\ todo["main"] = ToStart
  BY DEF Init, ToStart
<1>2. Commands(log) = {} /\ Pending(todo["main"]) = {}
  <2>1. Len(<<>>) = 0
    OBVIOUS
  <2> QED
    BY <1>1, <2>1, NothingPending DEF Commands
<1> DEFINE none == [k \in {} |-> 0]
<1>3. /\ none \in [Commands(log) -> Ends(opt.script, taken)]
      /\ none \in [Pending(todo["main"]) -> Ends(opt.script, taken)]
  BY <1>2
<1> HIDE DEF none
<1>4. Matched(opt.script, log, todo["main"], none, none)
  BY <1>2 DEF Matched
<1> QED
  BY <1>3, <1>4 DEF AsSent, FromSent

LEMMA NextAsSent == Typed /\ AsSent /\ [Next]_vars => AsSent'
<1> SUFFICES ASSUME Typed, AsSent, [Next]_vars PROVE AsSent'
  OBVIOUS
<1>1. CASE Initialize /\ UNCHANGED <<opt, now>>
  <2>1. UNCHANGED <<opt, taken, log>> /\ (UNCHANGED todo \/ todo' = [todo EXCEPT !["main"] = Loop])
    BY <1>1 DEF Initialize
  <2>2. UNCHANGED todo \/ todo'["main"] = Loop
    BY <2>1, ThreadsAre DEF Typed, Todos
  <2> QED
    BY <2>1, <2>2, SameLog, NothingPending, KeptAsSent
<1>2. CASE ReadClock /\ UNCHANGED <<opt, now>>
  <2>1. UNCHANGED <<opt, taken, log>> /\ todo'["main"] \in {TimeNext, PollNext}
    BY <1>2, ThreadsAre DEF ReadClock, Typed, Todos, TimeNext, PollNext
  <2> QED
    BY <2>1, SameLog, NothingPending, KeptAsSent DEF Reporting
<1>3. CASE print_current_temp /\ UNCHANGED <<opt, now>>
  <2>1. UNCHANGED <<opt, taken>> /\ Return("main") /\ Calls("main", "print_current_temp")
    BY <1>3 DEF print_current_temp
  <2>2. todo'["main"] = PollNext
    BY <2>1, MainCalls, ReportSteps, ReturnSteps, ThreadsAre DEF Typed
  <2> DEFINE text == <<"temp", scale>>
  <2>3. text \in Seq(Names) /\ ~Known(text)
    BY TextsTyped, ReportsAreNoCommands DEF Typed, Values
  <2>4. fprintf(text) \/ UNCHANGED log
    BY <1>3 DEF print_current_temp
  <2> HIDE DEF text
  <2>5. SameCommands(log, log')
    BY <2>3, <2>4, WrittenKeeps, SameLog DEF Typed
  <2> QED
    BY <2>1, <2>2, <2>5, NothingPending, KeptAsSent DEF Reporting
<1>4. CASE PollInput /\ UNCHANGED <<opt, now>>
  <2>1. UNCHANGED <<opt, arrived, log>>
    BY <1>4 DEF PollInput
  <2>2. CASE UNCHANGED <<taken, todo>>
    BY <2>1, <2>2, SameLog, KeptAsSent
  <2>3. CASE ~UNCHANGED <<taken, todo>>
    <3>1. taken' = arrived /\ todo' = [todo EXCEPT !["main"] = Tagged(Lines(Piece)) \o Loop]
      BY <1>4, <2>3 DEF PollInput, Tagged, Piece
    <3>2. todo'["main"] = Tagged(Lines(Piece)) \o Loop
      BY <3>1, ThreadsAre DEF Typed, Todos
    <3>3. FromSent(opt.script, arrived, log, Tagged(Lines(Piece)) \o Loop)
      BY ReadFromSent DEF Typed, AsSent
    <3> QED
      BY <2>1, <3>1, <3>2, <3>3 DEF AsSent
  <2> QED
    BY <2>2, <2>3
<1>5. CASE Environment
  <2>1. /\ UNCHANGED <<opt, taken, log>>
        /\ UNCHANGED todo \/ todo' = [todo EXCEPT !["isr"] = process_shutdown]
    BY <1>5 DEF Environment, Send, PressButton, Tick
  <2>2. todo'["main"] = todo["main"]
    BY <2>1, ThreadsAre DEF Typed, Todos
  <2> QED
    BY <2>1, <2>2, SameLog, KeptAsSent
<1>6. CASE UNCHANGED vars
  BY <1>6, SameLog, KeptAsSent DEF vars
<1>7. CASE main
  BY <1>1, <1>2, <1>3, <1>4, <1>7, ThreadsAre, ProcessInputAsSent, ShutdownAsSent DEF main
<1>8. CASE isr
  BY <1>8, ThreadsAre, ShutdownAsSent DEF isr
<1> QED
  BY <1>5, <1>6, <1>7, <1>8 DEF Next

\* The commands in the log of lab4b are the ends of different lines of the input, in the
\* order in which they were sent, however the reads cut the input.
THEOREM LoggedAsSent == Spec => []CommandsAsSent
<1>1. AsSent => CommandsAsSent
  BY DEF AsSent, FromSent, Matched, IsEndOf, Commands, Ends, CommandsAsSent
<1> QED
  BY InitAsSent, TypedAlways, NextAsSent, <1>1, PTL DEF Spec
=============================================================================
