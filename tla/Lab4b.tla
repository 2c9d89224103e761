-------------------------------- MODULE Lab4b --------------------------------
(***************************************************************************)
(* Project 4B, lab4b.c.  The main thread reports the temperature once per  *)
(* period and obeys the commands it reads from its input; OFF shuts the    *)
(* program down.  So does the button: its interrupt runs process_shutdown  *)
(* in a thread of the mraa library, beside the main thread.                *)
(*                                                                         *)
(* Input is a sequence of pieces of text and line feeds ("NL"); a line is  *)
(* a sequence of pieces.  A thread is what it has still to call, todo[t],  *)
(* each call a sequence of its name and its arguments.  The display gets   *)
(* what the log gets, but for the commands, and is not kept; temperatures  *)
(* are abstracted to their scale, times to the fact that they are printed. *)
(***************************************************************************)
EXTENDS Integers, Sequences, SequencesExt, FiniteSets

CONSTANTS
  Scripts,    \* the inputs that are sent
  Periods,    \* the values of --period, in seconds
  Names,      \* all texts of calls, lines and reports
  MaxTime,    \* bound: the clock stops here
  MaxLog      \* bound: no report is begun when the log is this long

\* What the calls and the reports are made of.
Texts ==
  {"init", "gettimeofday", "print_current_time", "print_current_temp", "poll",
   "process_input", "SHUTDOWN", "fclose", "close", "exit", "time", "temp", "F", "C"}

ASSUME Lab4bAssumption ==
  /\ Texts \subseteq Names
  /\ Scripts \subseteq Seq(Names)
  /\ Periods \subseteq Int
  /\ MaxTime \in Nat /\ MaxLog \in Nat

Threads == {"main", "isr"}

VARIABLES
  opt,        \* the input, and --log, --scale, --period
  arrived,    \* how much of the input has been sent
  taken,      \* how much of it the program has read
  now,        \* the clock
  cur_time, run_time,         \* the clock as read, the time of the next report
  scale, period, status,      \* what the commands set; status 1 is running
  todo,       \* the calls each thread has still to make
  open,       \* what is open of the log file, the button and the sensor
  log,        \* what has been handed to the log file
  ended       \* "no", or how the process has ended

settings == <<scale, period, status>>
clocks == <<cur_time, run_time>>
vars == <<opt, arrived, taken, now, clocks, settings, todo, open, log, ended>>

Loop == <<<<"gettimeofday">>>>

\* Mutant of process_shutdown: the file is closed before the last line.
CloseFirst ==
  <<<<"print_current_time">>, <<"fclose">>, <<"SHUTDOWN">>, <<"close">>, <<"exit">>>>

process_shutdown ==
  <<<<"print_current_time">>, <<"SHUTDOWN">>, <<"fclose">>, <<"close">>, <<"exit">>>>

Init ==
  /\ opt \in [script : Scripts, log : BOOLEAN, scale : {"F", "C"}, period : Periods]
  /\ arrived = 0 /\ taken = 0 /\ now = 0 /\ cur_time = 0 /\ run_time = 0
  /\ scale = opt.scale /\ period = opt.period /\ status = 1
  /\ todo = [main |-> <<<<"init">>>>, isr |-> <<>>]
  /\ open = {} /\ log = <<>> /\ ended = "no"

Pressed == todo.isr # <<>>

-----------------------------------------------------------------------------
Calls(t, name) == ended = "no" /\ todo[t] # <<>> /\ Head(todo[t])[1] = name

Return(t) == todo' = [todo EXCEPT ![t] = Tail(@)]

\* The use of what another thread has closed is undefined: nothing, or a fault.
UseAfterClose == ended' \in {"no", "killed"}

fprintf(text) ==
  IF opt.log
    THEN IF "file" \in open
           THEN log' = Append(log, text) /\ UNCHANGED ended
           ELSE UseAfterClose /\ UNCHANGED log
    ELSE UNCHANGED <<log, ended>>

\* The log file is opened, and the handler of the button set.
Initialize ==
  /\ Calls("main", "init")
  /\ \/ /\ open' = IF opt.log THEN {"file", "button", "sensor"} ELSE {"button", "sensor"}
        /\ todo' = [todo EXCEPT !.main = Loop]
        /\ UNCHANGED ended
     \/ /\ opt.log
        /\ ended' = "exit 1"
        /\ UNCHANGED <<open, todo>>
  /\ UNCHANGED <<arrived, taken, clocks, settings, log>>

\* The top of the loop: a report when one is due.
ReadClock ==
  /\ Calls("main", "gettimeofday")
  /\ cur_time' = now
  /\ todo' = [todo EXCEPT !.main =
       IF status = 1 /\ now >= run_time /\ Len(log) < MaxLog
         THEN <<<<"print_current_time">>, <<"print_current_temp">>, <<"poll">>>>
         ELSE <<<<"poll">>>>]
  /\ UNCHANGED <<arrived, taken, run_time, settings, open, log, ended>>

print_current_time(t) ==
  /\ Calls(t, "print_current_time")
  /\ fprintf(<<"time">>)
  /\ Return(t)
  /\ UNCHANGED <<arrived, taken, clocks, settings, open>>

\* The sensor is read and printed, and the next report scheduled.
print_current_temp ==
  /\ Calls("main", "print_current_temp")
  /\ IF "sensor" \in open THEN fprintf(<<"temp", scale>>) ELSE UseAfterClose /\ UNCHANGED log
  /\ run_time' = cur_time + period
  /\ Return("main")
  /\ UNCHANGED <<arrived, taken, cur_time, settings, open>>

\* The line feeds of a text, and the n-th of them, from the front.
Feeds(input) == {i \in 1..Len(input) : input[i] = "NL"}
Feed(input, n) ==
  CHOOSE i \in Feeds(input) : Cardinality({j \in Feeds(input) : j <= i}) = n

\* Mutant of Lines: the start of the line is not reset at a line feed.
LinesNotReset(input) ==
  [n \in 1..Cardinality(Feeds(input)) |->
     SelectSeq(SubSeq(input, 1, Feed(input, n) - 1), LAMBDA piece : piece # "NL")]

\* The lines that end in what one read returns; a line begins anew with each read.
Lines(input) ==
  [n \in 1..Cardinality(Feeds(input)) |->
     SubSeq(input, IF n = 1 THEN 1 ELSE Feed(input, n - 1) + 1, Feed(input, n) - 1)]

\* poll and read_input.  At the end of the input read returns nothing, as often as
\* it is called.
PollInput ==
  /\ Calls("main", "poll")
  /\ \/ /\ taken' = arrived
        /\ LET lines == Lines(SubSeq(opt.script, taken + 1, arrived))
           IN todo' = [todo EXCEPT !.main =
                [n \in 1..Len(lines) |-> <<"process_input">> \o lines[n]] \o Loop]
        /\ UNCHANGED ended
     \/ ended' = "exit 1" /\ UNCHANGED <<taken, todo>>
  /\ UNCHANGED <<arrived, clocks, settings, open, log>>

\* atoi(command + 7): a number only if PERIOD= is where the line begins.
NewPeriod(line) ==
  IF Len(line) = 2 /\ line[1] = "PERIOD=" /\ line[2] = "2" THEN 2 ELSE 0

Known(line) ==
  \/ line \in {<<"SCALE=F">>, <<"SCALE=C">>, <<"STOP">>, <<"START">>, <<"OFF">>}
  \/ Contains(line, "PERIOD=") \/ Contains(line, "LOG ")

\* Mutant of Then: without a log the program goes on.
ThenIfLogging(line) ==
  IF line = <<"OFF">> /\ opt.log THEN process_shutdown ELSE Tail(todo.main)

Then(line) == IF line = <<"OFF">> THEN process_shutdown ELSE Tail(todo.main)

\* Mutant of process_input: a change of the scale is logged but not obeyed.
ScaleNotObeyed ==
  /\ Calls("main", "process_input")
  /\ LET line == Tail(Head(todo.main))
     IN /\ scale' = scale
        /\ period' = IF Contains(line, "PERIOD=") THEN NewPeriod(line) ELSE period
        /\ status' = CASE line = <<"STOP">> -> 0 [] line = <<"START">> -> 1
                       [] OTHER -> status
        /\ IF Known(line) THEN fprintf(line) ELSE UNCHANGED <<log, ended>>
        /\ todo' = [todo EXCEPT !.main = Then(line)]
  /\ UNCHANGED <<arrived, taken, clocks, open>>

\* A line that is no command is neither obeyed nor logged.
process_input ==
  /\ Calls("main", "process_input")
  /\ LET line == Tail(Head(todo.main))
     IN /\ scale' = CASE line = <<"SCALE=F">> -> "F" [] line = <<"SCALE=C">> -> "C"
                      [] OTHER -> scale
        /\ period' = IF Contains(line, "PERIOD=") THEN NewPeriod(line) ELSE period
        /\ status' = CASE line = <<"STOP">> -> 0 [] line = <<"START">> -> 1
                       [] OTHER -> status
        /\ IF Known(line) THEN fprintf(line) ELSE UNCHANGED <<log, ended>>
        /\ todo' = [todo EXCEPT !.main = Then(line)]
  /\ UNCHANGED <<arrived, taken, clocks, open>>

PrintShutdown(t) ==
  /\ Calls(t, "SHUTDOWN")
  /\ fprintf(<<"SHUTDOWN">>)
  /\ Return(t)
  /\ UNCHANGED <<arrived, taken, clocks, settings, open>>

CloseFile(t) ==
  /\ Calls(t, "fclose")
  /\ open' = open \ {"file"}
  /\ IF opt.log /\ "file" \notin open THEN UseAfterClose ELSE UNCHANGED ended
  /\ Return(t)
  /\ UNCHANGED <<arrived, taken, clocks, settings, log>>

CloseSensors(t) ==
  /\ Calls(t, "close")
  /\ open' = open \ {"button", "sensor"}
  /\ IF "sensor" \notin open THEN UseAfterClose ELSE UNCHANGED ended
  /\ Return(t)
  /\ UNCHANGED <<arrived, taken, clocks, settings, log>>

\* Mutant of Exit: process_shutdown returns.
ExitReturns(t) ==
  /\ Calls(t, "exit")
  /\ Return(t)
  /\ UNCHANGED <<arrived, taken, clocks, settings, open, log, ended>>

Exit(t) ==
  /\ Calls(t, "exit")
  /\ ended' = "exit 0"
  /\ UNCHANGED <<arrived, taken, clocks, settings, todo, open, log>>

-----------------------------------------------------------------------------
(***************************************************************************)
(* The sender of the commands, the button and the clock.                   *)
(***************************************************************************)
Send ==
  /\ ended = "no"
  /\ arrived < Len(opt.script)
  /\ arrived' = arrived + 1
  /\ UNCHANGED <<taken, now, clocks, settings, todo, open, log, ended>>

PressButton ==
  /\ "button" \in open /\ ~Pressed /\ ended = "no"
  /\ todo' = [todo EXCEPT !.isr = process_shutdown]
  /\ UNCHANGED <<arrived, taken, now, clocks, settings, open, log, ended>>

Tick ==
  /\ ended = "no"
  /\ now < MaxTime
  /\ now' = now + 1
  /\ UNCHANGED <<arrived, taken, clocks, settings, todo, open, log, ended>>

Shutdown(t) ==
  print_current_time(t) \/ PrintShutdown(t) \/ CloseFile(t) \/ CloseSensors(t) \/ Exit(t)

main ==
  /\ \/ Initialize \/ ReadClock \/ print_current_temp \/ PollInput \/ process_input
     \/ Shutdown("main")
  /\ UNCHANGED <<opt, now>>

isr == Shutdown("isr") /\ UNCHANGED <<opt, now>>

Environment == (Send \/ PressButton \/ Tick) /\ UNCHANGED opt

Next == main \/ isr \/ Environment

\* Both threads are scheduled.  Neither the sender nor the button owes anything.
Spec == Init /\ [][Next]_vars /\ WF_vars(main) /\ WF_vars(isr)

-----------------------------------------------------------------------------
\* Every variable has its type; the main thread always has something to do.
TypeOK ==
  /\ opt \in [script : Scripts, log : BOOLEAN, scale : {"F", "C"}, period : Periods]
  /\ arrived \in 0..Len(opt.script) /\ taken \in 0..arrived
  /\ now \in 0..MaxTime /\ cur_time \in 0..now /\ run_time \in Int
  /\ scale \in {"F", "C"} /\ period \in Periods \union {0, 2} /\ status \in {0, 1}
  /\ todo \in [Threads -> Seq(Seq(Names))] /\ todo.main # <<>>
  /\ open \subseteq {"file", "button", "sensor"}
  /\ log \in Seq(Seq(Names)) /\ (log # <<>> => opt.log)
  /\ ended \in {"no", "exit 0", "exit 1", "killed"}

\* Where the last of the given lines stands before the i-th of the entries, else 0.
LastOf(lines, entries, i) ==
  LET places == {j \in 1..(i - 1) : entries[j] \in lines}
  IN IF places = {} THEN 0 ELSE CHOOSE j \in places : \A k \in places : k <= j

\* The scale that the entries before the i-th have set, and whether they leave the
\* reports running.
ScaleSet(first, entries, i) ==
  LET set == LastOf({<<"SCALE=F">>, <<"SCALE=C">>}, entries, i)
  IN IF set = 0 THEN first ELSE IF entries[set] = <<"SCALE=C">> THEN "C" ELSE "F"

LeftRunning(entries, i) ==
  LET stopped == LastOf({<<"STOP">>, <<"START">>}, entries, i)
  IN stopped # 0 => entries[stopped] = <<"START">>

\* The log explains itself: a temperature in it is in the scale of the last command
\* before it that sets one, and the last command before it that stops or starts the
\* reports is not a STOP.
LogTellsReports ==
  \A i \in 1..Len(log), shown \in {"F", "C"} :
    log[i] = <<"temp", shown>> =>
      shown = ScaleSet(opt.scale, log, i) /\ LeftRunning(log, i)

\* No command is made up, twice obeyed or out of order: those in the log are the ends
\* of different lines that were sent, in the order in which they were.
CommandsAsSent ==
  LET commands == {i \in 1..Len(log) : Known(log[i])}
  IN \E end \in [commands -> {i \in 1..taken : opt.script[i] = "NL"}] :
       /\ \A i, j \in commands : i < j => end[i] < end[j]
       /\ \A i \in commands :
            /\ IsSuffix(log[i], SubSeq(opt.script, 1, end[i] - 1))
            /\ ~Contains(log[i], "NL")

\* A program that has shut down has said so in its log.  Unless the button was
\* pressed, that is the last the log says, it says it once, with the time before it,
\* and it follows an OFF; and no thread meets what another has closed.
ShutdownLogged ==
  /\ ended = "exit 0" /\ opt.log => Contains(log, <<"SHUTDOWN">>)
  /\ ~Pressed /\ Contains(log, <<"SHUTDOWN">>) =>
       \A i \in 1..Len(log) :
         log[i] = <<"SHUTDOWN">> => /\ i = Len(log)
                                    /\ log[i - 1] = <<"time">> /\ log[i - 2] = <<"OFF">>
  /\ ended = "killed" => Pressed

\* A press of the button ends the program, and so does an OFF that is read in one
\* piece, whatever the other thread is doing.
EndsWhenTold ==
  Pressed \/ Contains(todo.main, <<"process_input", "OFF">>) ~> ended # "no"

\* The commands in the log, and those among the lines that have been read.
Logged == SelectSeq(log, Known)
Sent == SelectSeq(Lines(SubSeq(opt.script, 1, taken)), Known)

\* Project_4B.html: a read may return a part of a line, and the program is to put
\* lines together.  When all lines that have been read have been dealt with, the
\* commands among them are in the log, as they were sent.
WholeLines ==
  opt.log /\ ended = "no" /\ ~Pressed /\ Calls("main", "gettimeofday") => Logged = Sent
=============================================================================
