# A verification project for the CS 111 laboratory programs

The repository holds the programs of an operating-systems course, one directory
per project.  They are small, but most of what makes systems code hard is in
them: threads racing over a counter and over a linked list, locks of different
grains, a terminal client, a server and a shell passing bytes to each other
through sockets and pipes, an interrupt thread that shuts a logger down, and a
reader of ext2 images with its checker.  This directory models them in TLA+,
checks the models with TLC on small instances and proves, with TLAPS, the main
results for every instance.

## 1. Inventory

| Component | State | Operations | Talks to | What is hard | What makes it correct |
|---|---|---|---|---|---|
| `Project 2A/lab2_add.c` | counter, pthread mutex, spin word, per thread: loop index and loaded value | `add`, `spinlock_add`, `mutex_add`, `cmpnswp_add`, `thread_worker`, create/join/report in `main` | threads share the counter | load and store are separate; compare-and-swap retries and ABA; locks that must be given back | mutual exclusion, no lost add, the report shows 0, the drift without a lock is bounded, the process ends |
| `Project 2A/2B SortedList.c` | fields `next`, `prev`, `key` of the elements and heads | `insert`, `delete`, `lookup`, `length` | called by the threads of `lab2_list` | links are changed one at a time; `delete` reads a link again after testing it; `lookup` has no end of its own | links agree in both directions, keys ascend, each key is there as often as inserted and not deleted |
| `Project 2A/lab2_list.c` | one list, one lock, the pool of elements | insert all, length, look up and delete all, under one lock | SortedList | two threads with equal keys delete each other's elements; exit from any thread while others run | the holder has the list to itself, no call ever fails, every protected run ends |
| `Project 2B/lab2_list.c` | `list_num` sublists, each with a mutex and a spin word | the same, one lock acquisition per operation | SortedList | the lock of the right sublist at lock, operation and unlock; lengths summed over moving sublists; `main` measures without a lock | exclusion per sublist, keys balance per sublist, the sum is within its bounds, no failure, termination |
| `Project 1B/lab1b-server.c` | socket, two pipes, the shell's pid | read socket, write to shell, ^C, ^D, read shell, harvest, SIGPIPE handler | client, shell | a client that goes away, SIGPIPE with the shell still reading, messages that arrive joined, ^C/^D inside a buffer | output reaches the client in order and complete, the server ends once the client or the shell has |
| `Project 1B/lab1b-client.c` | terminal modes, socket, log | read terminal, echo, send, log, read socket, display | server | end of the connection against last output | terminal restored on every exit, the display shows what the shell wrote |
| `Project 1A/lab1a.c` | terminal modes, two pipes, the shell's pid | copy the terminal to itself; or read terminal, echo, forward, ^C, ^D, show output, harvest, SIGPIPE handler | shell | the same, in one process | terminal restored on every exit but one, all output shown, no shell left, both end on ^D |
| `Project 4B/lab4b.c` | log file, scale, period, run flag, time of the next report | main loop, `read_input`, `process_input`, `print_current_time`, `print_current_temp`, `process_shutdown` | sensor, button, stdin | the button runs `process_shutdown` on another thread, at any moment; commands arrive in pieces | the log tells under which settings each report was made, a command is obeyed once and as sent, SHUTDOWN is logged, OFF and the button end the program |
| `Project 3A/lab3a.c` | none but the image and its own superblock | `process_superblock`, `process_groups`, `process_freeblocks`, `process_freeinodes`, `process_inode_summary`, `process_directory`, `process_indirect_block` | writes the CSV `lab3b.py` reads | three levels of pointers, zeros among them; offsets that wrap; reads past the end of the image | every pointer of every inode in use is listed exactly once, as long as block 0 is blank |
| `Project 3B/lab3b.py` | sets and tables built from the CSV | scan, block, inode and name audits | reads the CSV | reserved, duplicate and unreferenced blocks, link counts, parents of directories | together with `lab3a`: all that is wrong with an image is reported and nothing else |
| `Project 0/lab0.c` | file descriptors | redirect input and output, fault, catch, copy | - | order of failures; descriptors closed at the start; the output emptied first | how it ends tells what has become of the files |

Not programs, and not modelled: the Makefiles, gnuplot scripts, recorded
measurements, plots, shell tests and profile, and Project 4A, which holds a
README and screenshots.  The project pages (`*.html`) and READMEs are read as
what the author was asked for; no definition is taken from them.

The behaviours that are hard to test are listed, each at its line, in
`PROJECT.json` under `hazards`.

## 2. Plan

The order in which the project was built, the most important behaviour first.

1. **Shared counter**: `SharedCounter` (abstract), `Lab2Add` (implements it),
   proofs in `Lab2AddProofs`.
2. **Lists**: `SortedList` with one action per statement, and the two programs
   over it, `Lab2aList` and `Lab2bList`; proof of the lock discipline of 2B in
   `Lab2bListProofs`.
3. **Client, server and shell**: `Lab1b` composes the three processes over a
   connection and two pipes: shut-down order, ^C, ^D, loss of the client,
   compressed messages that are joined.  Proof of the order in which the three
   end in `Lab1bProofs`.
4. **Terminal and shell in one process**: what `lab1a.c` and `lab1b-server.c` do
   to a shell is the same code, and is in `ShellHost`, which both use; `Lab1a`.
5. **Temperature logger**: `Lab4b`, the main loop, the command reader and the
   button's thread.
6. **File system**: `Lab3a` and `Lab3b`, and `Lab3`, which runs one on the other's
   output and compares the audit with its definition on the image itself.
7. **Files**: `Lab0`.
8. **Proofs**: beside those named above, the lock discipline of 2A in
   `Lab2aListProofs`, the order of the shell's input in `Lab1aProofs`, and the copy of
   `Lab0`; then, in `SortedListProofs`, what the four list functions do to a
   list of any length, and on it all safety properties of the two list programs;
   `ShellHostProofs`, and on it the safety properties of `Lab1a` and `Lab1b`; and last the
   safety properties of `Lab4b`, which are with those of `Lab0` in `Lab0Lab4bProofs`.

Open: the invariants of `Lab3` are only model-checked (section 5 says what a proof
would take).

## 3. Modules

| Module | Role |
|---|---|
| `SharedCounter` | What a counter shared by threads promises: each thread alternately adds 1 and -1; an indivisible add is applied to the total of the moment, a divisible one to a total that the thread has seen since its last add |
| `Lab2Add` | `lab2_add.c` statement by statement; refines `SharedCounter` |
| `Lab2AddProofs` | Theorems about `Lab2Add` |
| `SortedList` | `SortedList.c` statement by statement: memory and call frames, extended by the two programs |
| `SortedListProofs` | What the list functions do to a list of any length, shared by the proofs of both programs |
| `Lab2aList` | `Project 2A/lab2_list.c` |
| `Lab2aListProofs` | Theorems about `Lab2aList` |
| `Lab2bList` | `Project 2B/lab2_list.c` |
| `Lab2bListProofs` | Theorems about `Lab2bList` |
| `ShellHost` | What Projects 1A and 1B share: the user, the shell and its pipes, and the loop of the process that runs the shell, with the properties of the bytes |
| `ShellHostProofs` | What flattening, the display and a step of the shell or of its host do, shared by the proofs of both programs |
| `Lab1a` | `lab1a.c`, with and without `--shell`, over `ShellHost` |
| `Lab1aProofs` | Theorems about `Lab1a` |
| `Lab1bSession` | The TCP connection, modelled from how client and server use it, and all variables of a session |
| `Lab1bClient` | `lab1b-client.c` |
| `Lab1bServer` | `lab1b-server.c`, over `ShellHost` |
| `Lab1b` | Client, server and shell composed, and the properties of a session |
| `Lab1bProofs` | Theorems about `Lab1b` |
| `Lab4b` | `lab4b.c`, with the sender of commands, the button and the clock |
| `Lab3a` | `lab3a.c`: the calls it makes and the rows it prints |
| `Lab3b` | `lab3b.py`: the audit of those rows |
| `Lab3` | The two in sequence; what an audit should find, defined from the image; the properties of both |
| `Lab0` | `lab0.c` over a table of descriptors |
| `Lab0Lab4bProofs` | Theorems about `Lab0` and about `Lab4b`, which are short enough to stand together |
| `MCLab2Add`, `MCLab2aList`, `MCLab2bList`, `MCLab1a`, `MCLab1b`, `MCLab4b`, `MCLab3`, `MCLab0` | Constants for TLC |

Operators that are named "Mutant of X" stand before the definition X of the
code they distort.  No specification uses them: replacing X by its mutant gives
the program a plausible bug, and shows that the property the mutant is paired
with in `PROJECT.json` finds it.

### How the state corresponds to the code

The programs of Projects 2A and 2B:

*Granularity.*  The Makefiles give no optimisation option, so each C statement
is compiled on its own and shared variables are read and written where the
statement says.  A step of a model is one such statement.  No statement makes
more than one shared write; the loads of one statement are taken together.
Memory is sequentially consistent: accesses that race without a lock on a
machine with a weaker order are outside the models (on x86, where the programs
were run, the locked instructions of the locks order everything the protected
properties speak of).

*Program counters.*  `pc[t]` names the statement or the phase of
`thread_worker` thread `t` is in; in the list programs `frame[t].at` is the
statement inside the list function that it, or `main` (thread 0), has called.

*Options.*  `opt` is the parsed command line and is drawn from the constant
`CommandLines`.  `--yield` only calls `sched_yield` between statements that may
be separated anyway, so it adds no behaviour and is left out.  `--sync` with an
argument the programs do not know is accepted by them: `lab2_add` then does
nothing at all ("other"), the list programs run without locks ("none").

*Locks.*  A pthread mutex is the number of its holder, a spin lock the word the
code tests and sets.  A test-and-set that finds 1 changes nothing and is not a
step of its own.

*Memory.*  Elements are 1, 2, ..., heads -1, -2, ... and `NULL` is 0.  The pool
comes from `malloc` at program start, on pages the system has just cleared, so a
field that is read before it was ever written holds `NULL`.  A dereference of
`NULL` raises SIGSEGV, which `segHandler` turns into `exit(2)`.

*Keys.*  The programs compare keys and, in 2B, take the first character
modulo `--lists`; a key is a number.  Which keys `rand` yields is a constant,
`KeyStreams`.

*Failures of library calls.*  `main` exits with 1 when a library call of its own
fails, which may happen at any time (`SystemCallFails`); nothing makes it happen.

*Left out.*  The clock, the run time and the time waited for locks, and the
wording of the records.  The divisions by the number of operations and by the
number of lists are kept: with 0 they end the process by SIGFPE.  Negative
arguments make `malloc` fail or the loops empty, and are not given to the
models.  The array `keys` has room for 32 pointers, and keys have no terminating
zero: what the programs do with more elements, or when `strcpy` runs beyond a
key, depends on the allocator and is outside the models.

`SortedList!LengthStep` stops counting one above the number of elements
(`LengthCap`), so that a traversal of a cyclic list, which an unprotected run
can produce, stays in a finite number of states; no property looks at a length
of such a run.

The programs of Projects 1A and 1B:

*Steps.*  A process with one thread is seen by others only through its reads,
writes, polls, closes and its end, so a step is one of those with the local
work around it.  `client` and `host` name the place in the loop that comes
next (`host` is the process that runs the shell: `lab1a`, or the server); what
the last `poll` said is part of the place (`client`) or kept in `pipe_event`
(`host`), because the code acts on it after the world may have changed.  The
host handles what it has read byte by byte, and each byte is a step, because
the shell runs meanwhile; a loop over what is displayed is one step, because
nobody else sees the screen.

*ShellHost.*  Its actions speak of its own variables only; `Lab1a` and
`Lab1bServer` join each to what the program does besides: the terminal's modes
in one, the connection in the other.  `Poll` is told whether the program's own
input is readable.  `HostEnds` closes the pipes, as the end of a process does.

*Bytes.*  x, CR, LF, ETX (^C) and EOT (^D) are the bytes the code tells apart.
The programs echo what they read, and the client logs what it sends and receives; both copy
bytes that are kept elsewhere and are left out.

*The connection.*  `sock[e]` is what end `e` can observe: open; "fin", the other
end has closed; "reset", it has closed without reading all; "shut", the error
has been reported or a write has gone to a closed end, and every further write
raises SIGPIPE.  The client connects to "localhost" only, where the system
delivers a segment, or the reset that answers it, before the call returns.  A
read returns all that waits (the buffers are larger than all that is sent).  The
shell inherits the server's socket, so the connection ends when both are gone.
`poll` reports POLLIN of a closed or reset connection together with POLLHUP, so
the branch at lab1b-client.c:247 is never taken.

*Compression.*  Each write is one compressed message.  A read that returns two of
them is inflated as one; zlib then reports an error with input left over, and the
loops at lab1b-client.c:221 and lab1b-server.c:148 never end ("inflating").  A
read of -1 bytes is taken for 2^32 - 1 bytes: the same, or a fault ("killed").

*The shell* reads a byte at a time, runs a command for each line, and ends with
its input, by a command, or by SIGINT, which during a command takes effect with
the command or is over with it.  `written` and `fed` are histories, kept for the
properties.

*Failures.*  `ClientFails`, `ServerFails` and `SystemCallFails` are the library calls
whose failure the code looks at; `ExecFails` is a child that cannot run the shell
and writes a message into its output instead (in `lab1a` it also tries to restore
the terminal, but its descriptor 0 is the pipe by then).  The result of `bind` is not looked at: when it fails, the
system lets the server listen on another port, where no client comes
("elsewhere").  `HangUp` is what `poll` reports as POLLHUP without POLLIN; without
`--log` `logfd` is 0, so the terminal is closed before it is restored.

*Left out.*  The sizes of compressed messages (a deflated or inflated message
that outgrows its buffer), a zlib that cannot allocate, pipes that are full,
ISTRIP, signals sent to the client from outside.

`lab4b.c`:

*Threads.*  The interrupt of the button runs `process_shutdown` in a thread of the
mraa library, beside the main thread.  A thread is the sequence of calls it has
still to make, `todo[t]`, and a step is one call: a read of the clock, one line
into the log, one close, one command.  A round of the loop puts its calls there;
`process_shutdown` replaces all that was there, since it does not return.

*Text.*  Input is a sequence of pieces and line feeds; a piece is what the code
tells apart ("SCALE=F", "PERIOD=", "2"), so that a command may consist of two
pieces and be sent in two.  `Lines` is what one `read` makes of its text: one line
for each of its line feeds, from the one before (`Feeds`, and `Feed` for the n-th).
`strcmp` is equality of sequences, `strstr` is `Contains`.

*The log.*  `log` is what has been handed to the file; the display gets the same
but for the commands.  A thread that uses the file after `fclose`, or the sensor
after it is closed, may be lucky or may crash ("killed"): undefined behaviour is a
choice between the two.

*Left out.*  The conversion of the temperature, the wording of times, option
errors, `--DUMMY`, lines longer than the buffer, `exit` running its handlers while
the other thread goes on.

`lab3a.c` and `lab3b.py`:

*Calls.*  `calls` is the stack of calls `lab3a` has still to make, the running one
first; a recursive call or a call in a loop is put in front of the rest.  One
round of the walk over a directory block is one step, because it may go on for
ever.

*Images.*  An image is a record of what the program reads of it: the numbers of
the superblock, each group's bitmaps as sets of free bits, the inodes, and what
its blocks hold when read as a directory or as pointers.  Byte offsets are
computed in 32 bits (`Place`).  A read past the end of the image returns nothing
and leaves what was in the buffer: a block read earlier, or zeros.  The program reads
block 0 as pointers for each zero in a double or triple indirect block; most images
have nothing there, some have a boot block.

*Rows.*  A row has the columns that `lab3b` reads.  Names are printed between
quotation marks (`Quoted`), which matters: `lab3b.py:75` compares them with "."
and ".." without the marks, and so its table of parents also holds the entries
"." and "..".

*Tables.*  The dictionaries of `lab3b.py` are functions of the rows; the order of
the rows matters only for the first row that names an inode and for the first
INODE row, and is kept there.  Complaints are a set of kinds and subjects.

*Left out.*  The columns nobody reads (times, modes, sizes), logical offsets in
complaints, names longer than `name_len`, images with another block size or
more than one group (the code computes the block size, `lab3a.c:24`, before it has
read the superblock, and so takes 1024 for all).

`lab0.c`: `fd` is the table of descriptors, each with its file and position;
`Redirect` is open, close, dup and close on it, with the rule that the lowest
free number is taken, so that descriptors 0 and 1 closed at the start do what
they do in the program.  Whether a file can be opened, whether a read or a
write fails, and whether the standard output is a pipe that nobody reads (SIGPIPE), is
left open.

## 4. Runs

| Run | Question | Bounds | Result |
|---|---|---|---|
| `lab2_add` | Do the three `--sync` options keep every add, does an unprotected counter stay within the number of adds, does the program end? | every option with up to 2 threads and 2 iterations, 3 threads with 1, no threads, no iterations | holds |
| `lab2a_list` | Does one lock around `thread_worker` keep the list well formed and complete, does no lookup or delete ever fail, do protected runs end? | both locks with 2 threads of 2 elements and 3 threads of 1; one thread of 3; 2 racing threads; empty runs; 3 keys in all patterns of equality and order | holds |
| `lab2b_list` | Do the locks of the sublists, taken for each operation, do the same when threads share sublists and keys? | 2 threads of 2 elements over 2 sublists and over 1; one thread of 3 over 2 sublists; 2 racing threads; empty runs; no sublists; keys equal, different in one sublist, and in two | holds |
| `lab1b` | Does a session pass all bytes on in order, lose no output at the end, end server first, and does everybody exit once the shell is gone or its input closed? | five scripts of up to three bytes with lines, ^C and ^D in the middle and at the end; up to three bytes of output and one write beyond, with a ^D or without; with and without `--compress` and `--log`; hang-up and failures at any time | holds |
| `lab1b_restore` | Does a client whose server has ended restore the terminal? | the same, not compressed | violated: see below |
| `lab1b_follow` | Does the server end when the client is gone? | as `lab1b` | violated: see below |
| `lab1a` | Do terminal and shell get each other's bytes in order, is the terminal restored and no shell left when the program ends, do both end on ^D or with the shell? | five scripts of up to four bytes with lines, a ^C or a ^D in the middle and at the end; up to three bytes of output and one write beyond, with a ^D or without; with and without `--shell`; hang-up and failures at any time | holds |
| `lab4b` | Is the log true to the reports and the commands, is a shut-down logged, do OFF and the button end the program? | three inputs of up to three lines cut anywhere; both values of `--scale`, with and without `--log`, a report in each round or each second; the clock up to 1 second, no new report when the log has 4 entries; button at any moment | holds |
| `lab4b_split` | Is a command obeyed however it is cut? | the same | violated: see below |
| `lab3` | Is every pointer of an image listed once, and every inconsistency, and nothing else, reported; do both programs end? | 24 blocks, 16 inodes, 2 pointers in a block, a root, a subdirectory behind an indirect block, a file with all three levels and zeros in them; sound, with a boot block, with equal entries, with a block used twice by a directory, with a directory below one of a higher number, and with a block of the root beyond the image; with 25 kinds of damage, and with two at once (107 images) | holds |
| `lab0` | Does the way the program ends tell what has become of the files? | two files and the standard input of up to two bytes, all options, input and output the same or not, descriptors 0 and 1 open or closed at the start, failures anywhere | holds |
| `lab2a_record` | Is a results record only printed for an empty list, as the project's page wants? | 2 racing threads | violated: see below |

The bounds let the cases the hazards name happen: two threads inside `add` at
once, a compare and swap that fails and one that succeeds after another thread
has added 1 and -1 (two iterations), three threads queueing for a lock, two
elements with one key owned by different threads, an insert before, between and
behind existing elements (three elements), a sublist that a thread visits while
the other works on the second one.

In `lab1b` the client polls while output and the end of the connection are
both under way, types into a connection the server has closed (once, and once
more), and the server meets data, hang-up, SIGPIPE of the socket and SIGPIPE of
the shell's pipe.  Scripts of three bytes leave something before and something
after each control byte, read in one piece or in several; an output of three
bytes makes two messages.

In `lab4b` the clock needs only one tick for a report to be due in a later round
or not, and with a period of 0 every round reports; four log entries are two
reports, enough for one before and one after a command.  A button press may
come between any two calls of a report, a command or the other shut-down.  In
`lab3` two pointers to a block are enough for a zero before, between and after
used ones on each level; the damage includes pointers that are too large,
negative, reserved, used twice (by the inode itself, by a block of pointers, by
a data block) and beyond 2^32 bytes, bitmaps with a bit too many or too few,
wrong link counts, entries of inodes that are free or do not exist, wrong "."
and "..", an entry without a length, a symbolic link without columns.

*What the properties say.*  `NoLostUpdate` counts, from the threads' progress
alone, what the counter must be at every moment.  `RefinesSharedCounter` says
the same of the steps, and, for unprotected runs, that a racing add still stores
a value one off a total that its thread has read since its last add (`seen`).
`DriftBounded` follows what lost adds can add up to.  `KeysBalance` compares the list with what the threads
have inserted and deleted, per key, because threads that share a key may delete
each other's elements; it also demands well-formed links.  `LengthIsOwn` and
`LengthCountsOwn` say what the length seen by a thread can be.  `NeverCorrupt` is
the absence of all failures the program itself detects.

`OutputInOrder` and `InputInOrder` compare the far end of each direction with its
near end.  `NothingLostAtEnd` is what the shut-down order is for: a client that
sees an orderly end has shown everything.  `ShutdownOrder` says who may be left
when someone ends.  `ClosingEndsAll` is the liveness of a session that is
closing; it excuses (`Stranded`) a process caught in the loop around `inflate`
and a server that has closed the shell's output because of a ^D in it and so
cannot see the shell end, both of which the code does not come back from.

`LeftBehind` is what the user of `lab1a` is left with: terminal modes, output and
shell on every exit.  `EndOfInputEnds` is its liveness; it excuses the program
that has closed the shell's output on a ^D in it and polls for ever.

`LogTellsReports` relates each report in the log to the commands logged before it,
however commands, reports and the button interleave.  `CommandsAsSent` finds for
the commands in the log different lines that were sent, in order, each with the
logged command as its end: a command may lose its start to a split read, but
none is made of parts of two.  `ShutdownLogged` says what the end of the log looks
like, and that only a button can make a thread meet what another has closed.

`EveryPointerListed` compares the rows with all paths of pointers in the image, as
bags: no pointer is missing, and none is listed too often but those that block 0 leads
to (`HeldByBlock0`; a blank block 0 leads nowhere).  `AuditAgrees` compares the audit
with `BlockFindings`, `InodeFindings` and `EntryFindings`, which are defined from the
image without any rows.  What the programs take for granted is named: `Plain` (one
group, whole bytes of bitmap, an inode in use has its bit and its columns) and `Readable`
(the blocks can be walked) are needed for both; a blank block 0 for the equality,
without which only the complaints about wrong pointers are claimed; and `ParentFirst`
(the directory has one parent, whose row is the first to name it) for what is said of its
"..", which is wrong otherwise (see below).  `Ends` speaks of every image, readable or
not: only at an entry that may have no length can a walk stay for good (`NoWayOn`), and
nothing else keeps the programs from ending.  A directory block beyond the end of the
image has what was read before, and any entry may come in every round; the run has one
image of that kind, a small one.
`EndingTells` relates how `lab0` ends to the contents of all files before and after.

*Findings.*  `lab4b.c:126` starts each read with an empty command, so a command
that arrives in two reads loses its first part, and the second is obeyed as if
it had been sent alone, where `Project_4B.html:202-204` asks the program to buffer
its input.

`lab1b-client.c:173` writes to the connection without a handler for
SIGPIPE: a user who types on while the server ends makes the first write go to a
closed connection and the second kill the client, with the terminal raw;
`Project_1B.html:130` and `219` want the modes restored.  `lab1b-server.c:132`
takes a read of 0 bytes for data, so a server whose client is gone spins and the
shell stays, where `Project_1B.html:167-169` wants the pipe to the shell closed,
and the shell awaited and reported.  (A server that instead gets SIGPIPE, because
the shell had more to write, waits in its handler for a shell that waits for
it: the same property covers it.)

`lab2_list.c:175` of Project 2A complains about a final list that
is not empty and goes on to print the record and to exit with 0;
`Project_2A.html:521-525` asks for an error message and an immediate exit
without the record.  Two threads without `--sync` get there: both look up a key they
share, find the same element and delete it, each believing to have deleted one, and
the other element stays.  (The program of Project 2B exits with 2.)

*Other disagreements*, seen while modelling, that the models follow the code in:

* `lab1a.c:41`: the handler of SIGPIPE exits without `terminal_restore`
  (`LeftBehind` leaves that exit out), and the comment at line 143, that closing
  the pipe "will trigger POLLHUP", is wrong: `poll` reports POLLNVAL, which no
  branch looks at.
* `lab1b-client.c:221` and `lab1b-server.c:148` inflate all that one read returns as one
  message.  When two compressed messages have come together, the loop never ends, where
  `Project_1B.html:218-219` wants the client to display what is left and to exit.
  `ClosingEndsAll` excuses sessions with a process in that loop.
* `lab4b.c:61-71`: `Project_4B.html:137-141` wants the final sample to be the last
  line; when the button is pressed in the middle of a report, the report's
  temperature may follow SHUTDOWN in the log.  `lab4b.c:73-116` does not log
  invalid commands, which line 217 of the page asks for.
* `lab3b.py:169` and `183-187`: the `exit_code` that is tested is never set, so the
  exit status is 0 whatever was found; `Project_3B.html:302-304` wants 2.
  `lab3b.py:75` excludes the names "." and ".." from the table of parents without
  their quotation marks, so it excludes nothing: a directory with a lower number than
  its parent is named first by its own ".", and its correct ".." is complained about,
  where `Project_3B.html:265-269` asks for a message for each inconsistency
  (`AuditAgrees` leaves out such directories, by `ParentFirst`).  `lab3b.py:43` ends with
  an exception at a row without columns, `lab3b.py:164` at a directory that no row
  names.  `lab3b.py:58` gives offset 0 for every direct block.
* `lab3a.c:85` goes down for zero pointers too and so reads block 0 as pointers: with a
  boot block there, the summary has pointers that no inode has, where
  `Project_3A.html:425` asks for the non-zero pointers of the indirect blocks
  (`EveryPointerListed` allows those that block 0 leads to).
* `lab3a.c:24` computes the block size before the superblock is read; line 93
  gives wrong logical offsets above the first level; line 44 leaves out the
  bitmap's last bits when the blocks of a group are no multiple of 8; line 187
  never looks at inodes the bitmap calls free, so that `lab3b`'s complaint about
  allocated inodes on the free list cannot come from a summary of `lab3a`; line 71
  prints the name up to its first zero and not up to `name_len`.
* `lab0.c:101` and `106` exit with `errno`, which may be 2, 3 or 4, the codes of
  other endings, and which the `fprintf` before may have changed.

*Fairness.*  For Projects 2A and 2B, `WF` for `main` and for every thread: the operating system
eventually runs every thread that can run.  Nothing is assumed of the locks.
Weak fairness is enough because every thread takes each lock a bounded number
of times, so a waiting thread finds it free for good in the end; the retry of
the compare and swap ends because each failure is another thread's success, and
those are bounded too.  `SystemCallFails` has no fairness.  The termination of
unprotected list runs is not claimed: they can loop over a cyclic list.

For Projects 1A and 1B, `WF` for the steps of the client and of the host, for the
shell's reading and its end, and for the end of every command: processes are
scheduled and commands are assumed to finish.  The user need not type or hang
up, a command need not write, and nothing need fail; `Lab1a` and `Lab1b` are therefore
checked without the deadlock check, a session in which nobody types being at rest.

For Project 4B, `WF` for each of the two threads; the sender, the button and the
clock owe nothing.  For Project 3, `WF` for each program: a sequential program runs
on.  `Lab4b`, `Lab3` and `Lab0` stop when the program ends, and are checked without the
deadlock check; that they do not stop elsewhere is what `EndsWhenTold` and `Ends`
are for.

## 5. Proofs

Those of Project 2 are proved for any set of command lines, hence any number of
threads, iterations and lists, and any keys, under the assumptions
`CommandLinesAssumption` and, for 2B, `KeysAssumption` (the arguments are natural
numbers, and a stream has a key for each element of the pool); the others
under `ShellHostAssumption`, `SessionAssumption`, `Lab0Assumption` and `Lab4bAssumption`,
which say that scripts, outputs and files are finite sequences of bytes or pieces, that
no file has the name of a mark, that periods are integers, and that the clock and the
log of `Lab4b` are bounded by natural numbers.  The proofs use no value of those two
bounds.

`Lab2AddProofs`
* `TypeCorrect`, `Mutex`: the inductive invariant `IInv` is the type invariant,
  mutual exclusion, `LoopInv` (a thread inside an add is below the loop's bound,
  and only the statements its `--sync` option leads to are reached) and
  `FreshLoad` (a thread between load and store under a lock has loaded the
  counter's present value).  Mutual exclusion alone is not inductive: without
  `LoopInv` a thread might be at an unlock it did not lock for.
* `Refinement`: `lab2_add` implements `SharedCounter`.  What a thread has loaded and not
  stored yet is what it has seen.  `SilentStep` shows that steps that leave the counter's
  view alone stutter, `LookStep` that a load is a look, `ForgetStep` that a failed compare
  and swap gives up what was seen, and `AddStep` that a store or a successful compare and
  swap is one add, to what was seen; `FreshLoad` makes the adds under a lock
  indivisible.
* `NoUpdateIsLost`: carried by the abstract counter's steps: an add takes one
  thread into or out of `Outstanding`, and the cardinality follows.
* `ReportsZero`: with `JoinInv` (joined threads are done, and nothing reports
  before all are joined) nobody is outstanding when a protected run reports.

* `DriftIsBounded`: without synchronization, the counter stays within the number of
  adds.  `DriftInv` says of the counter *and of every value that some thread has
  loaded and not stored yet* that it is not above the number of calls that have
  added a 1, nor below minus the number that have added a -1 (`UpCalls`, `DownCalls`,
  whose cardinality grows with each store); the counter alone is not enough,
  because a stale load comes back.

`SortedListProofs` (for lists of any length, any keys and any number of lists)
* A list is a *chain* (`Chain(h, n, c)`): a sequence of n distinct elements from the
  head's `next` to the `NULL` after the last, with ascending keys; whether the `prev`
  fields agree is a separate part (`Linked`), because they do not in the middle of
  an insert or a delete.
* Each function has a predicate that says, statement by statement, where on the chain
  its locals are and which links are still out (`Inserting`, `Deleting`, `Looking`,
  `Measuring`), and a lemma that a statement keeps it and writes nothing outside the
  list (`InsertCall`, `DeleteCall`, `LookupCall`, `LengthCall`): the element is a
  member as soon as `insert` has linked it in, and until `delete` has unlinked it.
  `ChainInsert` and `ChainDelete` build the chain after the step.
* `ChainIsWellFormed` shows that the walk of `SortedList!Walk` goes along the chain, so that
  `WellFormed` and `Contents`, which the runs check, are what the chain says.
  `WalkIsChain` needs the value of a recursive function at every position, and
  `LeastElement` gives it: if it failed somewhere, it would fail at a least position.
* The *books* (`Balanced(M, I, D)`): of each key the members of the list are as many as the
  inserted elements less the deleted ones.  They are kept per key, since a thread may
  delete another's element in place of its own (`BalanceDelete`, `BalanceSize`).
* `Serving(t, kind, h, I, D, e)` joins all this for a thread in function `kind`: there is a
  chain, the function's predicate and the books hold.  The programs' proofs use its lemmas
  only: `ServingCalled`, `ServingStep`, `ServingDeletes`, `ServingReturned`, `ServingKept` (a
  step elsewhere), `ServingResult` and `ServingWellFormed` (what it gives).

`Lab2aListProofs`
* `OneAtWork`: `IInv` holds the types of the lock, `JoinInv` (`main` is in the list only
  when all threads are joined), `IdleInv` (a thread is inside a list function only
  while it works) and `LockInv` (one thread works, and the lock says so).  A step
  begins the work of a thread, ends it, or is part of it (`BeginStep`, `EndStep`,
  `WorkStep`); `ListStepFrame` shows that the list's statements move one frame only,
  whatever they find in memory.
* `TypeCorrect`: `PcInv` says which statements a thread may be in at each label; it holds of
  unprotected runs as well.
* `KeysAlwaysBalance`, `LengthAlwaysOwn`, `NeverAnyCorrupt`: the inductive invariant is
  `Served`: in a protected run the thread at work, or `main` if there is none, serves the
  list, with what all threads have inserted and deleted (`Entered`, `Left`) as its books.
  None of the three is inductive, as they speak of the list between calls only, and
  of results.

`Lab2bListProofs`
* `SublistMutex`: `IInv` holds the types of the lock arrays, `InLoop` (a thread
  that holds a sublist still has an element, or a sublist, at its index),
  `JoinInv` (`main` measures only after all threads are done) and `LockInv`.
  Each step of a thread is one of three kinds - it takes a lock, gives one back,
  or touches none - and a lemma for each kind (`AcquireStep`, `ReleaseStep`,
  `NoLockStep`) shows that the kind keeps `LockInv`; the main lemma sorts the
  actions into the kinds.
* `TypeCorrect`: as in 2A.
* `KeysAlwaysBalance`: `Attended` says of every sublist that its holder, or `main`, serves it,
  with the elements that hash to it as its books.  A step of another thread keeps it
  because it writes in the `Territory` of one sublist only, and those are apart
  (`AtWorkKept`, `ElsewhereAttended`).
* `LengthAlwaysCountsOwn`: `TotalOf` bounds the sum while it grows: after n sublists it is at
  least the thread's own elements in the first n, which nobody deletes before the
  thread looks them up (`OwnUndeleted`), and at most the elements of the pool there.
* `NeverAnyCorrupt`: from both, and `AllDone`: when all threads are done as much is deleted
  as inserted, so that `main` adds up 0.

`ShellHostProofs` (for outputs of any length)
* `FlattenSeq` of the community modules is a fold, a function that is defined by itself.
  `JoinExists` shows by the least length without one that every sequence of sequences
  has a *join* (the function from positions to what has been joined so far), `JoinUnique`
  that it has one only, and `FlattenIsJoin` that the fold gives it.  What the proofs need
  follows: `FlattenAppend`, `FlattenConcat`, `FlattenSingletons`, `FlattenNonEmpty`, and for
  the display `ScreenConcat` and `ScreenPrefix`.
* `HostInv` holds the types of what the shell and its host share, and `PollTold`: what `poll`
  has said is still so when the host acts on it, because only the host reads the pipe and
  a shell that is gone stays so.  Without it a hang-up might be acted on with output left.
* `Coming` is what has been written and is still to be passed on, in the host's buffer and
  in the pipe.  `ShellKeepsHost`, `ForkKeepsHost`, `RoundKeepsHost` and `EndKeepsHost` say what
  each kind of step does to it; both programs' proofs use these only.

`Lab1bProofs` (for any scripts, outputs and settings of `--compress`)
* `EndsInOrder`: `IInv` adds to `ShutdownOrder` the type of `sock`, `Connected` (where
  the client has a connection) and `PeerGone`: a connection the client sees
  closed or reset was closed by the last of server and shell.  `ShutdownOrder`
  alone is not inductive, because the client's end depends on what the
  connection says, long after the other two have ended.  A lemma for each
  operation on the connection (`ClientCloses`, `ServerCloses`, `WriteKeeps`) and
  one for each process keep it.
* `ShownInOrder`, `NothingLost`: the inductive invariant is `SessionInv`, whose core is
  `Delivered`: what is displayed, what has arrived at the client and the rest make up
  what the shell has written.  While the connection carries (`Carrying`: the client still
  displays, the server's end is open, and it holds the pipe) the rest is `Coming`; after
  that it may be anything, as it is lost, unless the server has ended because the shell
  has: then it is nothing.  `NothingLostAtEnd` follows at the step in which the client sees
  the end, since `PeerGone` tells that the server had not closed before.
* `FedAsTyped`: the same in the other direction.  `Ahead` is what has been sent and is
  still to be passed on, in messages and in the server's buffer; as long as the server
  will pass on what comes (`Going`) the session is in one of the two phases that are
  described for `Lab1a` below.  A client that can no longer send is one whose server has
  ended, again by `PeerGone`, so that no byte is missing in the middle.
* `TypeCorrect`: `SessionInv` and `IInv` hold every type; that no message is empty
  (`InboxTypes`) is why a server that passes bytes on has some.

`Lab1aProofs` (for scripts and outputs of any length)
* `FedAsTyped`: while the pipe is open the program is in one of two phases.  In
  `Verbatim` what has been fed and what is still in the buffer are together all
  that was read, in the order of the script; in `Interrupted` the first ^C has come, and
  anything may be missing from there on.  A ^D closes the pipe and ends both.
  `FedInv` keeps what has been fed, and `PlaceInv` says in which places the pipe may be
  open.  `CleanBytes` rests on the least element of a set of positions (`Least`).
* `ShownInOrder`, `LeftInOrder`, `TypeCorrect`: the inductive invariant is `SessionInv`, whose
  core is `Displayed`: what is displayed and the rest make up what has been written, and
  the rest is `Coming` while the program holds the pipe.  A hang-up of the pipe is acted on
  with nothing coming (`PollTold`), so a harvested shell's output has all been shown.
  That the handler of SIGPIPE exits only after a byte was read that no shell got
  (`LeftBehind`) takes the counts of `FedInv`.

`Lab0Lab4bProofs`, on `Lab0` (for files of any length)
* `CopyIsTrue`: `RedirectTo` shows that open, close, dup and close leave the target on
  the file or closed, with whatever descriptors the program was started; `FdInv`
  carries that to the copy, and `CopyInv` says that the output is the input up to the
  position of the last read, but for a byte in hand, and empty when the two are one
  file.
* `CopyTyped` follows from the same invariant.

`Lab0Lab4bProofs`, on `Lab4b` (for any inputs, cut anywhere, any periods, and the button
at any moment).  The names of `Lab0` and `Lab4b` are kept apart (`Spec0`, `lab0Vars`,
`Lab0TypeOK`), since one module extends both.
* `TypedAlways`, `LoggerTyped`: a variable that holds the calls a thread has still to make
  may hold any sequence; `Todos` lists those it does hold: a report, or its rest; the
  lines of one read and then the clock (`Obeying`); a shut-down, or its rest.  `Fresh` says
  what has not happened before the start, and `Values` has the other types.  All else
  builds on `Typed`, the three together.
* `LogIsTruthful`: `LogTellsReports` speaks of the log, the program looks at `scale` and
  `status`.  `Settings` joins them: as long as the file is open the two are what the
  log's commands make them, and a report that is under way was begun while running.
  The button's thread writes between the two, but no command and no temperature, and
  what it closes the main thread cannot write to: it is lucky and nothing is written, or
  it ends.  `EntryTruthful` is the lemma about one more entry.
* `ShutdownIsLogged`: each of the three parts of `ShutdownLogged` speaks of an end, and
  `Farewell` of the way there: a thread that is past the SHUTDOWN in its shut-down has
  written it (the file is not closed before it is written, by either), and, without the
  button (`Alone`), what the main thread uses is open, an OFF is the last entry when the
  shut-down begins and the time follows it, and nothing was said before (`ToldOnce`).
* `LoggedAsSent`: a command is in the log only after it has waited among the calls, so
  the invariant `AsSent` chooses a line feed for each command in the log *and* for each
  line that waits: those ascend, the log's before the waiting ones, and all have been
  read.  Obeying a line moves its line feed from one function to the other (or drops it,
  when the line is no command or the log is closed); a read chooses new ones behind all that
  were read before.  `NthPlace` shows from a least position that a set of n positions has
  an n-th one, `FeedsInOrder` that the line feeds ascend, and `LinesFound` what `Lines` cuts
  out between them.

With these, every invariant that a passing run checks is proved, but for three of `Lab3`,
and so is the refinement `RefinesSharedCounter`.

Only model-checked:

* What is promised under fairness: `Termination` of the three programs of Project 2,
  `ClosingEndsAll`, `EndOfInputEnds`, `EndsWhenTold` and `Ends`.  Liveness is beyond the prover.
* `TypeOK`, `EveryPointerListed` and `AuditAgrees` of `Lab3`.  The two last compare what a
  program with a stack of calls prints with a count over all paths in an image, and
  what another program makes of those rows with findings defined without them.  A proof
  needs an invariant that counts, for the rows printed and the calls pending at any
  moment, each pointer once, hence sums over trees of calls three levels deep; and the
  definitions take elements out of sequences with `SelectSeq` and put sets in order
  with `SetToSortSeq`, of which the prover knows nothing.  `TypeOK` meets the same
  operators, in the rows of the free blocks and in the choice of an inode's
  pointers.
* The properties that runs show to be violated.
