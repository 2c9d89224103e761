------------------------------ MODULE SortedList ------------------------------
(***************************************************************************)
(* Projects 2A and 2B, SortedList.c: the doubly linked list that the       *)
(* threads of lab2_list share.  The module holds the memory of the lists   *)
(* and one call frame per thread, and has one action for each statement of *)
(* the four functions that touches the memory, so that without a lock the  *)
(* functions of two threads interleave between any two statements.  A      *)
(* statement writes at most one field.  The programs that call the         *)
(* functions, Lab2aList and Lab2bList, extend this module.                 *)
(*                                                                         *)
(* Memory.  The n elements of the program's pool are numbered 1..n and the *)
(* list heads -1, -2, ...; NULL is 0.  A list ends in NULL (the comment in *)
(* SortedList.h calls it circular; the code does not make it so) and its   *)
(* head's prev is never read.  The key of an element is a number: strcmp   *)
(* only orders and equates keys.                                           *)
(***************************************************************************)
EXTENDS Integers, FiniteSets

VARIABLES
  next,   \* next[p]: the field next of node p
  prev,   \* prev[e]: the field prev of element e
  key,    \* key[e]: the key of element e, never assigned after start-up
  frame   \* frame[t]: the list function thread t is in, and its locals

memory == <<next, prev>>

NULL == 0

Elements == DOMAIN key
Heads == DOMAIN next \ Elements

\* A traversal counts no further than this, one more than the list can hold.
LengthCap == Cardinality(Elements) + 1

-----------------------------------------------------------------------------
(***************************************************************************)
(* Calls and returns.  at is the statement the thread is about to execute; *)
(* the key that lookup searches for is that of element.                    *)
(***************************************************************************)
Frame(at, list, element, ret) ==
  [at |-> at, list |-> list, element |-> element,
   temp |-> NULL, prv |-> NULL, ret |-> ret]

NoCall == Frame("idle", NULL, NULL, 0)

Call(t, function, list, element) ==
  frame' = [frame EXCEPT ![t] = Frame(function, list, element, 0)]

Idle(t) == frame[t].at = "idle"
Returned(t) == frame[t].at = "returned"
Faulted(t) == frame[t].at = "fault"

Leave(t) == frame' = [frame EXCEPT ![t] = NoCall]

Return(t, value) ==
  frame' = [frame EXCEPT ![t] = Frame("returned", NULL, NULL, value)]

\* A NULL pointer is dereferenced.
Fault(t) == frame' = [frame EXCEPT ![t] = Frame("fault", NULL, NULL, 0)]

AtStatement(t, at) == frame[t].at = at

Goto(t, at) == frame' = [frame EXCEPT ![t].at = at]

-----------------------------------------------------------------------------
(***************************************************************************)
(* SortedList_insert.                                                      *)
(***************************************************************************)

\* An empty list: the element becomes its first one.
InsertEmpty(t) ==
  LET f == frame[t] IN
  /\ AtStatement(t, "insert")
  /\ next[f.list] = NULL
  /\ frame' = [frame EXCEPT ![t].prv = f.list, ![t].at = "insert_link"]
  /\ UNCHANGED <<memory, key>>

InsertNonempty(t) ==
  /\ AtStatement(t, "insert")
  /\ next[frame[t].list] # NULL
  /\ Goto(t, "insert_first")
  /\ UNCHANGED <<memory, key>>

\* list->next is read again.
InsertFirst(t) ==
  LET f == frame[t] IN
  /\ AtStatement(t, "insert_first")
  /\ frame' = [frame EXCEPT ![t].temp = next[f.list], ![t].prv = f.list,
                            ![t].at = "insert_loop"]
  /\ UNCHANGED <<memory, key>>

\* An element goes behind those with the same key.
GoesBehind(e, temp) == temp # NULL /\ key[e] >= key[temp]

InsertAdvance(t) ==
  LET f == frame[t] IN
  /\ AtStatement(t, "insert_loop")
  /\ GoesBehind(f.element, f.temp)
  /\ frame' = [frame EXCEPT ![t].prv = f.temp, ![t].temp = next[f.temp]]
  /\ UNCHANGED <<memory, key>>

\* prv->next = element, at once in an empty list and else where the loop stops.
InsertLink(t) ==
  LET f == frame[t] IN
  /\ \/ AtStatement(t, "insert_link")
     \/ AtStatement(t, "insert_loop") /\ ~GoesBehind(f.element, f.temp)
  /\ next' = [next EXCEPT ![f.prv] = f.element]
  /\ Goto(t, IF f.temp = NULL THEN "insert_prev" ELSE "insert_back")
  /\ UNCHANGED <<prev, key>>

\* Mutant of InsertBack: temp->prev is left alone.
InsertNoBack(t) ==
  /\ AtStatement(t, "insert_back")
  /\ Goto(t, "insert_next")
  /\ UNCHANGED <<memory, key>>

\* temp->prev = element.
InsertBack(t) ==
  LET f == frame[t] IN
  /\ AtStatement(t, "insert_back")
  /\ prev' = [prev EXCEPT ![f.temp] = f.element]
  /\ Goto(t, "insert_next")
  /\ UNCHANGED <<next, key>>

\* element->next = temp: before element->prev is set, or after at the end of the list.
InsertNext(t) ==
  LET f == frame[t] IN
  /\ AtStatement(t, "insert_next")
  /\ next' = [next EXCEPT ![f.element] = f.temp]
  /\ IF f.temp = NULL THEN Return(t, 0) ELSE Goto(t, "insert_prev")
  /\ UNCHANGED <<prev, key>>

\* element->prev = prv.
InsertPrev(t) ==
  LET f == frame[t] IN
  /\ AtStatement(t, "insert_prev")
  /\ prev' = [prev EXCEPT ![f.element] = f.prv]
  /\ IF f.temp = NULL THEN Goto(t, "insert_next") ELSE Return(t, 0)
  /\ UNCHANGED <<next, key>>

SortedList_insert(t) ==
  \/ InsertEmpty(t) \/ InsertNonempty(t) \/ InsertFirst(t)
  \/ InsertAdvance(t)
  \/ InsertLink(t) \/ InsertBack(t) \/ InsertNext(t) \/ InsertPrev(t)

-----------------------------------------------------------------------------
(***************************************************************************)
(* SortedList_delete: 1 when a neighbour does not point back at element,   *)
(* else 0.  Every statement reads element->next or element->prev again.    *)
(***************************************************************************)
DeleteTestNext(t) ==
  /\ AtStatement(t, "delete")
  /\ Goto(t, IF next[frame[t].element] = NULL THEN "delete_test_prev"
                                              ELSE "delete_next")
  /\ UNCHANGED <<memory, key>>

DeleteCheckNext(t) ==
  LET e == frame[t].element IN
  /\ AtStatement(t, "delete_next")
  /\ CASE next[e] = NULL -> Fault(t)
       [] next[e] # NULL /\ prev[next[e]] # e -> Return(t, 1)
       [] OTHER -> Goto(t, "delete_unlink_next")
  /\ UNCHANGED <<memory, key>>

\* Mutant of DeleteUnlinkNext: the successor keeps pointing at element.
DeleteLeaveNext(t) ==
  /\ AtStatement(t, "delete_unlink_next")
  /\ Goto(t, "delete_test_prev")
  /\ UNCHANGED <<memory, key>>

\* element->next->prev = element->prev.
DeleteUnlinkNext(t) ==
  LET e == frame[t].element IN
  /\ AtStatement(t, "delete_unlink_next")
  /\ IF next[e] = NULL
       THEN Fault(t) /\ UNCHANGED prev
       ELSE prev' = [prev EXCEPT ![next[e]] = prev[e]] /\ Goto(t, "delete_test_prev")
  /\ UNCHANGED <<next, key>>

DeleteTestPrev(t) ==
  /\ AtStatement(t, "delete_test_prev")
  /\ IF prev[frame[t].element] = NULL THEN Return(t, 0) ELSE Goto(t, "delete_prev")
  /\ UNCHANGED <<memory, key>>

DeleteCheckPrev(t) ==
  LET e == frame[t].element IN
  /\ AtStatement(t, "delete_prev")
  /\ CASE prev[e] = NULL -> Fault(t)
       [] prev[e] # NULL /\ next[prev[e]] # e -> Return(t, 1)
       [] OTHER -> Goto(t, "delete_unlink_prev")
  /\ UNCHANGED <<memory, key>>

\* element->prev->next = element->next.
DeleteUnlinkPrev(t) ==
  LET e == frame[t].element IN
  /\ AtStatement(t, "delete_unlink_prev")
  /\ IF prev[e] = NULL
       THEN Fault(t) /\ UNCHANGED next
       ELSE next' = [next EXCEPT ![prev[e]] = next[e]] /\ Return(t, 0)
  /\ UNCHANGED <<prev, key>>

SortedList_delete(t) ==
  \/ DeleteTestNext(t) \/ DeleteCheckNext(t) \/ DeleteUnlinkNext(t)
  \/ DeleteTestPrev(t) \/ DeleteCheckPrev(t) \/ DeleteUnlinkPrev(t)

-----------------------------------------------------------------------------
(***************************************************************************)
(* SortedList_lookup: the first element with the key.  The loop stops at   *)
(* the head, which no next field points to, and so runs off the end of a   *)
(* list without the key.                                                   *)
(***************************************************************************)
LookupFirst(t) ==
  /\ AtStatement(t, "lookup")
  /\ frame' = [frame EXCEPT ![t].temp = next[frame[t].list], ![t].at = "lookup_loop"]
  /\ UNCHANGED <<memory, key>>

LookupStep(t) ==
  LET f == frame[t] IN
  /\ AtStatement(t, "lookup_loop")
  /\ CASE f.temp = f.list -> Return(t, NULL)
       [] f.temp = NULL -> Fault(t)
       [] f.temp \in Elements /\ key[f.temp] = key[f.element] -> Return(t, f.temp)
       [] OTHER -> frame' = [frame EXCEPT ![t].temp = next[f.temp]]
  /\ UNCHANGED <<memory, key>>

SortedList_lookup(t) == LookupFirst(t) \/ LookupStep(t)

(***************************************************************************)
(* SortedList_length: counts up to the NULL and checks nothing.            *)
(***************************************************************************)
LengthFirst(t) ==
  /\ AtStatement(t, "length")
  /\ frame' = [frame EXCEPT ![t].temp = next[frame[t].list], ![t].at = "length_loop"]
  /\ UNCHANGED <<memory, key>>

\* Mutant of LengthStep: the last element is not counted.
LengthStopShort(t) ==
  LET f == frame[t] IN
  /\ AtStatement(t, "length_loop")
  /\ IF f.temp = NULL \/ next[f.temp] = NULL
       THEN Return(t, f.ret)
       ELSE frame' = [frame EXCEPT ![t].temp = next[f.temp], ![t].ret = @ + 1]
  /\ UNCHANGED <<memory, key>>

LengthStep(t) ==
  LET f == frame[t] IN
  /\ AtStatement(t, "length_loop")
  /\ IF f.temp = NULL
       THEN Return(t, f.ret)
       ELSE frame' = [frame EXCEPT ![t].temp = next[f.temp],
                        ![t].ret = IF @ < LengthCap THEN @ + 1 ELSE @]
  /\ UNCHANGED <<memory, key>>

SortedList_length(t) == LengthFirst(t) \/ LengthStep(t)

ListStep(t) ==
  \/ SortedList_insert(t) \/ SortedList_delete(t)
  \/ SortedList_lookup(t) \/ SortedList_length(t)

-----------------------------------------------------------------------------
(***************************************************************************)
(* What the memory should look like, for the properties of the programs.   *)
(***************************************************************************)
Statements ==
  {"idle", "returned", "fault",
   "insert", "insert_first", "insert_loop", "insert_link", "insert_back",
   "insert_next", "insert_prev",
   "delete", "delete_next", "delete_unlink_next", "delete_test_prev",
   "delete_prev", "delete_unlink_prev",
   "lookup", "lookup_loop", "length", "length_loop"}

ListTypeOK ==
  /\ next \in [Elements \cup Heads -> Elements \cup {NULL}]
  /\ prev \in [Elements -> Elements \cup Heads \cup {NULL}]
  /\ key \in [Elements -> Nat]
  /\ frame \in [DOMAIN frame ->
                 [at : Statements,
                  list : Heads \cup {NULL},
                  element : Elements \cup {NULL},
                  temp : Elements \cup {NULL},
                  prv : Elements \cup Heads \cup {NULL},
                  ret : 0..LengthCap]]

\* The first steps of the walk down the list, NULL after its end.
Walk(list) ==
  LET w[i \in 0..Cardinality(Elements)] ==
        IF i = 0 THEN next[list]
        ELSE IF w[i - 1] = NULL THEN NULL ELSE next[w[i - 1]]
  IN w

Contents(list) ==
  {Walk(list)[i] : i \in 0..Cardinality(Elements)} \ {NULL}

\* The walk ends, every prev field points back along it, and keys ascend.
WellFormed(list) ==
  /\ Walk(list)[Cardinality(Elements)] = NULL
  /\ \A e \in Contents(list) :
       /\ prev[e] # NULL /\ next[prev[e]] = e
       /\ next[list] = e => prev[e] = list
       /\ next[e] # NULL => prev[next[e]] = e /\ key[e] <= key[next[e]]
=============================================================================
