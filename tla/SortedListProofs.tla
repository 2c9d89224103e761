--------------------------- MODULE SortedListProofs ---------------------------
(***************************************************************************)
(* Lemmas about SortedList, for a list of any length: what the four        *)
(* functions do to a list that their thread has to itself, and what they   *)
(* do to the types in any case.  The theorems of Lab2aListProofs and       *)
(* Lab2bListProofs rest on them.                                           *)
(***************************************************************************)
EXTENDS SortedList, FiniteSetTheorems, TLAPS

\* The elements are numbered from 1 and the heads are negative.
Numbered ==
  /\ \E m \in Nat : Elements = 1..m
  /\ \A h \in Heads : h \in Int /\ h < 0

InsertStatements ==
  {"insert", "insert_first", "insert_loop", "insert_link", "insert_back",
   "insert_next", "insert_prev"}

DeleteStatements ==
  {"delete", "delete_next", "delete_unlink_next", "delete_test_prev",
   "delete_prev", "delete_unlink_prev"}

LookupStatements == {"lookup", "lookup_loop"}

LengthStatements == {"length", "length_loop"}

\* A frame has the arguments that its function dereferences.
HasArguments(f) ==
  /\ f.at \in {"insert", "insert_first", "lookup", "length"} => f.list # NULL
  /\ f.at \in DeleteStatements => f.element # NULL

LEMMA NumberedFacts ==
  ASSUME Numbered
  PROVE  /\ IsFiniteSet(Elements) /\ LengthCap \in Nat
         /\ Elements \subseteq 0..LengthCap /\ Elements \subseteq 1..LengthCap
         /\ {0, 1} \subseteq 0..LengthCap /\ NULL \notin Elements /\ NULL \notin Heads
         /\ Heads \cap Elements = {} /\ Heads \subseteq Int
<1>1. PICK m \in Nat : Elements = 1..m
  BY DEF Numbered
<1>3. IsFiniteSet(1..m) /\ Cardinality(1..m) = m
  BY <1>1, FS_Interval
<1>4. LengthCap = m + 1
  BY <1>1, <1>3 DEF LengthCap
<1> QED
  BY <1>1, <1>3, <1>4 DEF Numbered, NULL

\* What the functions of the list leave alone.
LEMMA ListStepFrame ==
  ASSUME NEW t, ListStep(t)
  PROVE  /\ key' = key
         /\ DOMAIN frame' = DOMAIN frame
         /\ \A u \in DOMAIN frame \ {t} : frame'[u] = frame[u]
         /\ ~Idle(t)
<1> USE DEF AtStatement, Idle, Return, Fault, Goto
<1>1. CASE SortedList_insert(t)
  BY <1>1 DEF SortedList_insert, InsertEmpty, InsertNonempty, InsertFirst,
     InsertAdvance, InsertLink, InsertBack, InsertNext, InsertPrev
<1>2. CASE SortedList_delete(t)
  BY <1>2 DEF SortedList_delete, DeleteTestNext, DeleteCheckNext,
     DeleteUnlinkNext, DeleteTestPrev, DeleteCheckPrev, DeleteUnlinkPrev
<1>3. CASE SortedList_lookup(t)
  BY <1>3 DEF SortedList_lookup, LookupFirst, LookupStep
<1>4. CASE SortedList_length(t)
  BY <1>4 DEF SortedList_length, LengthFirst, LengthStep
<1> QED
  BY <1>1, <1>2, <1>3, <1>4 DEF ListStep

-----------------------------------------------------------------------------
(***************************************************************************)
(* Types, whether or not the thread has the list to itself.                *)
(***************************************************************************)
Frames ==
  [at : Statements,
   list : Heads \cup {NULL},
   element : Elements \cup {NULL},
   temp : Elements \cup {NULL},
   prv : Elements \cup Heads \cup {NULL},
   ret : 0..LengthCap]

\* A step of thread t that keeps the types.
TypedStep(t) ==
  /\ key' = key
  /\ next' \in [Elements \cup Heads -> Elements \cup {NULL}]
  /\ prev' \in [Elements -> Elements \cup Heads \cup {NULL}]
  /\ \E f \in Frames : HasArguments(f) /\ frame' = [frame EXCEPT ![t] = f]

LEMMA TypedStepKeeps ==
  ASSUME ListTypeOK, NEW t \in DOMAIN frame, TypedStep(t)
  PROVE  /\ ListTypeOK' /\ HasArguments(frame'[t])
         /\ key' = key /\ Elements' = Elements /\ Heads' = Heads
         /\ DOMAIN frame' = DOMAIN frame
         /\ \A u \in DOMAIN frame \ {t} : frame'[u] = frame[u]
<1>1. /\ frame \in [DOMAIN frame -> Frames]
      /\ next \in [Elements \cup Heads -> Elements \cup {NULL}]
  BY DEF ListTypeOK, Frames
<1>2. PICK f \in Frames : HasArguments(f) /\ frame' = [frame EXCEPT ![t] = f]
  BY DEF TypedStep
<1>3. /\ frame' \in [DOMAIN frame -> Frames] /\ DOMAIN frame' = DOMAIN frame
      /\ frame'[t] = f
      /\ \A u \in DOMAIN frame \ {t} : frame'[u] = frame[u]
  BY <1>1, <1>2
<1>4. Elements' = Elements
  BY DEF TypedStep, Elements
<1>5. DOMAIN next' = DOMAIN next
  BY <1>1 DEF TypedStep
<1>6. Heads' = Heads
  BY <1>4, <1>5 DEF Heads
<1>7. LengthCap' = LengthCap
  BY <1>4 DEF LengthCap
<1>8. ListTypeOK'
  <2>1. /\ next' \in [Elements \cup Heads -> Elements \cup {NULL}]'
        /\ prev' \in [Elements -> Elements \cup Heads \cup {NULL}]'
        /\ key' \in [Elements -> Nat]'
    BY <1>4, <1>6 DEF TypedStep, ListTypeOK
  <2>2. frame' \in [DOMAIN frame -> Frames]'
    BY <1>3, <1>4, <1>6, <1>7 DEF Frames
  <2> QED
    BY <2>1, <2>2 DEF ListTypeOK, Frames
<1> QED
  BY <1>2, <1>3, <1>4, <1>6, <1>8 DEF TypedStep

LEMMA InsertTypes ==
  ASSUME ListTypeOK, Numbered, NEW t \in DOMAIN frame, HasArguments(frame[t]),
         SortedList_insert(t)
  PROVE  TypedStep(t)
<1> DEFINE f == frame[t]
<1>1. /\ frame \in [DOMAIN frame -> Frames] /\ f \in Frames
      /\ next \in [Elements \cup Heads -> Elements \cup {NULL}]
      /\ prev \in [Elements -> Elements \cup Heads \cup {NULL}]
      /\ NULL \notin Elements /\ NULL \notin Heads /\ 0 \in 0..LengthCap
  BY NumberedFacts DEF ListTypeOK, Frames
<1> USE DEF TypedStep, AtStatement, memory, Goto, Return
<1>2. \A at \in Statements :
         /\ [f EXCEPT !.at = at] \in Frames
         /\ at \notin {"insert", "insert_first", "lookup", "length"} \cup DeleteStatements =>
              HasArguments([f EXCEPT !.at = at])
  BY <1>1 DEF Frames, HasArguments
<1>3. /\ Frame("returned", NULL, NULL, 0) \in Frames
      /\ HasArguments(Frame("returned", NULL, NULL, 0))
  BY <1>1 DEF Frames, Frame, Statements, HasArguments, DeleteStatements
<1>4. CASE InsertEmpty(t)
  <2> DEFINE g == [f EXCEPT !.prv = f.list, !.at = "insert_link"]
  <2>1. frame' = [frame EXCEPT ![t] = g] /\ UNCHANGED <<next, prev, key>>
    BY <1>4, <1>1 DEF InsertEmpty
  <2>2. g \in Frames /\ HasArguments(g)
    BY <1>1 DEF Frames, Statements, HasArguments, DeleteStatements
  <2> QED
    BY <1>1, <2>1, <2>2
<1>5. CASE InsertNonempty(t)
  <2> DEFINE g == [f EXCEPT !.at = "insert_first"]
  <2>1. frame' = [frame EXCEPT ![t] = g] /\ UNCHANGED <<next, prev, key>>
    BY <1>5, <1>1 DEF InsertNonempty
  <2>2. g \in Frames /\ HasArguments(g)
    BY <1>1, <1>5 DEF InsertNonempty, Frames, Statements, HasArguments, DeleteStatements
  <2> QED
    BY <1>1, <2>1, <2>2
<1>6. CASE InsertFirst(t)
  <2> DEFINE g == [f EXCEPT !.temp = next[f.list], !.prv = f.list, !.at = "insert_loop"]
  <2>1. frame' = [frame EXCEPT ![t] = g] /\ UNCHANGED <<next, prev, key>>
    BY <1>6, <1>1 DEF InsertFirst
  <2>2. f.list \in Heads
    BY <1>1, <1>6 DEF InsertFirst, Frames, HasArguments
  <2>3. g \in Frames /\ HasArguments(g)
    BY <1>1, <2>2 DEF Frames, Statements, HasArguments, DeleteStatements
  <2> QED
    BY <1>1, <2>1, <2>3
<1>7. CASE InsertAdvance(t)
  <2> DEFINE g == [f EXCEPT !.prv = f.temp, !.temp = next[f.temp]]
  <2>1. frame' = [frame EXCEPT ![t] = g] /\ UNCHANGED <<next, prev, key>>
    BY <1>7, <1>1 DEF InsertAdvance
  <2>2. f.temp \in Elements /\ f.at = "insert_loop"
    BY <1>1, <1>7 DEF InsertAdvance, GoesBehind, Frames
  <2>3. g \in Frames /\ HasArguments(g)
    BY <1>1, <2>2 DEF Frames, HasArguments, DeleteStatements
  <2> QED
    BY <1>1, <2>1, <2>3
<1>8. CASE InsertLink(t)
  <2>1. PICK at \in {"insert_prev", "insert_back"} :
          frame' = [frame EXCEPT ![t] = [f EXCEPT !.at = at]]
    BY <1>8, <1>1 DEF InsertLink
  <2>2. [f EXCEPT !.at = at] \in Frames /\ HasArguments([f EXCEPT !.at = at])
    BY <1>2 DEF Statements, DeleteStatements
  <2>3. f.element \in Elements \cup {NULL}
    BY <1>1 DEF Frames
  <2> QED
    BY <1>1, <1>8, <2>1, <2>2, <2>3 DEF InsertLink
<1>9. CASE InsertBack(t)
  <2>1. frame' = [frame EXCEPT ![t] = [f EXCEPT !.at = "insert_next"]]
    BY <1>9, <1>1 DEF InsertBack
  <2>2. /\ [f EXCEPT !.at = "insert_next"] \in Frames
        /\ HasArguments([f EXCEPT !.at = "insert_next"])
    BY <1>2 DEF Statements, DeleteStatements
  <2>3. f.element \in Elements \cup {NULL}
    BY <1>1 DEF Frames
  <2> QED
    BY <1>1, <1>9, <2>1, <2>2, <2>3 DEF InsertBack
<1>10. CASE InsertNext(t) \/ InsertPrev(t)
  <2>1. PICK g \in {[f EXCEPT !.at = "insert_prev"], [f EXCEPT !.at = "insert_next"],
                    Frame("returned", NULL, NULL, 0)} :
          frame' = [frame EXCEPT ![t] = g]
    BY <1>10, <1>1 DEF InsertNext, InsertPrev
  <2>2. g \in Frames /\ HasArguments(g)
    BY <1>2, <1>3, <2>1 DEF Statements, DeleteStatements
  <2>3. f.temp \in Elements \cup {NULL} /\ f.prv \in Elements \cup Heads \cup {NULL}
    BY <1>1 DEF Frames
  <2> QED
    BY <1>1, <1>10, <2>1, <2>2, <2>3 DEF InsertNext, InsertPrev
<1> QED
  BY <1>4, <1>5, <1>6, <1>7, <1>8, <1>9, <1>10 DEF SortedList_insert

LEMMA DeleteTypes ==
  ASSUME ListTypeOK, Numbered, NEW t \in DOMAIN frame, HasArguments(frame[t]),
         SortedList_delete(t)
  PROVE  TypedStep(t)
<1> DEFINE f == frame[t]
           e == f.element
<1>1. /\ frame \in [DOMAIN frame -> Frames] /\ f \in Frames
      /\ next \in [Elements \cup Heads -> Elements \cup {NULL}]
      /\ prev \in [Elements -> Elements \cup Heads \cup {NULL}]
      /\ NULL \notin Elements /\ NULL \notin Heads /\ {0, 1} \subseteq 0..LengthCap
  BY NumberedFacts DEF ListTypeOK, Frames
<1> USE DEF TypedStep, AtStatement, memory, Goto, Return, Fault
<1>2. e \in Elements /\ f.at \in DeleteStatements
  <2>1. f.at \in DeleteStatements
    BY DEF DeleteStatements, SortedList_delete, DeleteTestNext, DeleteCheckNext,
           DeleteUnlinkNext, DeleteTestPrev, DeleteCheckPrev, DeleteUnlinkPrev
  <2> QED
    BY <1>1, <2>1 DEF HasArguments, Frames
<1> DEFINE Moves == {[f EXCEPT !.at = at] : at \in DeleteStatements}
           Stops == {Frame("fault", NULL, NULL, 0), Frame("returned", NULL, NULL, 0),
                     Frame("returned", NULL, NULL, 1)}
<1>3. \A g \in Moves \cup Stops : g \in Frames /\ HasArguments(g)
  <2>1. \A g \in Moves : g \in Frames /\ HasArguments(g)
    BY <1>1, <1>2 DEF Frames, Statements, HasArguments, DeleteStatements
  <2>2. \A g \in Stops : g \in Frames /\ HasArguments(g)
    BY <1>1 DEF Frames, Frame, Statements, HasArguments, DeleteStatements
  <2> QED
    BY <2>1, <2>2
<1>4. \E g \in Moves \cup Stops : frame' = [frame EXCEPT ![t] = g]
  BY <1>1
     DEF DeleteStatements, SortedList_delete, DeleteTestNext, DeleteCheckNext,
         DeleteUnlinkNext, DeleteTestPrev, DeleteCheckPrev, DeleteUnlinkPrev
<1>5. /\ key' = key
      /\ next' = next \/ next' = [next EXCEPT ![prev[e]] = next[e]]
      /\ prev' = prev \/ prev' = [prev EXCEPT ![next[e]] = prev[e]]
  BY DEF SortedList_delete, DeleteTestNext, DeleteCheckNext,
         DeleteUnlinkNext, DeleteTestPrev, DeleteCheckPrev, DeleteUnlinkPrev
<1> HIDE DEF Moves, Stops
<1> QED
  BY <1>1, <1>2, <1>3, <1>4, <1>5

LEMMA LookupTypes ==
  ASSUME ListTypeOK, Numbered, NEW t \in DOMAIN frame, HasArguments(frame[t]),
         SortedList_lookup(t)
  PROVE  TypedStep(t) /\ (Returned(t)' => frame'[t].ret \in Elements \cup {NULL})
<1> DEFINE f == frame[t]
<1>1. /\ frame \in [DOMAIN frame -> Frames] /\ f \in Frames
      /\ next \in [Elements \cup Heads -> Elements \cup {NULL}]
      /\ prev \in [Elements -> Elements \cup Heads \cup {NULL}]
      /\ Elements \subseteq 0..LengthCap /\ 0 \in 0..LengthCap
  BY NumberedFacts DEF ListTypeOK, Frames
<1> USE DEF TypedStep, AtStatement, memory, Return, Fault
<1>2. UNCHANGED <<next, prev, key>>
  BY DEF SortedList_lookup, LookupFirst, LookupStep
<1>3. SUFFICES \E g \in Frames :
                 /\ HasArguments(g) /\ frame' = [frame EXCEPT ![t] = g]
                 /\ g.at = "returned" => g.ret \in Elements \cup {NULL}
  BY <1>1, <1>2 DEF Returned
<1>4. CASE LookupFirst(t)
  <2> DEFINE g == [f EXCEPT !.temp = next[f.list], !.at = "lookup_loop"]
  <2>1. frame' = [frame EXCEPT ![t] = g] /\ f.list \in Heads
    BY <1>1, <1>4 DEF LookupFirst, Frames, HasArguments
  <2>2. g \in Frames /\ HasArguments(g) /\ g.at # "returned"
    BY <1>1, <2>1 DEF Frames, Statements, HasArguments, DeleteStatements
  <2> QED
    BY <2>1, <2>2
<1>5. CASE LookupStep(t)
  <2>1. f.at = "lookup_loop"
    BY <1>5 DEF LookupStep
  <2>2. CASE frame' = [frame EXCEPT ![t] = Frame("fault", NULL, NULL, 0)]
    <3>1. /\ Frame("fault", NULL, NULL, 0) \in Frames
          /\ HasArguments(Frame("fault", NULL, NULL, 0))
          /\ Frame("fault", NULL, NULL, 0).at # "returned"
      BY <1>1 DEF Frames, Frame, Statements, HasArguments, DeleteStatements
    <3> QED
      BY <2>2, <3>1
  <2>3. ASSUME NEW r \in Elements \cup {NULL},
               frame' = [frame EXCEPT ![t] = Frame("returned", NULL, NULL, r)]
        PROVE  \E g \in Frames :
                 /\ HasArguments(g) /\ frame' = [frame EXCEPT ![t] = g]
                 /\ g.at = "returned" => g.ret \in Elements \cup {NULL}
    <3>1. /\ Frame("returned", NULL, NULL, r) \in Frames
          /\ HasArguments(Frame("returned", NULL, NULL, r))
          /\ Frame("returned", NULL, NULL, r).ret = r
      BY <1>1 DEF Frames, Frame, Statements, HasArguments, DeleteStatements, NULL
    <3> QED
      BY <2>3, <3>1
  <2>4. CASE /\ frame' = [frame EXCEPT ![t].temp = next[f.temp]]
             /\ f.temp \in Elements
    <3> DEFINE g == [f EXCEPT !.temp = next[f.temp]]
    <3>1. frame' = [frame EXCEPT ![t] = g]
      BY <1>1, <2>4
    <3>2. g \in Frames /\ HasArguments(g) /\ g.at # "returned"
      BY <1>1, <2>1, <2>4 DEF Frames, HasArguments, DeleteStatements
    <3> QED
      BY <3>1, <3>2
  <2>5. f.temp \in Elements \cup {NULL}
    BY <1>1 DEF Frames
  <2> QED
    BY <1>5, <2>2, <2>3, <2>4, <2>5 DEF LookupStep
<1> QED
  BY <1>4, <1>5 DEF SortedList_lookup

LEMMA LengthTypes ==
  ASSUME ListTypeOK, Numbered, NEW t \in DOMAIN frame, HasArguments(frame[t]),
         SortedList_length(t)
  PROVE  TypedStep(t)
<1> DEFINE f == frame[t]
<1>1. /\ frame \in [DOMAIN frame -> Frames] /\ f \in Frames
      /\ next \in [Elements \cup Heads -> Elements \cup {NULL}]
      /\ prev \in [Elements -> Elements \cup Heads \cup {NULL}]
      /\ LengthCap \in Nat /\ f.ret \in 0..LengthCap
      /\ f.temp \in Elements \cup {NULL} /\ f.list \in Heads \cup {NULL}
  BY NumberedFacts DEF ListTypeOK, Frames
<1> USE DEF TypedStep, AtStatement, memory, Return
<1>2. UNCHANGED <<next, prev, key>>
  BY DEF SortedList_length, LengthFirst, LengthStep
<1>3. SUFFICES \E g \in Frames : HasArguments(g) /\ frame' = [frame EXCEPT ![t] = g]
  BY <1>1, <1>2
<1>4. CASE LengthFirst(t)
  <2> DEFINE g == [f EXCEPT !.temp = next[f.list], !.at = "length_loop"]
  <2>1. frame' = [frame EXCEPT ![t] = g] /\ f.list \in Heads
    BY <1>1, <1>4 DEF LengthFirst, Frames, HasArguments
  <2>2. g \in Frames /\ HasArguments(g)
    BY <1>1, <2>1 DEF Frames, Statements, HasArguments, DeleteStatements
  <2> QED
    BY <2>1, <2>2
<1>5. CASE LengthStep(t) /\ f.temp = NULL
  <2>1. frame' = [frame EXCEPT ![t] = Frame("returned", NULL, NULL, f.ret)]
    BY <1>5 DEF LengthStep
  <2>2. /\ Frame("returned", NULL, NULL, f.ret) \in Frames
        /\ HasArguments(Frame("returned", NULL, NULL, f.ret))
    BY <1>1 DEF Frames, Frame, Statements, HasArguments, DeleteStatements
  <2> QED
    BY <2>1, <2>2
<1>6. CASE LengthStep(t) /\ f.temp # NULL
  <2> DEFINE r == IF f.ret < LengthCap THEN f.ret + 1 ELSE f.ret
             g == [f EXCEPT !.temp = next[f.temp], !.ret = r]
  <2>1. r \in 0..LengthCap /\ f.at = "length_loop"
    BY <1>1, <1>6 DEF LengthStep
  <2>2. frame' = [frame EXCEPT ![t] = g]
    BY <1>1, <1>6 DEF LengthStep
  <2> HIDE DEF r
  <2>3. g \in Frames /\ HasArguments(g)
    BY <1>1, <1>6, <2>1 DEF Frames, HasArguments, DeleteStatements
  <2> QED
    BY <2>2, <2>3
<1> QED
  BY <1>4, <1>5, <1>6 DEF SortedList_length

\* A statement of the list keeps the types of the memory and of the frames, and
\* moves the frame of its own thread only.
LEMMA ListTypeStep ==
  ASSUME ListTypeOK, Numbered, NEW t \in DOMAIN frame, HasArguments(frame[t]), ListStep(t)
  PROVE  /\ ListTypeOK' /\ HasArguments(frame'[t]) /\ Numbered'
         /\ key' = key /\ Elements' = Elements /\ Heads' = Heads
         /\ DOMAIN frame' = DOMAIN frame
         /\ \A u \in DOMAIN frame \ {t} : frame'[u] = frame[u]
<1>1. TypedStep(t)
  BY InsertTypes, DeleteTypes, LookupTypes, LengthTypes DEF ListStep
<1> QED
  BY <1>1, TypedStepKeeps DEF Numbered

\* A thread calls a function of the list or leaves one.
LEMMA Called ==
  ASSUME ListTypeOK, Numbered, NEW t \in DOMAIN frame, NEW at \in Statements,
         NEW list \in Heads \cup {NULL}, NEW element \in Elements \cup {NULL},
         at \in {"insert", "insert_first", "lookup", "length"} => list # NULL,
         at \in DeleteStatements => element # NULL,
         frame' = [frame EXCEPT ![t] = Frame(at, list, element, 0)],
         UNCHANGED <<next, prev, key>>
  PROVE  /\ ListTypeOK' /\ HasArguments(frame'[t]) /\ Numbered'
         /\ Elements' = Elements /\ Heads' = Heads
         /\ DOMAIN frame' = DOMAIN frame
         /\ frame'[t] = Frame(at, list, element, 0)
         /\ \A u \in DOMAIN frame \ {t} : frame'[u] = frame[u]
<1> DEFINE f == Frame(at, list, element, 0)
<1>1. 0 \in 0..LengthCap
  BY NumberedFacts
<1>2. f \in Frames /\ HasArguments(f)
  BY <1>1 DEF Frame, Frames, HasArguments
<1>3. TypedStep(t)
  <2>1. /\ next' \in [Elements \cup Heads -> Elements \cup {NULL}]
        /\ prev' \in [Elements -> Elements \cup Heads \cup {NULL}]
    BY DEF ListTypeOK
  <2> QED
    BY <1>2, <2>1 DEF TypedStep
<1> QED
  BY <1>3, TypedStepKeeps DEF Numbered

-----------------------------------------------------------------------------
(***************************************************************************)
(* Chains: the list that starts at head h, c[0] = h, has the n elements    *)
(* c[1], ..., c[n] and ends in c[n + 1] = NULL.                            *)
(***************************************************************************)
Chain(h, n, c) ==
  /\ n \in Nat /\ c \in [0..(n + 1) -> Int]
  /\ c[0] = h /\ c[n + 1] = NULL
  /\ \A i \in 1..n : c[i] \in Elements
  /\ \A i, j \in 1..n : c[i] = c[j] => i = j
  /\ \A i \in 1..(n - 1) : key[c[i]] <= key[c[i + 1]]

Members(n, c) == {c[i] : i \in 1..n}

\* The fields next and prev are those of the chain, but for the field next of the
\* nodes in N and the field prev of those in P.
Linked(n, c, N, P) ==
  /\ \A i \in 0..n : c[i] \notin N => next[c[i]] = c[i + 1]
  /\ \A i \in 1..n : c[i] \notin P => prev[c[i]] = c[i - 1]

\* No node of a chain occurs in it twice, and NULL is only at its end.
LEMMA ChainFacts ==
  ASSUME Numbered, NEW h \in Heads, NEW n, NEW c, Chain(h, n, c)
  PROVE  /\ n \in Nat
         /\ \A i, j \in 0..(n + 1) : c[i] = c[j] => i = j
         /\ \A i \in 0..(n + 1) : c[i] = NULL => i = n + 1
         /\ \A i \in 1..(n + 1) : c[i] \in Elements \cup {NULL}
         /\ \A i \in 0..n : c[i] \in Elements \cup Heads
<1>1. /\ NULL \notin Elements /\ NULL \notin Heads /\ Heads \cap Elements = {}
      /\ n \in Nat
  BY NumberedFacts DEF Chain
<1>2. \A i \in 0..(n + 1) : i = 0 \/ i \in 1..n \/ i = n + 1
  BY <1>1
<1> QED
  BY <1>1, <1>2 DEF Chain

\* e is put behind position p.
LEMMA ChainInsert ==
  ASSUME Numbered, NEW h \in Heads, NEW n, NEW c, Chain(h, n, c),
         key \in [Elements -> Nat],
         NEW p \in 0..n, NEW e \in Elements, e \notin Members(n, c),
         p >= 1 => key[c[p]] <= key[e],
         p < n => key[e] <= key[c[p + 1]]
  PROVE  \E d : /\ Chain(h, n + 1, d)
                /\ \A i \in 0..p : d[i] = c[i]
                /\ d[p + 1] = e
                /\ \A i \in (p + 2)..(n + 2) : d[i] = c[i - 1]
                /\ Members(n + 1, d) = Members(n, c) \cup {e}
<1> DEFINE d == [i \in 0..(n + 2) |-> IF i <= p THEN c[i]
                                      ELSE IF i = p + 1 THEN e ELSE c[i - 1]]
<1>1. /\ n \in Nat /\ p \in Nat /\ p <= n /\ c \in [0..(n + 1) -> Int] /\ e \in Int
      /\ c[0] = h /\ c[n + 1] = NULL
      /\ \A i \in 1..n : c[i] \in Elements /\ c[i] # e
      /\ \A i, j \in 1..n : c[i] = c[j] => i = j
      /\ \A i \in 1..(n - 1) : key[c[i]] <= key[c[i + 1]]
  BY NumberedFacts DEF Chain, Members
<1>2. /\ \A i \in 0..p : d[i] = c[i]
      /\ d[p + 1] = e
      /\ \A i \in (p + 2)..(n + 2) : d[i] = c[i - 1]
      /\ d \in [0..(n + 2) -> Int]
  BY <1>1
<1> HIDE DEF d
<1>3. \A i \in 1..(n + 1) : \/ i \in 1..p /\ d[i] = c[i]
                            \/ i = p + 1 /\ d[i] = e
                            \/ i \in (p + 2)..(n + 1) /\ d[i] = c[i - 1] /\ i - 1 \in 1..n
  BY <1>1, <1>2
<1>4. \A i \in 1..(n + 1) : d[i] \in Elements
  BY <1>1, <1>3
<1>5. \A i, j \in 1..(n + 1) : d[i] = d[j] => i = j
  <2> SUFFICES ASSUME NEW i \in 1..(n + 1), NEW j \in 1..(n + 1), d[i] = d[j]
               PROVE  i = j
    OBVIOUS
  <2>1. CASE i = p + 1 \/ j = p + 1
    <3>1. \A k \in 1..(n + 1) : d[k] = e => k = p + 1
      BY <1>1, <1>3
    <3> QED
      BY <1>2, <2>1, <3>1
  <2>2. CASE i # p + 1 /\ j # p + 1
    <3>1. \/ i \in 1..p /\ d[i] = c[i] /\ i \in 1..n
          \/ i \in (p + 2)..(n + 1) /\ d[i] = c[i - 1] /\ i - 1 \in 1..n
      BY <1>1, <1>3, <2>2
    <3>2. \/ j \in 1..p /\ d[j] = c[j] /\ j \in 1..n
          \/ j \in (p + 2)..(n + 1) /\ d[j] = c[j - 1] /\ j - 1 \in 1..n
      BY <1>1, <1>3, <2>2
    <3>3. CASE i <= p /\ j <= p
      BY <1>1, <3>1, <3>2, <3>3
    <3>4. CASE i <= p /\ j > p
      <4>1. i = j - 1
        BY <1>1, <3>1, <3>2, <3>4
      <4> QED
        BY <1>1, <3>1, <3>2, <3>4, <4>1
    <3>5. CASE i > p /\ j <= p
      <4>1. i - 1 = j
        BY <1>1, <3>1, <3>2, <3>5
      <4> QED
        BY <1>1, <3>1, <3>2, <3>5, <4>1
    <3>6. CASE i > p /\ j > p
      <4>1. i - 1 \in 1..n /\ j - 1 \in 1..n /\ c[i - 1] = c[j - 1]
        BY <1>1, <3>1, <3>2, <3>6
      <4>2. i - 1 = j - 1
        BY <1>1, <4>1
      <4> QED
        BY <4>2
    <3> QED
      BY <1>1, <3>3, <3>4, <3>5, <3>6
  <2> QED
    BY <2>1, <2>2
<1>6. \A i \in 1..n : key[d[i]] <= key[d[i + 1]]
  <2> SUFFICES ASSUME NEW i \in 1..n PROVE key[d[i]] <= key[d[i + 1]]
    OBVIOUS
  <2>1. CASE i < p
    BY <1>1, <1>2, <2>1
  <2>2. CASE i = p
    BY <1>1, <1>2, <2>2
  <2>3. CASE i = p + 1
    <3>1. p < n /\ d[p + 2] = c[p + 1]
      BY <1>1, <1>2, <2>3
    <3> QED
      BY <1>1, <1>2, <2>3, <3>1
  <2>4. CASE i > p + 1
    <3>1. d[i] = c[i - 1] /\ d[i + 1] = c[i] /\ i - 1 \in 1..(n - 1) /\ i - 1 + 1 = i
      BY <1>1, <1>2, <2>4
    <3> QED
      BY <1>1, <3>1
  <2> QED
    BY <1>1, <2>1, <2>2, <2>3, <2>4
<1>7. Members(n + 1, d) = Members(n, c) \cup {e}
  <2>1. \A i \in 1..(n + 1) : d[i] \in Members(n, c) \cup {e}
    BY <1>1, <1>3 DEF Members
  <2>2. \A i \in 1..n : \E j \in 1..(n + 1) : d[j] = c[i]
    <3> SUFFICES ASSUME NEW i \in 1..n PROVE \E j \in 1..(n + 1) : d[j] = c[i]
      OBVIOUS
    <3>1. CASE i <= p
      BY <1>1, <1>2, <3>1
    <3>2. CASE i > p
      <4>1. i + 1 \in 1..(n + 1) /\ d[i + 1] = c[i]
        BY <1>1, <1>2, <3>2
      <4> QED
        BY <4>1
    <3> QED
      BY <1>1, <3>1, <3>2
  <2>3. p + 1 \in 1..(n + 1)
    BY <1>1
  <2>4. Members(n + 1, d) \subseteq Members(n, c) \cup {e}
    BY <2>1 DEF Members
  <2>5. Members(n, c) \subseteq Members(n + 1, d)
    BY <2>2 DEF Members
  <2>6. e \in Members(n + 1, d)
    BY <1>2, <2>3 DEF Members
  <2> QED
    BY <2>4, <2>5, <2>6
<1>8. Chain(h, n + 1, d)
  BY <1>1, <1>2, <1>4, <1>5, <1>6 DEF Chain
<1> QED
  BY <1>2, <1>7, <1>8

\* The element at position p is taken out.
LEMMA ChainDelete ==
  ASSUME Numbered, NEW h \in Heads, NEW n, NEW c, Chain(h, n, c),
         key \in [Elements -> Nat], NEW p \in 1..n
  PROVE  \E d : /\ Chain(h, n - 1, d)
                /\ \A i \in 0..(p - 1) : d[i] = c[i]
                /\ \A i \in p..n : d[i] = c[i + 1]
                /\ Members(n - 1, d) = Members(n, c) \ {c[p]}
<1> DEFINE d == [i \in 0..n |-> IF i < p THEN c[i] ELSE c[i + 1]]
<1>1. /\ n \in Nat /\ p \in Nat /\ 1 <= p /\ p <= n /\ c \in [0..(n + 1) -> Int]
      /\ c[0] = h /\ c[n + 1] = NULL
      /\ \A i \in 1..n : c[i] \in Elements
      /\ \A i, j \in 1..n : c[i] = c[j] => i = j
      /\ \A i \in 1..(n - 1) : key[c[i]] <= key[c[i + 1]]
  BY DEF Chain
<1>2. /\ \A i \in 0..(p - 1) : d[i] = c[i]
      /\ \A i \in p..n : d[i] = c[i + 1]
      /\ d \in [0..n -> Int]
  BY <1>1
<1> HIDE DEF d
<1>3. \A i \in 1..(n - 1) : \/ i \in 1..(p - 1) /\ d[i] = c[i] /\ i \in 1..n /\ i # p
                            \/ i \in p..n /\ d[i] = c[i + 1] /\ i + 1 \in 1..n /\ i + 1 # p
  BY <1>1, <1>2
<1>4. \A i \in 1..(n - 1) : d[i] \in Elements /\ d[i] # c[p]
  BY <1>1, <1>3
<1>5. \A i, j \in 1..(n - 1) : d[i] = d[j] => i = j
  <2> SUFFICES ASSUME NEW i \in 1..(n - 1), NEW j \in 1..(n - 1), d[i] = d[j]
               PROVE  i = j
    OBVIOUS
  <2>1. \/ i \in 1..(p - 1) /\ d[i] = c[i] /\ i \in 1..n
        \/ i \in p..(n - 1) /\ d[i] = c[i + 1] /\ i + 1 \in 1..n
    BY <1>1, <1>3
  <2>2. \/ j \in 1..(p - 1) /\ d[j] = c[j] /\ j \in 1..n
        \/ j \in p..(n - 1) /\ d[j] = c[j + 1] /\ j + 1 \in 1..n
    BY <1>1, <1>3
  <2> QED
    BY <1>1, <2>1, <2>2
<1>6. \A i \in 1..(n - 2) : key[d[i]] <= key[d[i + 1]]
  <2> SUFFICES ASSUME NEW i \in 1..(n - 2) PROVE key[d[i]] <= key[d[i + 1]]
    OBVIOUS
  <2>1. CASE i + 1 < p
    BY <1>1, <1>2, <2>1
  <2>2. CASE i + 1 = p
    <3>1. d[i] = c[i] /\ d[i + 1] = c[p + 1] /\ p + 1 \in 1..n
      BY <1>1, <1>2, <2>2
    <3>2. key[c[i]] <= key[c[p]] /\ key[c[p]] <= key[c[p + 1]]
      BY <1>1, <2>2
    <3>3. key[c[i]] \in Nat /\ key[c[p]] \in Nat /\ key[c[p + 1]] \in Nat
      BY <1>1, <3>1
    <3> QED
      BY <3>1, <3>2, <3>3
  <2>3. CASE i >= p
    <3>1. d[i] = c[i + 1] /\ d[i + 1] = c[i + 2] /\ i + 1 \in 1..(n - 1) /\ i + 1 + 1 = i + 2
      BY <1>1, <1>2, <2>3
    <3> QED
      BY <1>1, <3>1
  <2> QED
    BY <1>1, <2>1, <2>2, <2>3
<1>7. Members(n - 1, d) = Members(n, c) \ {c[p]}
  <2>1. \A i \in 1..(n - 1) : d[i] \in Members(n, c) \ {c[p]}
    BY <1>3, <1>4 DEF Members
  <2>2. \A i \in 1..n : i # p => \E j \in 1..(n - 1) : d[j] = c[i]
    <3> SUFFICES ASSUME NEW i \in 1..n, i # p PROVE \E j \in 1..(n - 1) : d[j] = c[i]
      OBVIOUS
    <3>1. CASE i < p
      <4>1. i \in 1..(n - 1) /\ d[i] = c[i]
        BY <1>1, <1>2, <3>1
      <4> QED
        BY <4>1
    <3>2. CASE i > p
      <4>1. i - 1 \in 1..(n - 1) /\ d[i - 1] = c[i]
        BY <1>1, <1>2, <3>2
      <4> QED
        BY <4>1
    <3> QED
      BY <1>1, <3>1, <3>2
  <2> QED
    BY <2>1, <2>2 DEF Members
<1>8. Chain(h, n - 1, d)
  BY <1>1, <1>2, <1>4, <1>5, <1>6 DEF Chain
<1> QED
  BY <1>2, <1>7, <1>8

-----------------------------------------------------------------------------
(***************************************************************************)
(* The walk down a list whose links are those of a chain.                  *)
(***************************************************************************)

\* A set of natural numbers has a least element: induction over the walk.
LEMMA LeastElement ==
  ASSUME NEW T \in SUBSET Nat, T # {}
  PROVE  \E i \in T : \A j \in T : i <= j
<1> DEFINE R == OpToRel(<, Nat)
<1>1. \A i, j \in Nat : j < i => <<j, i>> \in R
  BY Zenon DEF OpToRel
<1>2. IsWellFoundedOn(R, Nat)
  BY NatLessThanWellFounded, Zenon
<1> HIDE DEF R
<1>3. PICK i \in T : \A j \in T : <<j, i>> \notin R
  BY <1>2, WFMin, Zenon
<1>4. \A j \in T : ~(j < i)
  BY <1>1, <1>3, Zenon
<1>5. \A j \in T : i <= j
  BY <1>4
<1> QED
  BY <1>5

\* A chain has as many elements as it has positions, and no more than the pool.
LEMMA ChainLength ==
  ASSUME Numbered, NEW h \in Heads, NEW n, NEW c, Chain(h, n, c)
  PROVE  /\ n \in Nat /\ n <= Cardinality(Elements)
         /\ Members(n, c) \subseteq Elements
         /\ IsFiniteSet(Members(n, c)) /\ Cardinality(Members(n, c)) = n
<1> DEFINE f == [i \in 1..n |-> c[i]]
<1>1. n \in Nat /\ f \in Bijection(1..n, Members(n, c))
  BY DEF Chain, Members, Bijection, Injection, Surjection, IsInjective
<1>2. Cardinality(Members(n, c)) = n
  BY <1>1, FS_CountingElements DEF ExistsBijection
<1>3. Members(n, c) \in SUBSET Elements
  BY DEF Chain, Members
<1> QED
  BY <1>1, <1>2, <1>3, NumberedFacts, FS_Subset

LEMMA WalkIsChain ==
  ASSUME Numbered, NEW h \in Heads, NEW n, NEW c, Chain(h, n, c), Linked(n, c, {}, {})
  PROVE  \A i \in 0..Cardinality(Elements) :
           Walk(h)[i] = IF i < n THEN c[i + 1] ELSE NULL
<1> DEFINE N == Cardinality(Elements)
           g == [i \in 0..N |-> IF i < n THEN c[i + 1] ELSE NULL]
           R(w) == w = [i \in 0..N |-> IF i = 0 THEN next[h]
                          ELSE IF w[i - 1] = NULL THEN NULL ELSE next[w[i - 1]]]
           W == CHOOSE w : R(w)
<1>1. N \in Nat /\ n \in Nat /\ n <= N
  BY ChainLength, NumberedFacts, FS_CardinalityType
<1>2. /\ c[0] = h /\ c[n + 1] = NULL
      /\ \A i \in 0..n : next[c[i]] = c[i + 1]
      /\ \A i \in 0..(n + 1) : c[i] = NULL => i = n + 1
  <2>1. \A i \in 0..(n + 1) : c[i] = NULL => i = n + 1
    BY ChainFacts
  <2> QED
    BY <2>1 DEF Chain, Linked
<1>3. Walk(h) = W
  BY DEF Walk
<1> HIDE DEF N
<1>4. R(g)
  <2>1. \A i \in 0..N :
          (IF i < n THEN c[i + 1] ELSE NULL)
            = IF i = 0 THEN next[h] ELSE IF g[i - 1] = NULL THEN NULL ELSE next[g[i - 1]]
    <3> SUFFICES ASSUME NEW i \in 0..N
                 PROVE  (IF i < n THEN c[i + 1] ELSE NULL)
                          = IF i = 0 THEN next[h]
                            ELSE IF g[i - 1] = NULL THEN NULL ELSE next[g[i - 1]]
      OBVIOUS
    <3>1. CASE i = 0
      BY <1>1, <1>2, <3>1
    <3>2. CASE i # 0 /\ i <= n
      <4>1. g[i - 1] = c[i] /\ c[i] # NULL /\ next[c[i]] = c[i + 1]
        BY <1>1, <1>2, <3>2
      <4> QED
        BY <1>1, <1>2, <3>2, <4>1
    <3>3. CASE i > n
      <4>1. g[i - 1] = NULL
        BY <1>1, <3>3
      <4> QED
        BY <1>1, <3>3, <4>1
    <3> QED
      BY <1>1, <3>1, <3>2, <3>3
  <2> QED
    BY <2>1
<1>5. R(W)
  <2> HIDE DEF R, g
  <2> QED
    BY <1>4, Zenon
<1>6. \A i \in 0..N : W[i] = g[i]
  <2> DEFINE T == {i \in 0..N : W[i] # g[i]}
  <2> HIDE DEF W, g
  <2> SUFFICES ASSUME T # {} PROVE FALSE
    OBVIOUS
  <2>1. PICK i \in T : \A j \in T : i <= j
    <3>1. T \in SUBSET Nat
      BY <1>1
    <3> QED
      BY <3>1, LeastElement, Zenon
  <2>2. i # 0 => W[i - 1] = g[i - 1]
    BY <1>1, <2>1
  <2> QED
    BY <1>1, <1>4, <1>5, <2>1, <2>2
<1> QED
  BY <1>3, <1>6 DEF N

\* A list whose links are those of a chain holds its elements and is well formed.
LEMMA ChainIsWellFormed ==
  ASSUME Numbered, NEW h \in Heads, NEW n, NEW c, Chain(h, n, c), Linked(n, c, {}, {})
  PROVE  Contents(h) = Members(n, c) /\ WellFormed(h)
<1> DEFINE N == Cardinality(Elements)
<1>1. N \in Nat /\ n \in Nat /\ n <= N
  BY ChainLength, NumberedFacts, FS_CardinalityType
<1>2. \A i \in 0..N : Walk(h)[i] = IF i < n THEN c[i + 1] ELSE NULL
  BY WalkIsChain
<1>3. /\ c[0] = h /\ c[n + 1] = NULL
      /\ \A i \in 0..n : next[c[i]] = c[i + 1]
      /\ \A i \in 1..n : prev[c[i]] = c[i - 1]
      /\ \A i \in 1..n : c[i] \in Elements
      /\ \A i \in 1..(n - 1) : key[c[i]] <= key[c[i + 1]]
  BY DEF Chain, Linked
<1>4. \A i \in 0..(n + 1) : c[i] = NULL => i = n + 1
  BY ChainFacts
<1>5. \A i, j \in 0..(n + 1) : c[i] = c[j] => i = j
  BY ChainFacts
<1> HIDE DEF N
<1>6. Contents(h) = {Walk(h)[i] : i \in 0..N} \ {NULL}
  BY DEF Contents, N
<1>7. Contents(h) = Members(n, c)
  <2>1. \A i \in 0..N : Walk(h)[i] # NULL => i + 1 \in 1..n /\ Walk(h)[i] = c[i + 1]
    BY <1>1, <1>2
  <2>2. \A i \in 1..n : i - 1 \in 0..N /\ Walk(h)[i - 1] = c[i] /\ c[i] # NULL
    <3>1. \A i \in 1..n : i - 1 \in 0..N /\ i - 1 < n /\ (i - 1) + 1 = i
      BY <1>1
    <3>2. \A i \in 1..n : c[i] # NULL
      BY <1>1, <1>4
    <3> QED
      BY <1>2, <3>1, <3>2
  <2>3. Contents(h) \subseteq Members(n, c)
    BY <1>6, <2>1 DEF Members
  <2>4. Members(n, c) \subseteq Contents(h)
    BY <1>6, <2>2 DEF Members
  <2> QED
    BY <2>3, <2>4
<1>8. Walk(h)[N] = NULL
  BY <1>1, <1>2
<1>9. ASSUME NEW e \in Members(n, c)
      PROVE  /\ prev[e] # NULL /\ next[prev[e]] = e
             /\ next[h] = e => prev[e] = h
             /\ next[e] # NULL => prev[next[e]] = e /\ key[e] <= key[next[e]]
  <2>1. PICK i \in 1..n : c[i] = e
    BY DEF Members
  <2>2. prev[e] = c[i - 1] /\ next[e] = c[i + 1] /\ i - 1 \in 0..n /\ next[c[i - 1]] = e
    <3>1. i - 1 \in 0..n /\ (i - 1) + 1 = i /\ i \in 0..n
      BY <1>1
    <3> QED
      BY <1>3, <2>1, <3>1
  <2>3. c[i - 1] # NULL
    BY <1>1, <1>4, <2>2
  <2>4. next[h] = e => i = 1
    <3>1. next[h] = c[1] /\ 1 \in 0..(n + 1) /\ 0 \in 0..n /\ i \in 0..(n + 1)
      BY <1>1, <1>3
    <3> QED
      BY <1>5, <2>1, <3>1
  <2>5. c[i + 1] # NULL => i + 1 \in 1..n /\ i \in 1..(n - 1)
    BY <1>1, <1>3
  <2>6. c[i + 1] # NULL => prev[c[i + 1]] = c[i]
    BY <1>1, <1>3, <2>5
  <2> QED
    BY <1>3, <2>1, <2>2, <2>3, <2>4, <2>5, <2>6
<1> QED
  BY <1>7, <1>8, <1>9 DEF WellFormed, N

-----------------------------------------------------------------------------
(***************************************************************************)
(* The four functions, called by thread t for the list that starts at h,   *)
(* which no other thread writes.  Each definition says where in the chain  *)
(* of that list the locals of the function are, at each of its statements, *)
(* and what the function has done once it has returned.                    *)
(***************************************************************************)

\* The nodes outside S keep their links.
Untouched(S) ==
  /\ \A q \in (Elements \cup Heads) \ S : next'[q] = next[q]
  /\ \A q \in Elements \ S : prev'[q] = prev[q]

\* e is reached from the head, though its own links may not be set yet.
Linking == {"insert_back", "insert_next", "insert_prev"}
Placed(t) == frame[t].at \in Linking \cup {"returned"}

Inserting(t, h, n, c, e) ==
  LET f == frame[t] IN
  /\ e \in Elements
  /\ f.at \in InsertStatements \cup {"returned"}
  /\ f.at \in InsertStatements => f.list = h /\ f.element = e
  /\ ~Placed(t) => e \notin Members(n, c) /\ Linked(n, c, {}, {})
  /\ f.at \in {"insert", "insert_link"} => f.temp = NULL
  /\ f.at \in {"insert_loop", "insert_link"} =>
       \E p \in 0..n : /\ f.prv = c[p] /\ f.temp = c[p + 1]
                       /\ p >= 1 => key[c[p]] <= key[e]
  /\ f.at \in Linking =>
       \E p \in 1..n : c[p] = e /\ f.prv = c[p - 1] /\ f.temp = c[p + 1]
  /\ f.at = "insert_back" => f.temp # NULL /\ Linked(n, c, {e}, {e, f.temp})
  /\ f.at = "insert_next" => Linked(n, c, {e}, IF f.temp = NULL THEN {} ELSE {e})
  /\ f.at = "insert_prev" => Linked(n, c, IF f.temp = NULL THEN {e} ELSE {}, {e})
  /\ f.at = "returned" => e \in Members(n, c) /\ Linked(n, c, {}, {})

\* The element that delete takes out has the key of e.
Deleting(t, h, n, c, e) ==
  LET f == frame[t] IN
  /\ f.at \in DeleteStatements \cup {"returned"}
  /\ f.at \in DeleteStatements =>
       \E p \in 1..n :
         /\ f.element = c[p] /\ key[c[p]] = key[e]
         /\ IF f.at \in {"delete", "delete_next", "delete_unlink_next"}
              THEN Linked(n, c, {}, {})
              ELSE /\ Linked(n, c, {}, {c[p + 1]})
                   /\ c[p + 1] # NULL => prev[c[p + 1]] = c[p - 1]
         /\ f.at \in {"delete_next", "delete_unlink_next"} => c[p + 1] # NULL
  /\ f.at = "returned" => f.ret = 0 /\ Linked(n, c, {}, {})

\* There is an element with the key of e, and lookup has not passed it.
Looking(t, h, n, c, e) ==
  LET f == frame[t] IN
  /\ Linked(n, c, {}, {})
  /\ f.at \in LookupStatements \cup {"returned"}
  /\ f.at \in LookupStatements => f.list = h /\ f.element = e
  /\ f.at = "lookup" => \E j \in 1..n : key[c[j]] = key[e]
  /\ f.at = "lookup_loop" =>
       \E i \in 1..n : f.temp = c[i] /\ \E j \in i..n : key[c[j]] = key[e]
  /\ f.at = "returned" => \E i \in 1..n : f.ret = c[i] /\ key[c[i]] = key[e]

Measuring(t, h, n, c) ==
  LET f == frame[t] IN
  /\ Linked(n, c, {}, {})
  /\ f.at \in LengthStatements \cup {"returned"}
  /\ f.at = "length" => f.list = h /\ f.ret = 0
  /\ f.at = "length_loop" => \E i \in 1..(n + 1) : f.temp = c[i] /\ f.ret = i - 1
  /\ f.at = "returned" => f.ret = n

\* A chain is made of the heads, the elements and their keys, which stay.
LEMMA SameChain ==
  ASSUME key' = key
  PROVE  \A h, n, c : Chain(h, n, c)' <=> Chain(h, n, c)
BY DEF Chain, Elements

LEMMA SameLinks ==
  ASSUME UNCHANGED <<next, prev>>
  PROVE  \A n, c, N, P : Linked(n, c, N, P)' <=> Linked(n, c, N, P)
BY DEF Linked

LEMMA NothingTouched ==
  ASSUME UNCHANGED <<next, prev>>
  PROVE  \A S : Untouched(S)
BY DEF Untouched

-----------------------------------------------------------------------------
\* A statement of SortedList_insert.
LEMMA InsertCall ==
  ASSUME Numbered, ListTypeOK, NEW t \in DOMAIN frame, NEW h \in Heads, NEW n, NEW c,
         NEW e, Chain(h, n, c), Inserting(t, h, n, c, e), SortedList_insert(t)
  PROVE  /\ \E m, d : /\ Chain(h, m, d)' /\ Inserting(t, h, m, d, e)'
                      /\ Members(m, d) = IF Placed(t)' THEN Members(n, c) \cup {e}
                                                       ELSE Members(n, c)
         /\ Untouched({h} \cup Members(n, c) \cup {e})
<1> DEFINE f == frame[t]
           f2 == frame'[t]
<1>t. /\ frame \in [DOMAIN frame -> Frames] /\ f \in Frames
      /\ next \in [Elements \cup Heads -> Elements \cup {NULL}]
      /\ prev \in [Elements -> Elements \cup Heads \cup {NULL}]
      /\ key \in [Elements -> Nat]
      /\ NULL \notin Elements /\ NULL \notin Heads
  BY NumberedFacts DEF ListTypeOK, Frames
<1>c. /\ n \in Nat /\ c[0] = h /\ c[n + 1] = NULL
      /\ \A i \in 1..n : c[i] \in Elements /\ c[i] # NULL /\ c[i] # h
      /\ \A i, j \in 0..(n + 1) : c[i] = c[j] => i = j
      /\ \A i \in 0..(n + 1) : c[i] = NULL => i = n + 1
  BY <1>t, ChainFacts, NumberedFacts DEF Chain
<1>e. e \in Elements /\ e # NULL
  BY <1>t DEF Inserting
<1>k. key' = key /\ Elements' = Elements
  BY DEF SortedList_insert, InsertEmpty, InsertNonempty, InsertFirst, InsertAdvance,
         InsertLink, InsertBack, InsertNext, InsertPrev, Elements
<1> USE DEF AtStatement, memory, Goto
\* The statements that write nothing.
<1>1. ASSUME UNCHANGED <<next, prev>>, ~Placed(t), ~Placed(t)', Inserting(t, h, n, c, e)'
      PROVE  /\ \E m, d : /\ Chain(h, m, d)' /\ Inserting(t, h, m, d, e)'
                          /\ Members(m, d) = IF Placed(t)' THEN Members(n, c) \cup {e}
                                                           ELSE Members(n, c)
             /\ Untouched({h} \cup Members(n, c) \cup {e})
  BY <1>1, <1>k, SameChain, NothingTouched
<1>2. CASE InsertEmpty(t)
  <2>1. /\ f.at = "insert" /\ f.list = h /\ f.element = e /\ f.temp = NULL
        /\ next[h] = NULL /\ UNCHANGED <<next, prev>>
        /\ f2 = [f EXCEPT !.prv = h, !.at = "insert_link"]
    BY <1>2, <1>t DEF InsertEmpty, Inserting, InsertStatements
  <2>2. e \notin Members(n, c) /\ Linked(n, c, {}, {})
    BY <2>1 DEF Inserting, Placed, Linking
  <2>3. n = 0
    <3>1. c[1] = NULL
      BY <1>c, <2>1, <2>2 DEF Linked
    <3> QED
      BY <1>c, <3>1
  <2>4. /\ f2.at = "insert_link" /\ f2.list = h /\ f2.element = e /\ f2.temp = NULL
        /\ f2.prv = h
    BY <1>t, <2>1 DEF Frames
  <2>5. Inserting(t, h, n, c, e)' /\ ~Placed(t) /\ ~Placed(t)'
    BY <1>c, <1>e, <1>k, <2>1, <2>2, <2>3, <2>4, SameLinks
       DEF Inserting, Placed, Linking, InsertStatements
  <2> QED
    BY <1>1, <2>1, <2>5
<1>3. CASE InsertNonempty(t)
  <2>1. /\ f.at = "insert" /\ f.list = h /\ f.element = e
        /\ UNCHANGED <<next, prev>>
        /\ f2 = [f EXCEPT !.at = "insert_first"]
    BY <1>3, <1>t DEF InsertNonempty, Inserting, InsertStatements
  <2>2. e \notin Members(n, c) /\ Linked(n, c, {}, {})
    BY <2>1 DEF Inserting, Placed, Linking
  <2>3. f2.at = "insert_first" /\ f2.list = h /\ f2.element = e
    BY <1>t, <2>1 DEF Frames
  <2>4. Inserting(t, h, n, c, e)' /\ ~Placed(t) /\ ~Placed(t)'
    BY <1>e, <1>k, <2>1, <2>2, <2>3, SameLinks
       DEF Inserting, Placed, Linking, InsertStatements
  <2> QED
    BY <1>1, <2>1, <2>4
<1>4. CASE InsertFirst(t)
  <2>1. /\ f.at = "insert_first" /\ f.list = h /\ f.element = e
        /\ UNCHANGED <<next, prev>>
        /\ f2 = [f EXCEPT !.temp = next[h], !.prv = h, !.at = "insert_loop"]
    BY <1>4, <1>t DEF InsertFirst, Inserting, InsertStatements
  <2>2. e \notin Members(n, c) /\ Linked(n, c, {}, {})
    BY <2>1 DEF Inserting, Placed, Linking
  <2>3. next[h] = c[0 + 1] /\ 0 \in 0..n /\ h = c[0]
    BY <1>c, <2>2 DEF Linked
  <2>4. /\ f2.at = "insert_loop" /\ f2.list = h /\ f2.element = e
        /\ f2.prv = c[0] /\ f2.temp = c[0 + 1]
    BY <1>t, <2>1, <2>3 DEF Frames
  <2>5. \E p \in 0..n : /\ f2.prv = c[p] /\ f2.temp = c[p + 1]
                        /\ p >= 1 => key[c[p]] <= key[e]
    BY <2>3, <2>4
  <2>6. Inserting(t, h, n, c, e)' /\ ~Placed(t) /\ ~Placed(t)'
    BY <1>e, <1>k, <2>1, <2>2, <2>4, <2>5, SameLinks
       DEF Inserting, Placed, Linking, InsertStatements
  <2> QED
    BY <1>1, <2>1, <2>6
<1>5. CASE InsertAdvance(t)
  <2>1. /\ f.at = "insert_loop" /\ f.list = h /\ f.element = e
        /\ UNCHANGED <<next, prev>> /\ f.temp # NULL /\ key[e] >= key[f.temp]
        /\ f2 = [f EXCEPT !.prv = f.temp, !.temp = next[f.temp]]
    BY <1>5, <1>t DEF InsertAdvance, Inserting, InsertStatements, GoesBehind
  <2>2. e \notin Members(n, c) /\ Linked(n, c, {}, {})
    BY <2>1 DEF Inserting, Placed, Linking
  <2>3. PICK p \in 0..n : f.prv = c[p] /\ f.temp = c[p + 1]
    BY <2>1 DEF Inserting
  <2>4. p + 1 \in 1..n /\ p + 1 \in 0..n
    BY <1>c, <2>1, <2>3
  <2>5. next[f.temp] = c[(p + 1) + 1]
    BY <2>2, <2>3, <2>4 DEF Linked
  <2>6. /\ f2.at = "insert_loop" /\ f2.list = h /\ f2.element = e
        /\ f2.prv = c[p + 1] /\ f2.temp = c[(p + 1) + 1]
    BY <1>t, <2>1, <2>3, <2>5 DEF Frames
  <2>7. key[c[p + 1]] <= key[e]
    <3>1. key[e] \in Nat /\ key[c[p + 1]] \in Nat
      BY <1>t, <1>c, <1>e, <2>4
    <3> QED
      BY <2>1, <2>3, <3>1
  <2>8. \E q \in 0..n : /\ f2.prv = c[q] /\ f2.temp = c[q + 1]
                        /\ q >= 1 => key[c[q]] <= key[e]
    BY <2>4, <2>6, <2>7
  <2>9. Inserting(t, h, n, c, e)' /\ ~Placed(t) /\ ~Placed(t)'
    BY <1>e, <1>k, <2>1, <2>2, <2>6, <2>8, SameLinks
       DEF Inserting, Placed, Linking, InsertStatements
  <2> QED
    BY <1>1, <2>1, <2>9
\* prv->next = element: the chain gets its new element.
<1>6. CASE InsertLink(t)
  <2>1. /\ f.at \in {"insert_link", "insert_loop"} /\ f.list = h /\ f.element = e
        /\ f.at = "insert_loop" => f.temp = NULL \/ ~(key[e] >= key[f.temp])
        /\ f.at = "insert_link" => f.temp = NULL
        /\ next' = [next EXCEPT ![f.prv] = e] /\ prev' = prev
        /\ f2 = [f EXCEPT !.at = IF f.temp = NULL THEN "insert_prev" ELSE "insert_back"]
    BY <1>6, <1>t DEF InsertLink, Inserting, InsertStatements, GoesBehind
  <2>2. e \notin Members(n, c) /\ Linked(n, c, {}, {})
    BY <2>1 DEF Inserting, Placed, Linking
  <2>3. PICK p \in 0..n : /\ f.prv = c[p] /\ f.temp = c[p + 1]
                          /\ p >= 1 => key[c[p]] <= key[e]
    BY <2>1 DEF Inserting
  <2>4. p < n => key[e] <= key[c[p + 1]]
    <3> SUFFICES ASSUME p < n PROVE key[e] <= key[c[p + 1]]
      OBVIOUS
    <3>1. c[p + 1] \in Elements /\ c[p + 1] # NULL
      BY <1>c
    <3>2. key[e] \in Nat /\ key[c[p + 1]] \in Nat
      BY <1>t, <1>e, <3>1
    <3> QED
      BY <2>1, <2>3, <3>1, <3>2
  <2>5. PICK d : /\ Chain(h, n + 1, d)
                 /\ \A i \in 0..p : d[i] = c[i]
                 /\ d[p + 1] = e
                 /\ \A i \in (p + 2)..(n + 2) : d[i] = c[i - 1]
                 /\ Members(n + 1, d) = Members(n, c) \cup {e}
    BY <1>t, <1>e, <2>2, <2>3, <2>4, ChainInsert
  <2>6. /\ f2.at = IF f.temp = NULL THEN "insert_prev" ELSE "insert_back"
        /\ f2.list = h /\ f2.element = e /\ f2.prv = c[p] /\ f2.temp = c[p + 1]
    BY <1>t, <2>1, <2>3 DEF Frames
  <2>7. /\ p + 1 \in 1..(n + 1) /\ (p + 1) - 1 = p /\ d[p] = c[p] /\ d[(p + 1) + 1] = c[p + 1]
        /\ p \in Nat
    <3>1. p + 2 \in (p + 2)..(n + 2) /\ p \in 0..p /\ (p + 2) - 1 = p + 1 /\ (p + 1) + 1 = p + 2
      BY <1>c
    <3> QED
      BY <1>c, <2>5, <3>1
  <2>8. c[p] \in Elements \cup Heads
    BY <1>c, ChainFacts
  <2>9. \A i \in 0..n : i # p => next'[c[i]] = c[i + 1]
    <3> SUFFICES ASSUME NEW i \in 0..n, i # p PROVE next'[c[i]] = c[i + 1]
      OBVIOUS
    <3>1. c[i] # c[p]
      BY <1>c
    <3> QED
      BY <1>t, <2>1, <2>2, <2>3, <3>1 DEF Linked
  <2>10. next'[c[p]] = e
    BY <1>t, <2>1, <2>3, <2>8
  <2>11. \A i \in 0..(n + 1) : d[i] # e => next'[d[i]] = d[i + 1]
    <3> SUFFICES ASSUME NEW i \in 0..(n + 1), d[i] # e PROVE next'[d[i]] = d[i + 1]
      OBVIOUS
    <3>1. CASE i < p
      <4>1. d[i] = c[i] /\ d[i + 1] = c[i + 1] /\ i \in 0..n /\ i # p
        BY <1>c, <2>5, <3>1
      <4> QED
        BY <2>9, <4>1
    <3>2. CASE i = p
      BY <2>5, <2>7, <2>10, <3>2
    <3>3. CASE i > p
      <4>1. i # p + 1
        BY <2>5
      <4>2. i - 1 \in 0..n /\ i - 1 # p /\ (i - 1) + 1 = i
        BY <1>c, <3>3, <4>1
      <4>3. d[i] = c[i - 1] /\ d[i + 1] = c[i]
        BY <1>c, <2>5, <3>3, <4>1
      <4> QED
        BY <2>9, <4>2, <4>3
    <3> QED
      BY <1>c, <3>1, <3>2, <3>3
  <2>12. \A i \in 1..(n + 1) : d[i] \notin {e, c[p + 1]} => prev'[d[i]] = d[i - 1]
    <3> SUFFICES ASSUME NEW i \in 1..(n + 1), d[i] \notin {e, c[p + 1]}
                 PROVE  prev'[d[i]] = d[i - 1]
      OBVIOUS
    <3>1. CASE i <= p
      <4>1. d[i] = c[i] /\ d[i - 1] = c[i - 1] /\ i \in 1..n
        BY <1>c, <2>5, <3>1
      <4> QED
        BY <2>1, <2>2, <4>1 DEF Linked
    <3>2. CASE i > p
      <4>1. i # p + 1 /\ i # p + 2
        BY <2>5, <2>7
      <4>2. d[i] = c[i - 1] /\ d[i - 1] = c[(i - 1) - 1] /\ i - 1 \in 1..n
        BY <1>c, <2>5, <3>2, <4>1
      <4> QED
        BY <2>1, <2>2, <4>2 DEF Linked
    <3> QED
      BY <1>c, <3>1, <3>2
  <2>13. Linked(n + 1, d, {e}, {e, c[p + 1]})'
    BY <2>11, <2>12 DEF Linked
  <2>14. c[p + 1] = NULL => Linked(n + 1, d, {e}, {e})'
    <3>1. \A i \in 1..(n + 1) : d[i] # NULL
      BY <1>t, <2>5 DEF Chain
    <3> QED
      BY <2>11, <2>12, <3>1 DEF Linked
  <2>15. Inserting(t, h, n + 1, d, e)' /\ Placed(t)'
    <3>1. d[p + 1] = e /\ f2.prv = d[(p + 1) - 1] /\ f2.temp = d[(p + 1) + 1]
      BY <2>5, <2>6, <2>7
    <3>2. \E q \in 1..(n + 1) : d[q] = e /\ f2.prv = d[q - 1] /\ f2.temp = d[q + 1]
      BY <2>7, <3>1
    <3>3. CASE f.temp = NULL
      <4>1. f2.at = "insert_prev" /\ f2.temp = NULL /\ Linked(n + 1, d, {e}, {e})'
        BY <2>3, <2>6, <2>14, <3>3
      <4> QED
        BY <1>e, <1>k, <2>6, <3>2, <4>1
           DEF Inserting, Placed, Linking, InsertStatements
    <3>4. CASE f.temp # NULL
      <4>1. /\ f2.at = "insert_back" /\ f2.temp # NULL
            /\ f2.temp = c[p + 1] /\ Linked(n + 1, d, {e}, {e, c[p + 1]})'
        BY <2>3, <2>6, <2>13, <3>4
      <4> QED
        BY <1>e, <1>k, <2>6, <3>2, <4>1
           DEF Inserting, Placed, Linking, InsertStatements
    <3> QED
      BY <3>3, <3>4
  <2>16. Untouched({h} \cup Members(n, c) \cup {e})
    <3>1. c[p] \in {h} \cup Members(n, c)
      BY <1>c DEF Members
    <3> QED
      BY <1>t, <2>1, <2>3, <3>1 DEF Untouched
  <2> QED
    BY <1>k, <2>5, <2>15, <2>16, SameChain
\* The statements that write a link of the new element or of the one behind it.
<1>7. CASE InsertBack(t) \/ InsertNext(t) \/ InsertPrev(t)
  <2>1. /\ f.at \in Linking /\ f.list = h /\ f.element = e
    BY <1>7 DEF InsertBack, InsertNext, InsertPrev, Inserting, InsertStatements, Linking
  <2>2. PICK p \in 1..n : c[p] = e /\ f.prv = c[p - 1] /\ f.temp = c[p + 1]
    BY <2>1 DEF Inserting
  <2>3. /\ \A i \in 0..n : c[i] = e <=> i = p
        /\ f.temp # NULL => p + 1 \in 1..n
        /\ \A i \in 1..n : c[i] = c[p + 1] <=> i = p + 1
        /\ f.temp \in Elements \cup {NULL}
    <3>1. f.temp # NULL => p + 1 \in 1..n
      BY <1>c, <2>2
    <3> QED
      BY <1>c, <2>2, <3>1
  <2>4. ASSUME Inserting(t, h, n, c, e)', Placed(t)',
               \A q \in Elements \cup Heads : q # e => next'[q] = next[q],
               \A q \in Elements : q \notin {e, f.temp} => prev'[q] = prev[q]
        PROVE  /\ \E m, d : /\ Chain(h, m, d)' /\ Inserting(t, h, m, d, e)'
                            /\ Members(m, d) = IF Placed(t)' THEN Members(n, c) \cup {e}
                                                             ELSE Members(n, c)
               /\ Untouched({h} \cup Members(n, c) \cup {e})
    <3>1. e \in Members(n, c) /\ (f.temp \in Elements => f.temp \in Members(n, c))
      BY <1>t, <2>2, <2>3 DEF Members
    <3>2. Untouched({h} \cup Members(n, c) \cup {e})
      BY <2>4, <3>1 DEF Untouched
    <3>3. Members(n, c) = Members(n, c) \cup {e}
      BY <3>1
    <3> QED
      BY <1>k, <2>4, <3>2, <3>3, SameChain
  <2>5. CASE InsertBack(t)
    <3>1. /\ f.temp # NULL /\ Linked(n, c, {e}, {e, f.temp})
          /\ prev' = [prev EXCEPT ![f.temp] = e] /\ next' = next
          /\ f2 = [f EXCEPT !.at = "insert_next"]
      BY <1>t, <2>1, <2>5 DEF InsertBack, Inserting
    <3>2. /\ f2.at = "insert_next" /\ f2.list = h /\ f2.element = e
          /\ f2.prv = c[p - 1] /\ f2.temp = c[p + 1] /\ f2.temp # NULL
      BY <1>t, <2>1, <2>2, <3>1 DEF Frames
    <3>3. prev'[c[p + 1]] = c[(p + 1) - 1]
      BY <1>t, <1>c, <2>2, <2>3, <3>1
    <3>4. \A i \in 1..n : c[i] # e => prev'[c[i]] = c[i - 1]
      BY <1>t, <2>2, <2>3, <3>1, <3>3 DEF Linked
    <3>5. Linked(n, c, {e}, {e})'
      BY <3>1, <3>4 DEF Linked
    <3>6. Inserting(t, h, n, c, e)' /\ Placed(t)'
      BY <1>e, <1>k, <2>2, <3>2, <3>5 DEF Inserting, Placed, Linking, InsertStatements
    <3> QED
      BY <1>t, <2>4, <3>1, <3>6
  <2>6. CASE InsertNext(t)
    <3>1. /\ f.at = "insert_next" /\ Linked(n, c, {e}, IF f.temp = NULL THEN {} ELSE {e})
          /\ next' = [next EXCEPT ![e] = f.temp] /\ prev' = prev
      BY <2>1, <2>6 DEF InsertNext, Inserting
    <3>2. next'[e] = c[p + 1]
      BY <1>t, <1>e, <2>2, <3>1
    <3>3. \A i \in 0..n : next'[c[i]] = c[i + 1]
      BY <1>t, <2>2, <2>3, <3>1, <3>2 DEF Linked
    <3>4. CASE f.temp = NULL
      <4>1. f2 = Frame("returned", NULL, NULL, 0)
        BY <1>t, <2>6, <3>4 DEF InsertNext, Return
      <4>2. f2.at = "returned"
        BY <4>1 DEF Frame
      <4>3. Linked(n, c, {}, {})'
        BY <3>1, <3>3, <3>4 DEF Linked
      <4>4. e \in Members(n, c)
        BY <2>2 DEF Members
      <4>5. Inserting(t, h, n, c, e)' /\ Placed(t)'
        BY <1>e, <1>k, <4>2, <4>3, <4>4
           DEF Inserting, Placed, Linking, InsertStatements
      <4> QED
        BY <1>t, <2>4, <3>1, <4>5
    <3>5. CASE f.temp # NULL
      <4>1. f2 = [f EXCEPT !.at = "insert_prev"]
        BY <1>t, <2>6, <3>5 DEF InsertNext
      <4>2. /\ f2.at = "insert_prev" /\ f2.list = h /\ f2.element = e
            /\ f2.prv = c[p - 1] /\ f2.temp = c[p + 1] /\ f2.temp # NULL
        BY <1>t, <2>1, <2>2, <3>5, <4>1 DEF Frames
      <4>3. Linked(n, c, {}, {e})'
        BY <3>1, <3>3, <3>5 DEF Linked
      <4>4. Inserting(t, h, n, c, e)' /\ Placed(t)'
        BY <1>e, <1>k, <2>2, <4>2, <4>3
           DEF Inserting, Placed, Linking, InsertStatements
      <4> QED
        BY <1>t, <2>4, <3>1, <4>4
    <3> QED
      BY <3>4, <3>5
  <2>7. CASE InsertPrev(t)
    <3>1. /\ f.at = "insert_prev" /\ Linked(n, c, IF f.temp = NULL THEN {e} ELSE {}, {e})
          /\ prev' = [prev EXCEPT ![e] = f.prv] /\ next' = next
      BY <2>1, <2>7 DEF InsertPrev, Inserting
    <3>2. prev'[e] = c[p - 1]
      BY <1>t, <1>e, <2>2, <3>1
    <3>3. \A i \in 1..n : prev'[c[i]] = c[i - 1]
      <4>1. \A i \in 1..n : i \in 0..n
        BY <1>c
      <4> QED
        BY <1>t, <2>2, <2>3, <3>1, <3>2, <4>1 DEF Linked
    <3>4. CASE f.temp # NULL
      <4>1. f2 = Frame("returned", NULL, NULL, 0)
        BY <1>t, <2>7, <3>4 DEF InsertPrev, Return
      <4>2. f2.at = "returned"
        BY <4>1 DEF Frame
      <4>3. Linked(n, c, {}, {})'
        BY <3>1, <3>3, <3>4 DEF Linked
      <4>4. e \in Members(n, c)
        BY <2>2 DEF Members
      <4>5. Inserting(t, h, n, c, e)' /\ Placed(t)'
        BY <1>e, <1>k, <4>2, <4>3, <4>4
           DEF Inserting, Placed, Linking, InsertStatements
      <4> QED
        BY <1>t, <2>4, <3>1, <4>5
    <3>5. CASE f.temp = NULL
      <4>1. f2 = [f EXCEPT !.at = "insert_next"]
        BY <1>t, <2>7, <3>5 DEF InsertPrev
      <4>2. /\ f2.at = "insert_next" /\ f2.list = h /\ f2.element = e
            /\ f2.prv = c[p - 1] /\ f2.temp = c[p + 1] /\ f2.temp = NULL
        BY <1>t, <2>1, <2>2, <3>5, <4>1 DEF Frames
      <4>3. Linked(n, c, {e}, {})'
        BY <3>1, <3>3, <3>5 DEF Linked
      <4>4. Inserting(t, h, n, c, e)' /\ Placed(t)'
        BY <1>e, <1>k, <2>2, <4>2, <4>3
           DEF Inserting, Placed, Linking, InsertStatements
      <4> QED
        BY <1>t, <2>4, <3>1, <4>4
    <3> QED
      BY <3>4, <3>5
  <2> QED
    BY <1>7, <2>5, <2>6, <2>7
<1> QED
  BY <1>2, <1>3, <1>4, <1>5, <1>6, <1>7 DEF SortedList_insert

\* A statement of SortedList_delete.
LEMMA DeleteCall ==
  ASSUME Numbered, ListTypeOK, NEW t \in DOMAIN frame, NEW h \in Heads, NEW n, NEW c,
         NEW e, Chain(h, n, c), Deleting(t, h, n, c, e), SortedList_delete(t)
  PROVE  /\ \E m, d : /\ Chain(h, m, d)' /\ Deleting(t, h, m, d, e)'
                      /\ IF Returned(t)'
                           THEN \E x \in Members(n, c) :
                                  key[x] = key[e] /\ Members(m, d) = Members(n, c) \ {x}
                           ELSE Members(m, d) = Members(n, c)
         /\ Untouched({h} \cup Members(n, c))
<1> DEFINE f == frame[t]
           f2 == frame'[t]
           Early == {"delete", "delete_next", "delete_unlink_next"}
<1>t. /\ frame \in [DOMAIN frame -> Frames] /\ f \in Frames
      /\ next \in [Elements \cup Heads -> Elements \cup {NULL}]
      /\ prev \in [Elements -> Elements \cup Heads \cup {NULL}]
      /\ key \in [Elements -> Nat]
      /\ NULL \notin Elements /\ NULL \notin Heads
  BY NumberedFacts DEF ListTypeOK, Frames
<1>c. /\ n \in Nat /\ c[0] = h /\ c[n + 1] = NULL
      /\ \A i \in 1..n : c[i] \in Elements /\ c[i] # NULL
      /\ \A i, j \in 0..(n + 1) : c[i] = c[j] => i = j
      /\ \A i \in 0..(n + 1) : c[i] = NULL => i = n + 1
  BY <1>t, ChainFacts DEF Chain
<1>k. key' = key /\ Elements' = Elements
  BY DEF SortedList_delete, DeleteTestNext, DeleteCheckNext, DeleteUnlinkNext,
         DeleteTestPrev, DeleteCheckPrev, DeleteUnlinkPrev, Elements
<1>a. f.at \in DeleteStatements
  BY DEF SortedList_delete, DeleteTestNext, DeleteCheckNext, DeleteUnlinkNext,
         DeleteTestPrev, DeleteCheckPrev, DeleteUnlinkPrev, DeleteStatements, AtStatement
<1>p. PICK p \in 1..n :
        /\ f.element = c[p] /\ key[c[p]] = key[e]
        /\ IF f.at \in Early
             THEN Linked(n, c, {}, {})
             ELSE /\ Linked(n, c, {}, {c[p + 1]})
                  /\ c[p + 1] # NULL => prev[c[p + 1]] = c[p - 1]
        /\ f.at \in {"delete_next", "delete_unlink_next"} => c[p + 1] # NULL
  BY <1>a DEF Deleting
<1>n. /\ p \in 0..n /\ p - 1 \in 0..n /\ (p - 1) + 1 = p /\ p + 1 \in 1..(n + 1)
      /\ c[p] \in Elements /\ c[p - 1] # NULL /\ c[p - 1] \in Elements \cup Heads
      /\ c[p] # c[p + 1] /\ (c[p + 1] # NULL => p + 1 \in 1..n /\ c[p + 1] \in Elements)
  <2>1. p \in 0..n /\ p - 1 \in 0..n /\ (p - 1) + 1 = p /\ p + 1 \in 1..(n + 1)
    BY <1>c
  <2>2. c[p] \in Elements /\ c[p - 1] # NULL /\ c[p] # c[p + 1]
    BY <1>c, <2>1
  <2>3. c[p + 1] # NULL => p + 1 \in 1..n
    BY <1>c
  <2>4. c[p - 1] \in Elements \cup Heads
    BY <2>1, ChainFacts
  <2> QED
    BY <1>c, <2>1, <2>2, <2>3, <2>4
<1>l. next[c[p]] = c[p + 1] /\ prev[c[p]] = c[p - 1] /\ next[c[p - 1]] = c[p]
  BY <1>p, <1>n DEF Linked
<1> USE DEF AtStatement, memory, Goto
\* The steps from statement to statement.
<1>1. ASSUME NEW at \in DeleteStatements, f2 = [f EXCEPT !.at = at],
             at \in {"delete_next", "delete_unlink_next"} => c[p + 1] # NULL,
             (IF at \in Early THEN Linked(n, c, {}, {})
                              ELSE /\ Linked(n, c, {}, {c[p + 1]})
                                   /\ c[p + 1] # NULL => prev[c[p + 1]] = c[p - 1])',
             Untouched({h} \cup Members(n, c))
      PROVE  /\ \E m, d : /\ Chain(h, m, d)' /\ Deleting(t, h, m, d, e)'
                          /\ IF Returned(t)'
                               THEN \E x \in Members(n, c) :
                                      key[x] = key[e] /\ Members(m, d) = Members(n, c) \ {x}
                               ELSE Members(m, d) = Members(n, c)
             /\ Untouched({h} \cup Members(n, c))
  <2>1. f2.at = at /\ f2.element = c[p] /\ at # "returned"
    BY <1>1, <1>t, <1>p DEF Frames, DeleteStatements
  <2>2. Deleting(t, h, n, c, e)'
    BY <1>1, <1>k, <1>p, <2>1 DEF Deleting
  <2> QED
    BY <1>1, <1>k, <2>1, <2>2, SameChain DEF Returned
<1>2. ASSUME UNCHANGED <<next, prev>>, NEW at \in DeleteStatements,
             f2 = [f EXCEPT !.at = at],
             at \in {"delete_next", "delete_unlink_next"} => c[p + 1] # NULL,
             \/ f.at \in Early /\ at \in Early
             \/ f.at \in Early /\ at \notin Early /\ c[p + 1] = NULL
             \/ f.at \notin Early /\ at \notin Early
      PROVE  /\ \E m, d : /\ Chain(h, m, d)' /\ Deleting(t, h, m, d, e)'
                          /\ IF Returned(t)'
                               THEN \E x \in Members(n, c) :
                                      key[x] = key[e] /\ Members(m, d) = Members(n, c) \ {x}
                               ELSE Members(m, d) = Members(n, c)
             /\ Untouched({h} \cup Members(n, c))
  <2>1. Linked(n, c, {}, {}) => Linked(n, c, {}, {c[p + 1]})
    BY DEF Linked
  <2>2. IF at \in Early THEN Linked(n, c, {}, {})
                        ELSE /\ Linked(n, c, {}, {c[p + 1]})
                             /\ c[p + 1] # NULL => prev[c[p + 1]] = c[p - 1]
    BY <1>2, <1>p, <2>1
  <2>3. (IF at \in Early THEN Linked(n, c, {}, {})
                         ELSE /\ Linked(n, c, {}, {c[p + 1]})
                              /\ c[p + 1] # NULL => prev[c[p + 1]] = c[p - 1])'
    BY <1>2, <2>2, SameLinks
  <2> QED
    BY <1>1, <1>2, <2>3, NothingTouched
<1>3. CASE DeleteTestNext(t)
  <2>1. /\ f.at = "delete" /\ UNCHANGED <<next, prev>>
        /\ f2 = [f EXCEPT !.at = IF c[p + 1] = NULL THEN "delete_test_prev" ELSE "delete_next"]
    BY <1>3, <1>t, <1>p, <1>l DEF DeleteTestNext
  <2>2. PICK at \in {"delete_test_prev", "delete_next"} :
          /\ f2 = [f EXCEPT !.at = at]
          /\ at = IF c[p + 1] = NULL THEN "delete_test_prev" ELSE "delete_next"
    BY <2>1
  <2> QED
    BY <1>2, <2>1, <2>2 DEF DeleteStatements
<1>4. CASE DeleteCheckNext(t)
  <2>1. f.at = "delete_next" /\ UNCHANGED <<next, prev>> /\ c[p + 1] # NULL
    BY <1>4, <1>p DEF DeleteCheckNext
  <2>2. prev[c[p + 1]] = c[p]
    <3>1. Linked(n, c, {}, {}) /\ (p + 1) - 1 = p
      BY <1>p, <1>c, <2>1
    <3> QED
      BY <1>n, <2>1, <3>1 DEF Linked
  <2>3. f2 = [f EXCEPT !.at = "delete_unlink_next"]
    BY <1>4, <1>t, <1>p, <1>l, <2>1, <2>2 DEF DeleteCheckNext
  <2> QED
    BY <1>2, <2>1, <2>3 DEF DeleteStatements
<1>5. CASE DeleteUnlinkNext(t)
  <2>1. f.at = "delete_unlink_next" /\ c[p + 1] # NULL /\ Linked(n, c, {}, {})
    BY <1>5, <1>p DEF DeleteUnlinkNext
  <2>2. /\ prev' = [prev EXCEPT ![c[p + 1]] = c[p - 1]] /\ next' = next
        /\ f2 = [f EXCEPT !.at = "delete_test_prev"]
    BY <1>5, <1>t, <1>p, <1>l, <2>1 DEF DeleteUnlinkNext
  <2>3. prev'[c[p + 1]] = c[p - 1] /\ \A q \in Elements : q # c[p + 1] => prev'[q] = prev[q]
    BY <1>t, <1>n, <2>1, <2>2
  <2>4. Linked(n, c, {}, {c[p + 1]})'
    BY <1>c, <2>1, <2>2, <2>3 DEF Linked
  <2>5. c[p + 1] \in Members(n, c)
    BY <1>n, <2>1 DEF Members
  <2>6. Untouched({h} \cup Members(n, c))
    BY <2>2, <2>3, <2>5 DEF Untouched
  <2> QED
    BY <1>1, <2>2, <2>3, <2>4, <2>6 DEF DeleteStatements
<1>6. CASE DeleteTestPrev(t)
  <2>1. /\ f.at = "delete_test_prev" /\ UNCHANGED <<next, prev>>
        /\ f2 = [f EXCEPT !.at = "delete_prev"]
    BY <1>6, <1>t, <1>p, <1>n, <1>l DEF DeleteTestPrev
  <2> QED
    BY <1>2, <2>1 DEF DeleteStatements
<1>7. CASE DeleteCheckPrev(t)
  <2>1. /\ f.at = "delete_prev" /\ UNCHANGED <<next, prev>>
        /\ f2 = [f EXCEPT !.at = "delete_unlink_prev"]
    BY <1>7, <1>t, <1>p, <1>n, <1>l DEF DeleteCheckPrev
  <2> QED
    BY <1>2, <2>1 DEF DeleteStatements
\* element->prev->next = element->next: the chain loses its element.
<1>8. CASE DeleteUnlinkPrev(t)
  <2>1. /\ f.at = "delete_unlink_prev"
        /\ Linked(n, c, {}, {c[p + 1]})
        /\ c[p + 1] # NULL => prev[c[p + 1]] = c[p - 1]
    BY <1>8, <1>p DEF DeleteUnlinkPrev
  <2>2. /\ next' = [next EXCEPT ![c[p - 1]] = c[p + 1]] /\ prev' = prev
        /\ f2 = Frame("returned", NULL, NULL, 0)
    BY <1>8, <1>t, <1>p, <1>n, <1>l DEF DeleteUnlinkPrev, Return
  <2>3. f2.at = "returned" /\ f2.ret = 0
    BY <2>2 DEF Frame
  <2>4. next'[c[p - 1]] = c[p + 1]
    BY <1>t, <1>n, <2>2
  <2>5. \A i \in 0..n : i # p - 1 => next'[c[i]] = c[i + 1]
    <3> SUFFICES ASSUME NEW i \in 0..n, i # p - 1 PROVE next'[c[i]] = c[i + 1]
      OBVIOUS
    <3>1. c[i] # c[p - 1] /\ next[c[i]] = c[i + 1]
      BY <1>c, <1>n, <2>1 DEF Linked
    <3> QED
      BY <1>t, <2>2, <3>1
  <2>6. \A i \in 1..n : i # p + 1 => prev'[c[i]] = c[i - 1]
    <3> SUFFICES ASSUME NEW i \in 1..n, i # p + 1 PROVE prev'[c[i]] = c[i - 1]
      OBVIOUS
    <3>1. c[i] # c[p + 1]
      BY <1>c, <1>n
    <3> QED
      BY <2>1, <2>2, <3>1 DEF Linked
  <2>7. PICK d : /\ Chain(h, n - 1, d)
                 /\ \A i \in 0..(p - 1) : d[i] = c[i]
                 /\ \A i \in p..n : d[i] = c[i + 1]
                 /\ Members(n - 1, d) = Members(n, c) \ {c[p]}
    BY <1>t, ChainDelete
  <2>8. \A i \in 0..(n - 1) : next'[d[i]] = d[i + 1]
    <3> SUFFICES ASSUME NEW i \in 0..(n - 1) PROVE next'[d[i]] = d[i + 1]
      OBVIOUS
    <3>1. CASE i < p - 1
      <4>1. d[i] = c[i] /\ d[i + 1] = c[i + 1] /\ i \in 0..n /\ i # p - 1
        BY <1>c, <2>7, <3>1
      <4> QED
        BY <2>5, <4>1
    <3>2. CASE i = p - 1
      <4>1. d[i] = c[p - 1] /\ d[i + 1] = c[p + 1]
        BY <1>c, <1>n, <2>7, <3>2
      <4> QED
        BY <2>4, <4>1
    <3>3. CASE i >= p
      <4>1. d[i] = c[i + 1] /\ d[i + 1] = c[(i + 1) + 1] /\ i + 1 \in 0..n /\ i + 1 # p - 1
        BY <1>c, <2>7, <3>3
      <4> QED
        BY <2>5, <4>1
    <3> QED
      BY <1>c, <3>1, <3>2, <3>3
  <2>9. \A i \in 1..(n - 1) : prev'[d[i]] = d[i - 1]
    <3> SUFFICES ASSUME NEW i \in 1..(n - 1) PROVE prev'[d[i]] = d[i - 1]
      OBVIOUS
    <3>1. CASE i < p
      <4>1. d[i] = c[i] /\ d[i - 1] = c[i - 1] /\ i \in 1..n /\ i # p + 1
        BY <1>c, <2>7, <3>1
      <4> QED
        BY <2>6, <4>1
    <3>2. CASE i = p
      <4>1. d[i] = c[p + 1] /\ d[i - 1] = c[p - 1] /\ p + 1 \in 1..n
        BY <1>c, <1>n, <2>7, <3>2
      <4>2. c[p + 1] # NULL
        BY <1>c, <4>1
      <4> QED
        BY <2>1, <2>2, <4>1, <4>2
    <3>3. CASE i > p
      <4>1. /\ d[i] = c[i + 1] /\ d[i - 1] = c[(i - 1) + 1] /\ (i + 1) - 1 = (i - 1) + 1
            /\ i + 1 \in 1..n /\ i + 1 # p + 1
        BY <1>c, <2>7, <3>3
      <4> QED
        BY <2>6, <4>1
    <3> QED
      BY <1>c, <3>1, <3>2, <3>3
  <2>10. Linked(n - 1, d, {}, {})'
    BY <2>8, <2>9 DEF Linked
  <2>11. Deleting(t, h, n - 1, d, e)' /\ Returned(t)'
    BY <2>3, <2>10 DEF Deleting, Returned, DeleteStatements
  <2>12. c[p] \in Members(n, c) /\ c[p - 1] \in {h} \cup Members(n, c)
    BY <1>c, <1>n DEF Members
  <2>13. Untouched({h} \cup Members(n, c))
    BY <1>t, <2>2, <2>12 DEF Untouched
  <2> QED
    BY <1>k, <1>p, <2>7, <2>11, <2>12, <2>13, SameChain
<1> QED
  BY <1>3, <1>4, <1>5, <1>6, <1>7, <1>8 DEF SortedList_delete

\* A statement of SortedList_lookup.
LEMMA LookupCall ==
  ASSUME Numbered, ListTypeOK, NEW t \in DOMAIN frame, NEW h \in Heads, NEW n, NEW c,
         NEW e \in Elements, Chain(h, n, c), Looking(t, h, n, c, e), SortedList_lookup(t)
  PROVE  Looking(t, h, n, c, e)' /\ UNCHANGED <<next, prev, key>>
<1> DEFINE f == frame[t]
           f2 == frame'[t]
<1>t. /\ frame \in [DOMAIN frame -> Frames] /\ f \in Frames
      /\ NULL \notin Elements
  BY NumberedFacts DEF ListTypeOK, Frames
<1>c. /\ n \in Nat /\ c[0] = h
      /\ \A i \in 1..n : c[i] \in Elements /\ c[i] # NULL /\ c[i] # h
      /\ \A i \in 0..n : next[c[i]] = c[i + 1]
  <2>1. \A i \in 1..n : c[i] \in Elements /\ c[i] # NULL /\ c[i] # h
    BY <1>t, NumberedFacts DEF Chain
  <2> QED
    BY <2>1 DEF Chain, Looking, Linked
<1>u. UNCHANGED <<next, prev, key>>
  BY DEF SortedList_lookup, LookupFirst, LookupStep, memory
<1>l. Linked(n, c, {}, {})'
  BY <1>u, SameLinks DEF Looking
<1>1. CASE LookupFirst(t)
  <2>1. f.at = "lookup" /\ f.list = h /\ f.element = e
    BY <1>1 DEF LookupFirst, AtStatement, Looking, LookupStatements
  <2>2. f2 = [f EXCEPT !.temp = next[h], !.at = "lookup_loop"]
    BY <1>1, <1>t, <2>1 DEF LookupFirst
  <2>3. /\ f2.at = "lookup_loop" /\ f2.list = h /\ f2.element = e /\ f2.temp = next[h]
    BY <1>t, <2>1, <2>2 DEF Frames
  <2>4. PICK j \in 1..n : key[c[j]] = key[e]
    BY <2>1 DEF Looking
  <2>5. 0 \in 0..n /\ next[h] = c[0 + 1] /\ 0 + 1 = 1 /\ 1 \in 1..n /\ j \in 1..n
    BY <1>c
  <2>6. \E i \in 1..n : f2.temp = c[i] /\ \E k \in i..n : key[c[k]] = key[e]
    BY <2>3, <2>4, <2>5
  <2> QED
    BY <1>u, <1>l, <2>3, <2>6 DEF Looking, LookupStatements
<1>2. CASE LookupStep(t)
  <2>1. f.at = "lookup_loop" /\ f.list = h /\ f.element = e
    BY <1>2 DEF LookupStep, AtStatement, Looking, LookupStatements
  <2>2. PICK i \in 1..n : f.temp = c[i] /\ \E j \in i..n : key[c[j]] = key[e]
    BY <2>1 DEF Looking
  <2>3. f.temp \in Elements /\ f.temp # NULL /\ f.temp # h
    BY <1>c, <2>2
  <2>4. CASE key[c[i]] = key[e]
    <3>1. f2 = Frame("returned", NULL, NULL, c[i])
      BY <1>2, <1>t, <2>1, <2>2, <2>3, <2>4 DEF LookupStep, Return
    <3>2. f2.at = "returned" /\ f2.ret = c[i]
      BY <3>1 DEF Frame
    <3> QED
      BY <1>u, <1>l, <2>4, <3>2 DEF Looking, LookupStatements
  <2>5. CASE key[c[i]] # key[e]
    <3>1. f2 = [f EXCEPT !.temp = next[c[i]]]
      BY <1>2, <1>t, <2>1, <2>2, <2>3, <2>5 DEF LookupStep
    <3>2. PICK j \in i..n : key[c[j]] = key[e]
      BY <2>2
    <3>3. i + 1 \in 1..n /\ j \in (i + 1)..n /\ next[c[i]] = c[i + 1]
      <4>1. j # i
        BY <2>5, <3>2
      <4> QED
        BY <1>c, <4>1
    <3>4. f2.at = "lookup_loop" /\ f2.list = h /\ f2.element = e /\ f2.temp = c[i + 1]
      BY <1>t, <2>1, <3>1, <3>3 DEF Frames
    <3>5. \E k \in 1..n : f2.temp = c[k] /\ \E l \in k..n : key[c[l]] = key[e]
      BY <3>2, <3>3, <3>4
    <3> QED
      BY <1>u, <1>l, <3>4, <3>5 DEF Looking, LookupStatements
  <2> QED
    BY <2>4, <2>5
<1> QED
  BY <1>1, <1>2, <1>u DEF SortedList_lookup

\* A statement of SortedList_length.
LEMMA LengthCall ==
  ASSUME Numbered, ListTypeOK, NEW t \in DOMAIN frame, NEW h \in Heads, NEW n, NEW c,
         Chain(h, n, c), Measuring(t, h, n, c), SortedList_length(t)
  PROVE  Measuring(t, h, n, c)' /\ UNCHANGED <<next, prev, key>>
<1> DEFINE f == frame[t]
           f2 == frame'[t]
<1>t. /\ frame \in [DOMAIN frame -> Frames] /\ f \in Frames
      /\ LengthCap \in Nat /\ n \in Nat /\ n < LengthCap
  BY NumberedFacts, ChainLength, FS_CardinalityType DEF ListTypeOK, Frames, LengthCap
<1>c. /\ c[0] = h
      /\ \A i \in 0..n : next[c[i]] = c[i + 1]
  BY DEF Chain, Measuring, Linked
<1>n. c[n + 1] = NULL /\ \A i \in 0..(n + 1) : c[i] = NULL => i = n + 1
  <2>1. \A i \in 0..(n + 1) : c[i] = NULL => i = n + 1
    BY ChainFacts
  <2> QED
    BY <2>1 DEF Chain
<1>u. UNCHANGED <<next, prev, key>>
  BY DEF SortedList_length, LengthFirst, LengthStep, memory
<1>l. Linked(n, c, {}, {})'
  BY <1>u, SameLinks DEF Measuring
<1>1. CASE LengthFirst(t)
  <2>1. f.at = "length" /\ f.list = h /\ f.ret = 0
    BY <1>1 DEF LengthFirst, AtStatement, Measuring
  <2>2. f2 = [f EXCEPT !.temp = next[h], !.at = "length_loop"]
    BY <1>1, <1>t, <2>1 DEF LengthFirst
  <2>3. f2.at = "length_loop" /\ f2.temp = c[1] /\ f2.ret = 0
    <3>1. next[h] = c[0 + 1]
      BY <1>t, <1>c
    <3> QED
      BY <1>t, <2>1, <2>2, <3>1 DEF Frames
  <2>4. \E i \in 1..(n + 1) : f2.temp = c[i] /\ f2.ret = i - 1
    <3>1. 1 \in 1..(n + 1) /\ 1 - 1 = 0
      BY <1>t
    <3> QED
      BY <2>3, <3>1
  <2> QED
    BY <1>u, <1>l, <2>3, <2>4 DEF Measuring, LengthStatements
<1>2. CASE LengthStep(t)
  <2>1. f.at = "length_loop"
    BY <1>2 DEF LengthStep, AtStatement
  <2>2. PICK i \in 1..(n + 1) : f.temp = c[i] /\ f.ret = i - 1
    BY <2>1 DEF Measuring
  <2>3. CASE f.temp = NULL
    <3>1. f.ret = n
      <4>1. i \in 0..(n + 1) /\ c[i] = NULL
        BY <1>t, <2>2, <2>3
      <4>2. i = n + 1
        BY <1>n, <4>1
      <4> QED
        BY <1>t, <2>2, <4>2
    <3>2. f2 = Frame("returned", NULL, NULL, n)
      BY <1>2, <1>t, <2>3, <3>1 DEF LengthStep, Return
    <3>3. f2.at = "returned" /\ f2.ret = n
      BY <3>2 DEF Frame
    <3> QED
      BY <1>u, <1>l, <3>3 DEF Measuring, LengthStatements
  <2>4. CASE f.temp # NULL
    <3>1. i \in 1..n /\ i \in 0..n /\ f.ret < LengthCap
      BY <1>t, <1>n, <2>2, <2>4
    <3>2. f2 = [f EXCEPT !.temp = next[f.temp],
                         !.ret = IF f.ret < LengthCap THEN f.ret + 1 ELSE f.ret]
      BY <1>2, <1>t, <2>4 DEF LengthStep
    <3>3. f2.at = "length_loop" /\ f2.temp = next[c[i]] /\ f2.ret = f.ret + 1
      BY <1>t, <2>1, <2>2, <3>1, <3>2 DEF Frames
    <3>4. f2.temp = c[i + 1] /\ f2.ret = (i + 1) - 1 /\ i + 1 \in 1..(n + 1)
      BY <1>t, <1>c, <2>2, <3>1, <3>3
    <3>5. \E k \in 1..(n + 1) : f2.temp = c[k] /\ f2.ret = k - 1
      BY <3>4
    <3> QED
      BY <1>u, <1>l, <3>3, <3>5 DEF Measuring, LengthStatements
  <2> QED
    BY <2>3, <2>4
<1> QED
  BY <1>1, <1>2, <1>u DEF SortedList_length

-----------------------------------------------------------------------------
(***************************************************************************)
(* Which statements follow on which: a thread stays in the function it has *)
(* called until that function returns or faults, and only delete and       *)
(* lookup dereference what they have read from the list.                   *)
(***************************************************************************)
LEMMA StepOfFunction ==
  ASSUME ListTypeOK, NEW t \in DOMAIN frame, ListStep(t)
  PROVE  \/ /\ frame[t].at \in InsertStatements /\ SortedList_insert(t)
            /\ frame'[t].at \in InsertStatements \cup {"returned"}
         \/ /\ frame[t].at \in DeleteStatements /\ SortedList_delete(t)
            /\ frame'[t].at \in DeleteStatements \cup {"returned", "fault"}
         \/ /\ frame[t].at \in LookupStatements /\ SortedList_lookup(t)
            /\ frame'[t].at \in LookupStatements \cup {"returned", "fault"}
         \/ /\ frame[t].at \in LengthStatements /\ SortedList_length(t)
            /\ frame'[t].at \in LengthStatements \cup {"returned"}
<1>1. frame \in [DOMAIN frame -> Frames] /\ frame[t] \in Frames
  BY DEF ListTypeOK, Frames
<1> USE DEF AtStatement, Goto, Return, Fault, Frame
<1>2. CASE SortedList_insert(t)
  <2>1. frame[t].at \in InsertStatements
    BY <1>2 DEF SortedList_insert, InsertEmpty, InsertNonempty, InsertFirst,
       InsertAdvance, InsertLink, InsertBack, InsertNext, InsertPrev, InsertStatements
  <2>2. CASE InsertEmpty(t) \/ InsertNonempty(t) \/ InsertFirst(t)
    BY <1>1, <1>2, <2>1, <2>2
       DEF InsertEmpty, InsertNonempty, InsertFirst, InsertStatements, Frames
  <2>3. CASE InsertAdvance(t) \/ InsertLink(t) \/ InsertBack(t)
    BY <1>1, <1>2, <2>1, <2>3
       DEF InsertAdvance, InsertLink, InsertBack, InsertStatements, Frames
  <2>4. CASE InsertNext(t) \/ InsertPrev(t)
    BY <1>1, <1>2, <2>1, <2>4 DEF InsertNext, InsertPrev, InsertStatements, Frames
  <2> QED
    BY <1>2, <2>2, <2>3, <2>4 DEF SortedList_insert
<1>3. CASE SortedList_delete(t)
  BY <1>1, <1>3 DEF SortedList_delete, DeleteTestNext, DeleteCheckNext,
     DeleteUnlinkNext, DeleteTestPrev, DeleteCheckPrev, DeleteUnlinkPrev,
     DeleteStatements, Frames
<1>4. CASE SortedList_lookup(t)
  BY <1>1, <1>4 DEF SortedList_lookup, LookupFirst, LookupStep, LookupStatements, Frames
<1>5. CASE SortedList_length(t)
  BY <1>1, <1>5 DEF SortedList_length, LengthFirst, LengthStep, LengthStatements, Frames
<1> QED
  BY <1>2, <1>3, <1>4, <1>5 DEF ListStep

-----------------------------------------------------------------------------
(***************************************************************************)
(* Counting keys.  M is what a list holds, I the elements that were        *)
(* inserted into it and D those whose keys were deleted from it, through   *)
(* one element of the key or another.                                      *)
(***************************************************************************)
OfKey(k, S) == {e \in S : key[e] = k}

Counted(M, I, D) ==
  /\ M \subseteq Elements /\ I \subseteq Elements /\ D \subseteq Elements
  /\ \A k \in Nat :
       Cardinality(OfKey(k, M)) + Cardinality(OfKey(k, D)) = Cardinality(OfKey(k, I))

Balanced(M, I, D) == Counted(M, I, D) /\ M \subseteq I /\ D \subseteq I

\* The elements of a set that have one key are finitely many, and fewer when one
\* of them is taken out.
LEMMA OfKeyCount ==
  ASSUME Numbered, NEW S \in SUBSET Elements
  PROVE  /\ IsFiniteSet(S) /\ Cardinality(S) \in Nat
         /\ \A k : Cardinality(OfKey(k, S)) \in Nat
         /\ \A k, e : e \in S =>
              Cardinality(OfKey(k, S \ {e}))
                = Cardinality(OfKey(k, S)) - (IF key[e] = k THEN 1 ELSE 0)
<1>1. IsFiniteSet(S)
  BY NumberedFacts, FS_Subset
<1>2. \A k : IsFiniteSet(OfKey(k, S)) /\ Cardinality(OfKey(k, S)) \in Nat
  <2> SUFFICES ASSUME NEW k
               PROVE  IsFiniteSet(OfKey(k, S)) /\ Cardinality(OfKey(k, S)) \in Nat
    OBVIOUS
  <2>1. OfKey(k, S) \in SUBSET S
    BY DEF OfKey
  <2>2. IsFiniteSet(OfKey(k, S))
    BY <1>1, <2>1, FS_Subset
  <2> QED
    BY <2>2, FS_CardinalityType
<1>3. ASSUME NEW k, NEW e \in S
      PROVE  Cardinality(OfKey(k, S \ {e}))
               = Cardinality(OfKey(k, S)) - (IF key[e] = k THEN 1 ELSE 0)
  <2>1. OfKey(k, S \ {e}) = OfKey(k, S) \ {e} /\ (e \in OfKey(k, S) <=> key[e] = k)
    BY DEF OfKey
  <2>2. Cardinality(OfKey(k, S) \ {e})
          = IF e \in OfKey(k, S) THEN Cardinality(OfKey(k, S)) - 1
                                 ELSE Cardinality(OfKey(k, S))
    BY <1>2, FS_RemoveElement
  <2> QED
    BY <1>2, <2>1, <2>2
<1> QED
  BY <1>1, <1>2, <1>3, FS_CardinalityType

\* An element is inserted.
LEMMA BalanceInsert ==
  ASSUME Numbered, NEW M, NEW I, NEW D, Balanced(M, I, D), NEW e \in Elements \ I
  PROVE  Balanced(M \cup {e}, I \cup {e}, D)
<1> DEFINE M2 == M \cup {e}
           I2 == I \cup {e}
<1>1. /\ M2 \in SUBSET Elements /\ I2 \in SUBSET Elements /\ D \in SUBSET Elements
      /\ M = M2 \ {e} /\ I = I2 \ {e} /\ e \in M2 /\ e \in I2
      /\ M2 \subseteq I2 /\ D \subseteq I2
  BY DEF Balanced, Counted
<1> HIDE DEF M2, I2
<1>2. ASSUME NEW k \in Nat
      PROVE  Cardinality(OfKey(k, M2)) + Cardinality(OfKey(k, D)) = Cardinality(OfKey(k, I2))
  <2>1. Cardinality(OfKey(k, M)) + Cardinality(OfKey(k, D)) = Cardinality(OfKey(k, I))
    BY DEF Balanced, Counted
  <2>2. /\ Cardinality(OfKey(k, M))
             = Cardinality(OfKey(k, M2)) - (IF key[e] = k THEN 1 ELSE 0)
        /\ Cardinality(OfKey(k, I))
             = Cardinality(OfKey(k, I2)) - (IF key[e] = k THEN 1 ELSE 0)
    BY <1>1, OfKeyCount
  <2>3. /\ Cardinality(OfKey(k, M2)) \in Nat /\ Cardinality(OfKey(k, I2)) \in Nat
        /\ Cardinality(OfKey(k, D)) \in Nat
    BY <1>1, OfKeyCount
  <2> QED
    BY <2>1, <2>2, <2>3
<1>3. Balanced(M2, I2, D)
  BY <1>1, <1>2 DEF Balanced, Counted
<1> QED
  BY <1>3 DEF M2, I2

\* The key of e is deleted, with element x.
LEMMA BalanceDelete ==
  ASSUME Numbered, NEW M, NEW I, NEW D, Balanced(M, I, D),
         NEW e \in I \ D, NEW x \in M, key[x] = key[e]
  PROVE  Balanced(M \ {x}, I, D \cup {e})
<1> DEFINE M2 == M \ {x}
           D2 == D \cup {e}
<1>1. /\ M \in SUBSET Elements /\ I \in SUBSET Elements /\ D2 \in SUBSET Elements
      /\ D = D2 \ {e} /\ e \in D2 /\ M2 \subseteq I /\ D2 \subseteq I
      /\ M2 \in SUBSET Elements
  BY DEF Balanced, Counted
<1> HIDE DEF D2
<1>2. ASSUME NEW k \in Nat
      PROVE  Cardinality(OfKey(k, M2)) + Cardinality(OfKey(k, D2)) = Cardinality(OfKey(k, I))
  <2>1. Cardinality(OfKey(k, M)) + Cardinality(OfKey(k, D)) = Cardinality(OfKey(k, I))
    BY DEF Balanced, Counted
  <2>2. Cardinality(OfKey(k, M2))
          = Cardinality(OfKey(k, M)) - (IF key[e] = k THEN 1 ELSE 0)
    BY <1>1, OfKeyCount
  <2>3. Cardinality(OfKey(k, D))
          = Cardinality(OfKey(k, D2)) - (IF key[e] = k THEN 1 ELSE 0)
    BY <1>1, OfKeyCount
  <2>4. /\ Cardinality(OfKey(k, M)) \in Nat /\ Cardinality(OfKey(k, I)) \in Nat
        /\ Cardinality(OfKey(k, D2)) \in Nat
    BY <1>1, OfKeyCount
  <2> QED
    BY <2>1, <2>2, <2>3, <2>4
<1> HIDE DEF M2
<1>3. Balanced(M2, I, D2)
  BY <1>1, <1>2 DEF Balanced, Counted
<1> QED
  BY <1>3 DEF M2, D2

\* A key that was inserted more often than it was deleted is there.
LEMMA BalanceFind ==
  ASSUME Numbered, key \in [Elements -> Nat], NEW M, NEW I, NEW D, Balanced(M, I, D),
         NEW e \in I \ D
  PROVE  \E x \in M : key[x] = key[e]
<1> DEFINE k == key[e]
<1>1. /\ M \in SUBSET Elements /\ I \in SUBSET Elements /\ D \in SUBSET I
      /\ k \in Nat /\ e \in Elements
  BY DEF Balanced, Counted
<1>2. Cardinality(OfKey(k, M)) + Cardinality(OfKey(k, D)) = Cardinality(OfKey(k, I))
  BY <1>1 DEF Balanced, Counted
<1>3. IsFiniteSet(OfKey(k, I)) /\ OfKey(k, D) \in SUBSET OfKey(k, I)
  <2>1. OfKey(k, I) \in SUBSET I /\ OfKey(k, D) \in SUBSET OfKey(k, I)
    BY <1>1 DEF OfKey
  <2> QED
    BY <1>1, <2>1, OfKeyCount, FS_Subset
<1>4. OfKey(k, D) # OfKey(k, I)
  BY DEF OfKey
<1>5. Cardinality(OfKey(k, I)) # Cardinality(OfKey(k, D))
  BY <1>3, <1>4, FS_Subset
<1>6. Cardinality(OfKey(k, D)) \in Nat /\ Cardinality(OfKey(k, M)) \in Nat
  <2>1. D \in SUBSET Elements
    BY <1>1
  <2> QED
    BY <1>1, <2>1, OfKeyCount
<1>7. Cardinality(OfKey(k, M)) # 0
  BY <1>2, <1>5, <1>6
<1>8. OfKey(k, M) # {}
  BY <1>7, FS_EmptySet
<1> QED
  BY <1>8 DEF OfKey

\* Sets that agree on every key agree on their sizes, by induction on the size of I.
LEMMA BalanceSize ==
  ASSUME Numbered, key \in [Elements -> Nat]
  PROVE  \A M, I, D : Counted(M, I, D) =>
           Cardinality(M) + Cardinality(D) = Cardinality(I)
<1> DEFINE Bad(M, I, D) == /\ Counted(M, I, D)
                           /\ Cardinality(M) + Cardinality(D) # Cardinality(I)
           T == {n \in Nat : \E M, I, D : Bad(M, I, D) /\ Cardinality(I) = n}
<1>1. \A M, I, D : Counted(M, I, D) =>
        /\ M \in SUBSET Elements /\ I \in SUBSET Elements /\ D \in SUBSET Elements
        /\ Cardinality(M) \in Nat /\ Cardinality(I) \in Nat /\ Cardinality(D) \in Nat
        /\ IsFiniteSet(M) /\ IsFiniteSet(I) /\ IsFiniteSet(D)
  BY OfKeyCount DEF Counted
<1> SUFFICES ASSUME T # {} PROVE FALSE
  BY <1>1
<1>2. PICK n \in T : \A m \in T : n <= m
  <2>1. T \in SUBSET Nat
    OBVIOUS
  <2> HIDE DEF T
  <2> QED
    BY <2>1, LeastElement
<1>3. PICK M, I, D : Bad(M, I, D) /\ Cardinality(I) = n
  BY <1>2
<1>4. /\ M \in SUBSET Elements /\ I \in SUBSET Elements /\ D \in SUBSET Elements
      /\ Cardinality(M) \in Nat /\ Cardinality(I) \in Nat /\ Cardinality(D) \in Nat
      /\ IsFiniteSet(M) /\ IsFiniteSet(I) /\ IsFiniteSet(D)
      /\ Cardinality(M) + Cardinality(D) # Cardinality(I)
  <2>1. Counted(M, I, D)
    BY <1>3
  <2> QED
    BY <1>1, <1>3, <2>1
<1>k. \A k \in Nat : /\ Cardinality(OfKey(k, M)) + Cardinality(OfKey(k, D))
                        = Cardinality(OfKey(k, I))
                   /\ Cardinality(OfKey(k, M)) \in Nat
                   /\ Cardinality(OfKey(k, D)) \in Nat
                   /\ Cardinality(OfKey(k, I)) \in Nat
  <2>1. Counted(M, I, D)
    BY <1>3
  <2> QED
    BY <1>4, <2>1, OfKeyCount DEF Counted
<1>5. ASSUME NEW S \in SUBSET Elements, NEW e \in S
      PROVE  S \ {e} \in SUBSET Elements /\ Cardinality(S \ {e}) = Cardinality(S) - 1
  <2>1. IsFiniteSet(S)
    BY OfKeyCount
  <2> QED
    BY <2>1, FS_RemoveElement
\* A smaller counterexample: one element less in I, and one of its key less in M or D.
<1>6. ASSUME NEW e \in I, NEW M2, NEW D2, Bad(M2, I \ {e}, D2) PROVE FALSE
  <2>1. Cardinality(I \ {e}) = n - 1 /\ n - 1 \in Nat
    <3>1. I # {} /\ Cardinality(I) = n /\ n # 0
      BY <1>3, <1>4, FS_EmptySet
    <3>2. Cardinality(I \ {e}) = Cardinality(I) - 1
      BY <1>4, <1>5
    <3> QED
      BY <1>4, <3>1, <3>2
  <2>2. n - 1 \in T
    BY <1>6, <2>1
  <2> QED
    BY <1>2, <2>1, <2>2
<1>7. ASSUME NEW e \in I PROVE FALSE
  <2>1. key[e] \in Nat
    BY <1>4
  <2>2. Cardinality(OfKey(key[e], I)) # 0
    <3>1. e \in OfKey(key[e], I) /\ OfKey(key[e], I) \in SUBSET I
      BY DEF OfKey
    <3> QED
      BY <1>4, <3>1, FS_EmptySet, FS_Subset
  <2>3. Cardinality(OfKey(key[e], M)) # 0 \/ Cardinality(OfKey(key[e], D)) # 0
    BY <1>k, <2>1, <2>2
  <2>4. OfKey(key[e], M) # {} \/ OfKey(key[e], D) # {}
    BY <2>3, FS_EmptySet
  <2> DEFINE I2 == I \ {e}
  <2>5. I2 \in SUBSET Elements /\ Cardinality(I2) = Cardinality(I) - 1
    BY <1>4, <1>5
  <2>8. \A k \in Nat : Cardinality(OfKey(k, I2))
                         = Cardinality(OfKey(k, I)) - (IF key[e] = k THEN 1 ELSE 0)
    BY <1>4, OfKeyCount
  <2> HIDE DEF I2
  <2>6. ASSUME NEW x \in M, key[x] = key[e] PROVE FALSE
    <3> DEFINE M2 == M \ {x}
    <3>1. M2 \in SUBSET Elements /\ Cardinality(M2) = Cardinality(M) - 1
      BY <1>4, <1>5
    <3>4. \A k \in Nat : Cardinality(OfKey(k, M2))
                           = Cardinality(OfKey(k, M)) - (IF key[e] = k THEN 1 ELSE 0)
      BY <1>4, <2>6, OfKeyCount
    <3> HIDE DEF M2
    <3>2. Counted(M2, I2, D)
      BY <1>4, <1>k, <2>5, <2>8, <3>1, <3>4 DEF Counted
    <3>3. Cardinality(M2) + Cardinality(D) # Cardinality(I2)
      BY <1>4, <2>5, <3>1
    <3> QED
      BY <1>6, <3>2, <3>3 DEF I2
  <2>7. ASSUME NEW x \in D, key[x] = key[e] PROVE FALSE
    <3> DEFINE D2 == D \ {x}
    <3>1. D2 \in SUBSET Elements /\ Cardinality(D2) = Cardinality(D) - 1
      BY <1>4, <1>5
    <3>4. \A k \in Nat : Cardinality(OfKey(k, D2))
                           = Cardinality(OfKey(k, D)) - (IF key[e] = k THEN 1 ELSE 0)
      BY <1>4, <2>7, OfKeyCount
    <3> HIDE DEF D2
    <3>2. Counted(M, I2, D2)
      BY <1>4, <1>k, <2>5, <2>8, <3>1, <3>4 DEF Counted
    <3>3. Cardinality(M) + Cardinality(D2) # Cardinality(I2)
      BY <1>4, <2>5, <3>1
    <3> QED
      BY <1>6, <3>2, <3>3 DEF I2
  <2> QED
    BY <2>4, <2>6, <2>7 DEF OfKey
<1>8. CASE I = {}
  <2>1. \A k \in Nat : Cardinality(OfKey(k, I)) = 0
    <3>1. \A k : OfKey(k, I) = {}
      BY <1>8 DEF OfKey
    <3> QED
      BY <3>1, FS_EmptySet
  <2>2. \A k \in Nat : Cardinality(OfKey(k, M)) = 0 /\ Cardinality(OfKey(k, D)) = 0
    <3> SUFFICES ASSUME NEW k \in Nat
                 PROVE  Cardinality(OfKey(k, M)) = 0 /\ Cardinality(OfKey(k, D)) = 0
      OBVIOUS
    <3>1. /\ Cardinality(OfKey(k, M)) + Cardinality(OfKey(k, D)) = 0
          /\ Cardinality(OfKey(k, M)) \in Nat /\ Cardinality(OfKey(k, D)) \in Nat
      BY <1>k, <2>1, Zenon
    <3> QED
      BY <3>1
  <2>3. \A S \in SUBSET Elements :
          (\A k \in Nat : Cardinality(OfKey(k, S)) = 0) => S = {}
    <3> SUFFICES ASSUME NEW S \in SUBSET Elements, NEW e \in S,
                        Cardinality(OfKey(key[e], S)) = 0
                 PROVE  FALSE
      OBVIOUS
    <3>1. e \in OfKey(key[e], S) /\ OfKey(key[e], S) \in SUBSET S
      BY DEF OfKey
    <3> QED
      BY <3>1, OfKeyCount, FS_EmptySet, FS_Subset
  <2>4. M = {} /\ D = {}
    BY <1>4, <2>2, <2>3
  <2> QED
    BY <1>4, <1>8, <2>4, FS_EmptySet
<1> QED
  BY <1>7, <1>8

\* A list holds as many elements as were inserted and not deleted.
LEMMA BalanceCount ==
  ASSUME Numbered, key \in [Elements -> Nat], NEW M, NEW I, NEW D, Balanced(M, I, D)
  PROVE  /\ Cardinality(M) = Cardinality(I \ D)
         /\ Cardinality(M) \in Nat /\ IsFiniteSet(I)
<1>1. /\ M \in SUBSET Elements /\ I \in SUBSET Elements /\ D \in SUBSET Elements
      /\ D \in SUBSET I /\ Counted(M, I, D)
  BY DEF Balanced, Counted
<1>2. Cardinality(M) + Cardinality(D) = Cardinality(I)
  BY <1>1, BalanceSize
<1>3. /\ IsFiniteSet(I) /\ Cardinality(M) \in Nat /\ Cardinality(D) \in Nat
      /\ Cardinality(I) \in Nat
  BY <1>1, OfKeyCount
<1>4. Cardinality(I \ D) = Cardinality(I) - Cardinality(D)
  <2>1. I \cap D = D
    BY <1>1
  <2> QED
    BY <1>3, <2>1, FS_Difference
<1> QED
  BY <1>2, <1>3, <1>4

-----------------------------------------------------------------------------
(***************************************************************************)
(* One list and the thread that has it to itself.  I are the elements      *)
(* inserted into the list and D those whose keys were deleted from it, by  *)
(* calls that are over.  kind is the call that thread t is in, for element *)
(* e, "none" when nobody is in a call for this list.                       *)
(***************************************************************************)
Calls == {"insert", "length", "lookup", "delete"}

Serving(t, kind, h, I, D, e) ==
  \E n, c :
    /\ Chain(h, n, c)
    /\ kind = "none" => Linked(n, c, {}, {}) /\ Balanced(Members(n, c), I, D)
    /\ kind = "insert" =>
         /\ e \notin I /\ Inserting(t, h, n, c, e)
         /\ Balanced(Members(n, c), IF Placed(t) THEN I \cup {e} ELSE I, D)
    /\ kind = "length" => Measuring(t, h, n, c) /\ Balanced(Members(n, c), I, D)
    /\ kind = "lookup" =>
         /\ e \in I \ D /\ Looking(t, h, n, c, e)
         /\ Balanced(Members(n, c), I, D)
    /\ kind = "delete" =>
         /\ e \in I \ D /\ Deleting(t, h, n, c, e)
         /\ Balanced(Members(n, c), I, IF Returned(t) THEN D \cup {e} ELSE D)

\* The books of a list do not depend on its memory.
LEMMA SameBalance ==
  ASSUME key' = key
  PROVE  \A M, I, D : Balanced(M, I, D)' <=> Balanced(M, I, D)
BY DEF Balanced, Counted, OfKey, Elements

\* A statement of the call.
LEMMA ServingStep ==
  ASSUME Numbered, ListTypeOK, NEW t \in DOMAIN frame, NEW kind \in Calls,
         NEW h \in Heads, NEW I, NEW D, NEW e,
         Serving(t, kind, h, I, D, e), ListStep(t), HasArguments(frame[t])
  PROVE  Serving(t, kind, h, I, D, e)' /\ Untouched({h} \cup I \cup {e})
<1>k. key' = key
  BY ListTypeStep
<1>b. \A M, J, C : Balanced(M, J, C)' <=> Balanced(M, J, C)
  BY <1>k, SameBalance
<1>c. \A n, c : Chain(h, n, c)' <=> Chain(h, n, c)
  BY <1>k, SameChain
<1>f. /\ frame[t].at \in InsertStatements => SortedList_insert(t)
      /\ frame[t].at \in DeleteStatements => SortedList_delete(t)
      /\ frame[t].at \in LookupStatements => SortedList_lookup(t)
      /\ frame[t].at \in LengthStatements => SortedList_length(t)
      /\ frame[t].at # "returned"
  BY StepOfFunction DEF InsertStatements, DeleteStatements, LookupStatements, LengthStatements
<1>u. \A S, R : Untouched(S) /\ S \subseteq R => Untouched(R)
  BY DEF Untouched
<1>1. CASE kind = "insert"
  <2>1. PICK n, c : /\ Chain(h, n, c) /\ e \notin I /\ Inserting(t, h, n, c, e)
                    /\ Balanced(Members(n, c), IF Placed(t) THEN I \cup {e} ELSE I, D)
    BY <1>1 DEF Serving
  <2>2. SortedList_insert(t)
    BY <1>f, <2>1 DEF Inserting
  <2>3. /\ \E m, d : /\ Chain(h, m, d)' /\ Inserting(t, h, m, d, e)'
                      /\ Members(m, d) = IF Placed(t)' THEN Members(n, c) \cup {e}
                                                       ELSE Members(n, c)
        /\ Untouched({h} \cup Members(n, c) \cup {e})
    BY <2>1, <2>2, InsertCall, Zenon
  <2>4. PICK m, d : /\ Chain(h, m, d)' /\ Inserting(t, h, m, d, e)'
                    /\ Members(m, d) = IF Placed(t)' THEN Members(n, c) \cup {e}
                                                     ELSE Members(n, c)
    BY <2>3, Zenon
  <2>5. Members(n, c) \subseteq I \cup {e}
    BY <2>1 DEF Balanced
  <2>6. e \in Elements /\ (Placed(t) => Placed(t)')
    <3>1. e \in Elements
      BY <2>1 DEF Inserting
    <3>2. Placed(t) => e \in Members(n, c)
      BY <2>1 DEF Inserting, Placed, Members, Linking
    <3>3. ~Placed(t)' => e \notin Members(m, d)
      BY <2>4 DEF Inserting, Placed, Linking
    <3> QED
      BY <2>4, <3>1, <3>2, <3>3
  <2>7. Balanced(Members(m, d), IF Placed(t)' THEN I \cup {e} ELSE I, D)
    <3>1. CASE Placed(t)
      <4>1. e \in Members(n, c)
        BY <2>1, <3>1 DEF Inserting, Placed, Members, Linking
      <4> QED
        BY <2>1, <2>4, <2>6, <3>1, <4>1
    <3>2. CASE ~Placed(t) /\ Placed(t)'
      BY <2>1, <2>4, <2>6, <3>2, BalanceInsert
    <3>3. CASE ~Placed(t)'
      BY <2>1, <2>4, <2>6, <3>3
    <3> QED
      BY <3>1, <3>2, <3>3
  <2>8. Serving(t, kind, h, I, D, e)'
    BY <1>1, <1>b, <2>1, <2>4, <2>7 DEF Serving
  <2> QED
    BY <1>u, <2>3, <2>5, <2>8
<1>2. CASE kind = "delete"
  <2>1. PICK n, c : /\ Chain(h, n, c) /\ e \in I \ D /\ Deleting(t, h, n, c, e)
                    /\ Balanced(Members(n, c), I, IF Returned(t) THEN D \cup {e} ELSE D)
    BY <1>2 DEF Serving
  <2>2. SortedList_delete(t) /\ ~Returned(t)
    BY <1>f, <2>1 DEF Deleting, Returned
  <2>3. /\ \E m, d : /\ Chain(h, m, d)' /\ Deleting(t, h, m, d, e)'
                      /\ IF Returned(t)'
                           THEN \E x \in Members(n, c) :
                                  key[x] = key[e] /\ Members(m, d) = Members(n, c) \ {x}
                           ELSE Members(m, d) = Members(n, c)
        /\ Untouched({h} \cup Members(n, c))
    BY <2>1, <2>2, DeleteCall, Zenon
  <2>4. PICK m, d : /\ Chain(h, m, d)' /\ Deleting(t, h, m, d, e)'
                    /\ IF Returned(t)'
                         THEN \E x \in Members(n, c) :
                                key[x] = key[e] /\ Members(m, d) = Members(n, c) \ {x}
                         ELSE Members(m, d) = Members(n, c)
    BY <2>3, Zenon
  <2>5. Balanced(Members(n, c), I, D) /\ Members(n, c) \subseteq I
    BY <2>1, <2>2 DEF Balanced
  <2>6. Balanced(Members(m, d), I, IF Returned(t)' THEN D \cup {e} ELSE D)
    <3>1. CASE Returned(t)'
      <4>1. PICK x \in Members(n, c) :
              key[x] = key[e] /\ Members(m, d) = Members(n, c) \ {x}
        BY <2>4, <3>1
      <4> QED
        BY <2>1, <2>5, <3>1, <4>1, BalanceDelete
    <3>2. CASE ~Returned(t)'
      BY <2>4, <2>5, <3>2
    <3> QED
      BY <3>1, <3>2
  <2>7. Serving(t, kind, h, I, D, e)'
    BY <1>2, <1>b, <2>1, <2>4, <2>6 DEF Serving
  <2> QED
    BY <1>u, <2>3, <2>5, <2>7
<1>3. CASE kind = "lookup"
  <2>1. PICK n, c : /\ Chain(h, n, c) /\ e \in I \ D /\ Looking(t, h, n, c, e)
                    /\ Balanced(Members(n, c), I, D)
    BY <1>3 DEF Serving
  <2>2. SortedList_lookup(t) /\ e \in Elements
    BY <1>f, <2>1 DEF Looking, Balanced, Counted
  <2>3. Looking(t, h, n, c, e)' /\ UNCHANGED <<next, prev, key>>
    BY <2>1, <2>2, LookupCall
  <2>4. Serving(t, kind, h, I, D, e)'
    BY <1>3, <1>b, <1>c, <2>1, <2>3 DEF Serving
  <2> QED
    BY <2>3, <2>4, NothingTouched
<1>4. CASE kind = "length"
  <2>1. PICK n, c : /\ Chain(h, n, c) /\ Measuring(t, h, n, c)
                    /\ Balanced(Members(n, c), I, D)
    BY <1>4 DEF Serving
  <2>2. SortedList_length(t)
    BY <1>f, <2>1 DEF Measuring
  <2>3. Measuring(t, h, n, c)' /\ UNCHANGED <<next, prev, key>>
    BY <2>1, <2>2, LengthCall
  <2>4. Serving(t, kind, h, I, D, e)'
    BY <1>4, <1>b, <1>c, <2>1, <2>3 DEF Serving
  <2> QED
    BY <2>3, <2>4, NothingTouched
<1> QED
  BY <1>1, <1>2, <1>3, <1>4 DEF Calls

\* A step of a thread that works on another list.
LEMMA ServingKept ==
  ASSUME Numbered, NEW t, NEW kind \in Calls \cup {"none"}, NEW h \in Heads,
         NEW I, NEW D, NEW e, Serving(t, kind, h, I, D, e),
         NEW S, Untouched(S), S \cap ({h} \cup I \cup {e}) = {},
         key' = key, kind # "none" => frame'[t] = frame[t]
  PROVE  Serving(t, kind, h, I, D, e)'
<1>1. PICK n, c :
        /\ Chain(h, n, c)
        /\ kind = "none" => Linked(n, c, {}, {}) /\ Balanced(Members(n, c), I, D)
        /\ kind = "insert" =>
             /\ e \notin I /\ Inserting(t, h, n, c, e)
             /\ Balanced(Members(n, c), IF Placed(t) THEN I \cup {e} ELSE I, D)
        /\ kind = "length" => Measuring(t, h, n, c) /\ Balanced(Members(n, c), I, D)
        /\ kind = "lookup" =>
             /\ e \in I \ D /\ Looking(t, h, n, c, e)
             /\ Balanced(Members(n, c), I, D)
        /\ kind = "delete" =>
             /\ e \in I \ D /\ Deleting(t, h, n, c, e)
             /\ Balanced(Members(n, c), I, IF Returned(t) THEN D \cup {e} ELSE D)
  BY DEF Serving
<1>2. \A M, J, C : Balanced(M, J, C)' <=> Balanced(M, J, C)
  BY SameBalance
<1>3. Chain(h, n, c)'
  BY <1>1, SameChain
<1>4. Members(n, c) \subseteq I \cup {e}
  BY <1>1 DEF Balanced, Calls
<1>5. /\ n \in Nat /\ c[0] = h
      /\ \A i \in 1..n : c[i] \in Members(n, c) /\ c[i] \in Elements
  BY <1>1 DEF Chain, Members
<1>6. \A i \in 0..n : next'[c[i]] = next[c[i]]
  <2>1. \A i \in 0..n : i = 0 \/ i \in 1..n
    BY <1>5
  <2>2. \A i \in 0..n : c[i] \in (Elements \cup Heads) \ S
    BY <1>4, <1>5, <2>1
  <2> QED
    BY <2>2 DEF Untouched
<1>7. \A i \in 1..n : prev'[c[i]] = prev[c[i]]
  <2>1. \A i \in 1..n : c[i] \in Elements \ S
    BY <1>4, <1>5
  <2> QED
    BY <2>1 DEF Untouched
<1>8. \A N, P : Linked(n, c, N, P)' <=> Linked(n, c, N, P)
  BY <1>6, <1>7 DEF Linked
<1>9. Elements' = Elements
  BY DEF Elements
<1>10. CASE kind = "none" \/ kind = "length" \/ kind = "lookup"
  BY <1>1, <1>2, <1>3, <1>8, <1>10 DEF Serving, Measuring, Looking
<1>11. CASE kind = "insert"
  <2>1. (Placed(t)' <=> Placed(t)) /\ frame'[t] = frame[t]
    BY <1>11 DEF Placed
  <2>2. Inserting(t, h, n, c, e)'
    BY <1>1, <1>8, <1>9, <1>11, <2>1 DEF Inserting
  <2> QED
    BY <1>1, <1>2, <1>3, <1>11, <2>1, <2>2 DEF Serving
<1>12. CASE kind = "delete"
  <2>1. (Returned(t)' <=> Returned(t)) /\ frame'[t] = frame[t]
    BY <1>12 DEF Returned
  <2>2. \A p \in 1..n : c[p + 1] # NULL => prev'[c[p + 1]] = prev[c[p + 1]]
    <3>1. \A p \in 1..n : p + 1 \in 1..n \/ p + 1 = n + 1
      BY <1>5
    <3>2. c[n + 1] = NULL
      BY <1>1 DEF Chain
    <3> QED
      BY <1>7, <3>1, <3>2
  <2>3. Deleting(t, h, n, c, e)'
    BY <1>1, <1>8, <1>12, <2>1, <2>2 DEF Deleting
  <2> QED
    BY <1>1, <1>2, <1>3, <1>12, <2>1, <2>3 DEF Serving
<1> QED
  BY <1>10, <1>11, <1>12 DEF Calls

\* A thread calls insert, length or lookup for a list that nobody is working on.
LEMMA ServingCalled ==
  ASSUME Numbered, key \in [Elements -> Nat], NEW h \in Heads, NEW I, NEW D,
         NEW u, NEW a, Serving(u, "none", h, I, D, a), UNCHANGED <<next, prev, key>>,
         NEW t, NEW e
  PROVE  /\ e \in Elements \ I /\ frame'[t] = Frame("insert", h, e, 0) =>
              Serving(t, "insert", h, I, D, e)'
         /\ frame'[t] = Frame("length", h, NULL, 0) => Serving(t, "length", h, I, D, e)'
         /\ e \in I \ D /\ frame'[t] = Frame("lookup", h, e, 0) =>
              Serving(t, "lookup", h, I, D, e)'
<1>1. PICK n, c : /\ Chain(h, n, c) /\ Linked(n, c, {}, {})
                  /\ Balanced(Members(n, c), I, D)
  BY DEF Serving
<1>2. /\ Chain(h, n, c)' /\ Linked(n, c, {}, {})' /\ Balanced(Members(n, c), I, D)'
      /\ Elements' = Elements
  BY <1>1, SameChain, SameLinks, SameBalance DEF Elements
<1>3. ASSUME e \in Elements \ I, frame'[t] = Frame("insert", h, e, 0)
      PROVE  Serving(t, "insert", h, I, D, e)'
  <2>1. /\ frame'[t].at = "insert" /\ frame'[t].list = h /\ frame'[t].element = e
        /\ frame'[t].temp = NULL
    BY <1>3 DEF Frame
  <2>2. ~Placed(t)'
    BY <2>1 DEF Placed, Linking
  <2>3. e \notin Members(n, c)
    BY <1>1, <1>3 DEF Balanced
  <2>4. Inserting(t, h, n, c, e)'
    BY <1>2, <1>3, <2>1, <2>2, <2>3 DEF Inserting, InsertStatements, Linking
  <2> QED
    BY <1>2, <1>3, <2>2, <2>4 DEF Serving
<1>4. ASSUME frame'[t] = Frame("length", h, NULL, 0)
      PROVE  Serving(t, "length", h, I, D, e)'
  <2>1. frame'[t].at = "length" /\ frame'[t].list = h /\ frame'[t].ret = 0
    BY <1>4 DEF Frame
  <2>2. Measuring(t, h, n, c)'
    BY <1>2, <2>1 DEF Measuring, LengthStatements
  <2> QED
    BY <1>2, <2>2 DEF Serving
<1>5. ASSUME e \in I \ D, frame'[t] = Frame("lookup", h, e, 0)
      PROVE  Serving(t, "lookup", h, I, D, e)'
  <2>1. frame'[t].at = "lookup" /\ frame'[t].list = h /\ frame'[t].element = e
    BY <1>5 DEF Frame
  <2>2. \E x \in Members(n, c) : key[x] = key[e]
    BY <1>1, <1>5, BalanceFind
  <2>3. \E j \in 1..n : key'[c[j]] = key'[e]
    BY <2>2 DEF Members
  <2>4. Looking(t, h, n, c, e)'
    BY <1>2, <2>1, <2>3 DEF Looking, LookupStatements
  <2> QED
    BY <1>2, <1>5, <2>4 DEF Serving
<1> QED
  BY <1>3, <1>4, <1>5

\* The thread that looked up a key deletes the element it found.
LEMMA ServingDeletes ==
  ASSUME NEW t, NEW h, NEW I, NEW D, NEW e, Serving(t, "lookup", h, I, D, e),
         Returned(t), UNCHANGED <<next, prev, key>>,
         frame'[t] = Frame("delete", NULL, frame[t].ret, 0)
  PROVE  Serving(t, "delete", h, I, D, e)'
<1>1. PICK n, c : /\ Chain(h, n, c) /\ e \in I \ D /\ Looking(t, h, n, c, e)
                  /\ Balanced(Members(n, c), I, D)
  BY DEF Serving
<1>2. Chain(h, n, c)' /\ Balanced(Members(n, c), I, D)'
  BY <1>1, SameChain, SameBalance
<1>3. Linked(n, c, {}, {})'
  BY <1>1, SameLinks DEF Looking
<1>4. PICK p \in 1..n : frame[t].ret = c[p] /\ key[c[p]] = key[e]
  BY <1>1 DEF Looking, Returned
<1>5. frame'[t].at = "delete" /\ frame'[t].element = c[p]
  BY <1>4 DEF Frame
<1>6. ~Returned(t)'
  BY <1>5 DEF Returned
<1>7. Deleting(t, h, n, c, e)'
  BY <1>3, <1>4, <1>5 DEF Deleting, DeleteStatements
<1> QED
  BY <1>1, <1>2, <1>6, <1>7 DEF Serving

\* A call returns, and its work is entered in the books.
LEMMA ServingReturned ==
  ASSUME NEW t, NEW kind \in Calls, NEW h, NEW I, NEW D, NEW e,
         Serving(t, kind, h, I, D, e), Returned(t), UNCHANGED <<next, prev, key>>,
         NEW u, NEW a
  PROVE  Serving(u, "none", h, IF kind = "insert" THEN I \cup {e} ELSE I,
                 IF kind = "delete" THEN D \cup {e} ELSE D, a)'
<1> DEFINE J == IF kind = "insert" THEN I \cup {e} ELSE I
           C == IF kind = "delete" THEN D \cup {e} ELSE D
<1>1. PICK n, c : /\ Chain(h, n, c) /\ Linked(n, c, {}, {})
                  /\ Balanced(Members(n, c), J, C)
  <2>1. CASE kind = "insert"
    BY <2>1 DEF Serving, Inserting, Placed, Linking, Returned
  <2>2. CASE kind = "delete"
    BY <2>2 DEF Serving, Deleting, Returned
  <2>3. CASE kind = "lookup" \/ kind = "length"
    BY <2>3 DEF Serving, Looking, Measuring
  <2> QED
    BY <2>1, <2>2, <2>3 DEF Calls
<1> HIDE DEF J, C
<1>2. Chain(h, n, c)' /\ Linked(n, c, {}, {})' /\ Balanced(Members(n, c), J, C)'
  BY <1>1, SameChain, SameLinks, SameBalance
<1>3. Serving(u, "none", h, J, C, a)'
  BY <1>2 DEF Serving
<1> QED
  BY <1>3 DEF J, C

\* What a call may return: it does not fault, lookup finds, delete succeeds, and
\* length counts what was inserted and not deleted.
LEMMA ServingResult ==
  ASSUME Numbered, key \in [Elements -> Nat], NEW t, NEW kind \in Calls, NEW h \in Heads,
         NEW I, NEW D, NEW e, Serving(t, kind, h, I, D, e)
  PROVE  /\ ~Faulted(t) /\ ~Idle(t)
         /\ Returned(t) /\ kind = "lookup" => frame[t].ret \in Elements
         /\ Returned(t) /\ kind = "delete" => frame[t].ret = 0
         /\ Returned(t) /\ kind = "length" => frame[t].ret = Cardinality(I \ D)
<1> USE DEF Returned, Faulted, Idle
<1>1. CASE kind = "insert"
  BY <1>1 DEF Serving, Inserting, InsertStatements
<1>2. CASE kind = "delete"
  BY <1>2 DEF Serving, Deleting, DeleteStatements
<1>3. CASE kind = "lookup"
  BY <1>3 DEF Serving, Looking, LookupStatements, Chain
<1>4. CASE kind = "length"
  <2>1. PICK n, c : /\ Chain(h, n, c) /\ Measuring(t, h, n, c)
                    /\ Balanced(Members(n, c), I, D)
    BY <1>4 DEF Serving
  <2>2. n = Cardinality(I \ D)
    BY <2>1, ChainLength, BalanceCount
  <2> QED
    BY <1>4, <2>1, <2>2 DEF Measuring, LengthStatements
<1> QED
  BY <1>1, <1>2, <1>3, <1>4 DEF Calls

\* A list in which nothing is half done is well formed, and made of what was inserted.
LEMMA ServingWellFormed ==
  ASSUME Numbered, key \in [Elements -> Nat], NEW t, NEW kind \in {"none", "length", "lookup"},
         NEW h \in Heads, NEW I, NEW D, NEW e, Serving(t, kind, h, I, D, e)
  PROVE  WellFormed(h) /\ Contents(h) \subseteq I /\ Counted(Contents(h), I, D)
<1>1. PICK n, c : /\ Chain(h, n, c) /\ Linked(n, c, {}, {})
                  /\ Balanced(Members(n, c), I, D)
  BY DEF Serving, Measuring, Looking
<1>2. Contents(h) = Members(n, c) /\ WellFormed(h)
  BY <1>1, ChainIsWellFormed
<1> QED
  BY <1>1, <1>2 DEF Balanced

\* The books of one key, as a difference.
LEMMA CountedKey ==
  ASSUME Numbered, NEW M, NEW I, NEW D, Counted(M, I, D), NEW k \in Nat
  PROVE  Cardinality(OfKey(k, M)) = Cardinality(OfKey(k, I)) - Cardinality(OfKey(k, D))
<1>1. M \in SUBSET Elements /\ D \in SUBSET Elements
  BY DEF Counted
<1>2. Cardinality(OfKey(k, M)) \in Nat /\ Cardinality(OfKey(k, D)) \in Nat
  BY <1>1, OfKeyCount
<1>3. Cardinality(OfKey(k, M)) + Cardinality(OfKey(k, D)) = Cardinality(OfKey(k, I))
  BY DEF Counted
<1> QED
  BY <1>2, <1>3

\* A list that is empty, and has been from the beginning.
LEMMA ServingEmpty ==
  ASSUME Numbered, NEW h \in Heads, next[h] = NULL, NEW t, NEW e
  PROVE  Serving(t, "none", h, {}, {}, e)
<1> DEFINE c == [i \in 0..(0 + 1) |-> IF i = 0 THEN h ELSE NULL]
<1>1. h \in Int
  BY DEF Numbered
<1>2. c[0] = h /\ c[0 + 1] = NULL /\ c \in [0..(0 + 1) -> Int]
  BY <1>1 DEF NULL
<1> HIDE DEF c
<1>3. Chain(h, 0, c) /\ Members(0, c) = {}
  BY <1>2 DEF Chain, Members
<1>4. Linked(0, c, {}, {})
  <2>1. next[c[0]] = c[0 + 1]
    BY <1>2
  <2> QED
    BY <2>1 DEF Linked
<1>5. Balanced({}, {}, {})
  <2>1. \A k : OfKey(k, {}) = {}
    BY DEF OfKey
  <2> QED
    BY <2>1, FS_EmptySet DEF Balanced, Counted
<1> QED
  BY <1>3, <1>4, <1>5 DEF Serving

\* Nobody is working on a list, whichever thread is asked, and nothing happens to it.
LEMMA ServingNobody ==
  ASSUME Numbered, NEW h \in Heads, NEW I, NEW D, NEW t, NEW e, NEW u, NEW a,
         Serving(t, "none", h, I, D, e)
  PROVE  /\ Serving(u, "none", h, I, D, a)
         /\ UNCHANGED <<next, prev, key>> => Serving(u, "none", h, I, D, a)'
<1>1. Serving(u, "none", h, I, D, a)
  BY DEF Serving
<1>2. ASSUME UNCHANGED <<next, prev, key>>
      PROVE  Serving(u, "none", h, I, D, a)'
  <2>1. Untouched({})
    BY <1>2, NothingTouched
  <2>2. {} \cap ({h} \cup I \cup {a}) = {} /\ key' = key
    BY <1>2
  <2> QED
    BY <1>1, <2>1, <2>2, ServingKept
<1> QED
  BY <1>1, <1>2

-----------------------------------------------------------------------------
(***************************************************************************)
(* The pool.  Both programs give each of their T threads N elements, one   *)
(* thread after the other: position i of thread t is (t - 1) * N + i + 1.  *)
(***************************************************************************)
LEMMA PoolBounds ==
  ASSUME NEW T \in Nat, NEW N \in Nat, NEW t \in 1..T, NEW i \in Nat, i < N
  PROVE  /\ (t - 1) * N \in Nat /\ t * N \in Nat /\ T * N \in Nat
         /\ (t - 1) * N + i + 1 <= t * N /\ t * N <= T * N
<1>1. \A a, b, n \in Nat : a <= b => a * n <= b * n
  OBVIOUS
<1>2. t \in Nat /\ t - 1 \in Nat /\ t <= T
  OBVIOUS
<1>3. t * N <= T * N
  BY <1>1, <1>2
<1>4. \A a, n \in Int : a * n = (a - 1) * n + n
  OBVIOUS
<1>5. t * N = (t - 1) * N + N
  BY <1>2, <1>4
<1>6. (t - 1) * N \in Nat /\ t * N \in Nat /\ T * N \in Nat
  BY <1>2
<1> DEFINE A == (t - 1) * N
           C == t * N
<1>7. A \in Nat /\ C = A + N
  BY <1>5, <1>6
<1> HIDE DEF A, C
<1>8. A + i + 1 <= C
  BY <1>7
<1> QED
  BY <1>3, <1>6, <1>8 DEF A, C

LEMMA PoolPosition ==
  ASSUME NEW T \in Nat, NEW N \in Nat, NEW t \in 1..T, NEW i \in Nat, i < N
  PROVE  (t - 1) * N + i + 1 \in 1..(T * N)
<1> DEFINE A == (t - 1) * N
           B == T * N
           C == t * N
<1>1. A \in Nat /\ B \in Nat /\ C \in Nat /\ A + i + 1 <= C /\ C <= B
  BY PoolBounds
<1> HIDE DEF A, B, C
<1>2. A + i + 1 \in 1..B
  BY <1>1
<1> QED
  BY <1>2 DEF A, B

LEMMA PoolDistinct ==
  ASSUME NEW T \in Nat, NEW N \in Nat,
         NEW t \in 1..T, NEW i \in Nat, i < N, NEW u \in 1..T, NEW j \in Nat, j < N,
         (t - 1) * N + i + 1 = (u - 1) * N + j + 1
  PROVE  t = u /\ i = j
<1> DEFINE A(v) == (v - 1) * N
           C(v) == v * N
<1>1. \A v, w \in 1..T : v < w => C(v) <= A(w)
  <2>1. \A a, b, n \in Nat : a <= b => a * n <= b * n
    OBVIOUS
  <2> SUFFICES ASSUME NEW v \in 1..T, NEW w \in 1..T, v < w
               PROVE  v * N <= (w - 1) * N
    OBVIOUS
  <2>2. v \in Nat /\ w - 1 \in Nat /\ v <= w - 1
    OBVIOUS
  <2> QED
    BY <2>1, <2>2
<1>2. /\ A(t) \in Nat /\ C(t) \in Nat /\ A(t) + i + 1 <= C(t)
      /\ A(u) \in Nat /\ C(u) \in Nat /\ A(u) + j + 1 <= C(u)
  BY PoolBounds
<1>3. A(t) + i + 1 = A(u) + j + 1
  OBVIOUS
<1> HIDE DEF A, C
<1>4. t = u
  <2>1. ~(t < u)
    <3> SUFFICES ASSUME t < u PROVE FALSE
      OBVIOUS
    <3>1. C(t) <= A(u)
      BY <1>1
    <3> QED
      BY <1>2, <1>3, <3>1
  <2>2. ~(u < t)
    <3> SUFFICES ASSUME u < t PROVE FALSE
      OBVIOUS
    <3>1. C(u) <= A(t)
      BY <1>1
    <3> QED
      BY <1>2, <1>3, <3>1
  <2> QED
    BY <2>1, <2>2
<1>5. i = j
  BY <1>2, <1>3, <1>4
<1> QED
  BY <1>4, <1>5
=============================================================================
