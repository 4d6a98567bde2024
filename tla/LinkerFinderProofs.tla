------------------------- MODULE LinkerFinderProofs -------------------------
(***************************************************************************)
(* find_windows_linker.py reports the first installed linker of its list,  *)
(* for every number of copies of each linker on the PATH.                  *)
(***************************************************************************)
EXTENDS LinkerFinder, SequenceTheorems, TLAPS

(* What find_linker has returned once the loop stopped at index i: the     *)
(* matches of linker i, or None when the loop ran off the list.            *)
Returned ==
  IF i <= Len(linkers) THEN WhereOutput(linkers[i], installed[linkers[i]])
  ELSE None

(***************************************************************************)
(* ReportsFirstInstalled is not inductive: it speaks only of the end.  The *)
(* loop invariant of the for statement says that every linker before i was *)
(* not found, and that the loop stops at i only on a linker that was; a   *)
(* missing `where` stops it at the first call.                             *)
(***************************************************************************)
LInv ==
  /\ installed \in [Names -> Nat]
  /\ hasWhere \in BOOLEAN
  /\ i \in 1..(Len(linkers) + 1)
  /\ pc \in {"search", "report", "exited"}
  /\ \A m \in 1..(i - 1) : installed[linkers[m]] = 0
  /\ i > 1 => hasWhere
  /\ pc = "search" => found = None /\ exitCode = -1
  /\ pc = "report" => hasWhere /\ exitCode = -1
  /\ pc \in {"report", "exited"} /\ hasWhere =>
       /\ i <= Len(linkers) => installed[linkers[i]] > 0
       /\ found = Returned
  /\ pc = "exited" => exitCode = IF hasWhere THEN 0 ELSE 1
(* The list has seven entries, each a linker name.                         *)
LEMMA LinkersFacts ==
  /\ Len(linkers) = 7
  /\ \A j \in 1..Len(linkers) : linkers[j] \in Names
BY DEF linkers, Names

(* When every linker before i is missing and the loop stops at i on one    *)
(* that is installed (or runs off the list), i is the first installed one. *)
LEMMA FirstIs ==
  ASSUME installed \in [Names -> Nat],
         NEW k \in 1..(Len(linkers) + 1),
         \A m \in 1..(k - 1) : installed[linkers[m]] = 0,
         k <= Len(linkers) => installed[linkers[k]] > 0
  PROVE  FirstInstalled = IF k <= Len(linkers) THEN k ELSE 0
<1>1. CASE k <= Len(linkers)
  <2> DEFINE P(j) == /\ installed[linkers[j]] > 0
                     /\ \A m \in 1..(j - 1) : installed[linkers[m]] = 0
  <2>1. k \in 1..Len(linkers) /\ P(k)
    BY <1>1, LinkersFacts
  <2>2. \A j \in 1..Len(linkers) : P(j) => j = k
    BY <2>1, LinkersFacts
  <2>3. (CHOOSE j \in 1..Len(linkers) : P(j)) = k
    BY <2>1, <2>2
  <2>. QED
    BY <1>1, <2>1, <2>3 DEF FirstInstalled, FirstOf
<1>2. CASE ~(k <= Len(linkers))
  <2>1. \A j \in 1..Len(linkers) : installed[linkers[j]] = 0
    BY <1>2, LinkersFacts
  <2>. QED
    BY <1>2, <2>1 DEF FirstInstalled, FirstOf
<1>. QED
  BY <1>1, <1>2

THEOREM InitLInv == Init => LInv
BY FinderAssumption, LinkersFacts DEF Init, LInv

LEMMA StepLInv == LInv /\ [Next]_vars => LInv'
<1> SUFFICES ASSUME LInv, [Next]_vars PROVE LInv'
  OBVIOUS
<1>. USE DEF LInv
<1>1. CASE Try
  <2>1. i \in 1..Len(linkers) /\ linkers[i] \in Names /\ pc = "search"
    BY <1>1, LinkersFacts DEF Try
  <2>2. CASE ~hasWhere /\ pc' = "exited" /\ exitCode' = 1
             /\ UNCHANGED <<i, found, stdout>>
    BY <1>1, <2>2 DEF Try
  <2>3. CASE hasWhere /\ installed[linkers[i]] > 0
             /\ found' = WhereOutput(linkers[i], installed[linkers[i]])
             /\ pc' = "report"
             /\ UNCHANGED <<i, stdout, exitCode>>
    BY <1>1, <2>1, <2>3 DEF Try, Returned
  <2>4. CASE hasWhere /\ installed[linkers[i]] = 0
             /\ stdout' = Append(stdout, NotFoundLine(linkers[i]))
             /\ i' = i + 1
             /\ UNCHANGED <<pc, found, exitCode>>
    <3>1. \A m \in 1..(i' - 1) : installed'[linkers[m]] = 0
      BY <1>1, <2>1, <2>4 DEF Try
    <3>. QED
      BY <1>1, <2>1, <2>4, <3>1 DEF Try
  <2>. QED
    BY <1>1, <2>2, <2>3, <2>4 DEF Try
<1>2. CASE NoneFound
  BY <1>2, LinkersFacts DEF NoneFound, Returned
<1>3. CASE Report
  BY <1>3 DEF Report, Returned
<1>4. CASE UNCHANGED vars
  BY <1>4 DEF vars, Returned
<1>. QED
  BY <1>1, <1>2, <1>3, <1>4 DEF Next

(***************************************************************************)
(* For every number of copies of each linker on the PATH: once the script  *)
(* has exited, it failed if there is no `where`, and otherwise it          *)
(* succeeded with the matches of the first installed linker of the list,   *)
(* or None when none is installed.                                         *)
(***************************************************************************)
THEOREM FirstLinkerWins == Spec => []ReportsFirstInstalled
<1>1. LInv => ReportsFirstInstalled
  <2> SUFFICES ASSUME LInv, pc = "exited", hasWhere
               PROVE  /\ exitCode = 0
                      /\ found = IF FirstInstalled = 0 THEN None
                                 ELSE WhereOutput(linkers[FirstInstalled],
                                                  installed[linkers[FirstInstalled]])
    BY DEF LInv, ReportsFirstInstalled
  <2>1. FirstInstalled = IF i <= Len(linkers) THEN i ELSE 0
    BY FirstIs DEF LInv
  <2>. QED
    BY <2>1, LinkersFacts DEF LInv, Returned
<1>. QED
  BY <1>1, InitLInv, StepLInv, PTL DEF Spec

-----------------------------------------------------------------------------
(***************************************************************************)
(* Refinement.  Besides the loop invariant, the proof needs what the loop  *)
(* has printed: one "not found" line per linker before i, and after        *)
(* __main__ the report line; a run without `where` has printed nothing and *)
(* returned nothing.                                                       *)
(***************************************************************************)
(* The "not found" lines for the first n linkers of the list.              *)
NotFoundLines(n) == [j \in 1..n |-> NotFoundLine(linkers[j])]

(* The instance of LinkerSearch brings its own copy of the data operators; *)
(* they are the same.                                                      *)
LEMMA SameData ==
  /\ Search!linkers = linkers /\ Search!Names = Names /\ Search!None = None
  /\ Search!NoLinkersLine = NoLinkersLine
  /\ \A l : Search!NotFoundLine(l) = NotFoundLine(l)
  /\ \A l, n : Search!WhereOutput(l, n) = WhereOutput(l, n)
  /\ \A b : Search!Repr(b) = Repr(b)
  /\ \A f : Search!FirstOf(f) = FirstOf(f)
  /\ \A n : Search!NotFoundLines(n) = NotFoundLines(n)
BY DEF Search!linkers, linkers, Search!Names, Names, Search!None, None,
       Search!NoLinkersLine, NoLinkersLine, Search!Text, Text,
       Search!NotFoundLine, NotFoundLine, Search!WhereOutput,
       WhereOutput, Search!Path, Path, Search!CRLF, CRLF, Search!Repr, Repr,
       Search!Escape, Escape, Search!FirstOf, FirstOf, Search!NotFoundLines,
       NotFoundLines

OutInv ==
  /\ ~hasWhere => found = None
  /\ pc \in {"search", "report"} \/ ~hasWhere => stdout = NotFoundLines(i - 1)
  /\ pc = "exited" /\ hasWhere =>
       stdout = Append(NotFoundLines(i - 1),
                       IF found # None THEN Repr(found)
                       ELSE NoLinkersLine)

RInv == LInv /\ OutInv

(* A sequence is its first n elements with its last one appended.         *)
LEMMA AppendLast ==
  ASSUME NEW S, NEW n \in Nat, NEW f \in [1..(n + 1) -> S]
  PROVE  Append([j \in 1..n |-> f[j]], f[n + 1]) = f
<1>1. [j \in 1..n |-> f[j]] \in Seq(S) /\ Len([j \in 1..n |-> f[j]]) = n
  OBVIOUS
<1>2. f \in Seq(S) /\ Len(f) = n + 1
  OBVIOUS
<1>. QED
  BY <1>1, <1>2, AppendProperties, SeqEqual

(* One more turn of the loop prints the next linker's line.                *)
LEMMA NotFoundAppend ==
  ASSUME NEW n \in 0..(Len(linkers) - 1)
  PROVE  Append(NotFoundLines(n), NotFoundLine(linkers[n + 1])) = NotFoundLines(n + 1)
<1> DEFINE g == NotFoundLines(n + 1)
           S == {NotFoundLine(l) : l \in Names}
<1>1. n \in Nat /\ g \in [1..(n + 1) -> S]
  BY LinkersFacts DEF NotFoundLines
<1>2. NotFoundLines(n) = [j \in 1..n |-> g[j]]
  <2>1. \A j \in 1..n : g[j] = NotFoundLine(linkers[j])
    BY <1>1 DEF NotFoundLines
  <2>. QED
    BY <2>1 DEF NotFoundLines
<1>3. g[n + 1] = NotFoundLine(linkers[n + 1])
  BY <1>1 DEF NotFoundLines
<1>. QED
  BY <1>1, <1>2, <1>3, AppendLast

(* The matches of an installed linker are never None.                      *)
LEMMA WhereNotNone ==
  ASSUME NEW l, NEW n \in Nat \ {0}
  PROVE  WhereOutput(l, n) # None
<1>1. DOMAIN WhereOutput(l, n) = 1..(2 * n) /\ DOMAIN None = 1..1
  BY DEF WhereOutput, None
<1>2. 2 \in 1..(2 * n) /\ 2 \notin 1..1
  OBVIOUS
<1>. QED
  BY <1>1, <1>2

(* Without `where` the script stops at its first call, having printed and *)
(* returned nothing.                                                       *)
LEMMA NoWhere ==
  ASSUME RInv, ~hasWhere
  PROVE  i = 1 /\ found = None /\ stdout = <<>>
<1>1. i = 1 /\ found = None /\ stdout = NotFoundLines(i - 1)
  BY LinkersFacts DEF RInv, LInv, OutInv
<1>2. NotFoundLines(0) = <<>>
  BY DEF NotFoundLines
<1>. QED
  BY <1>1, <1>2

THEOREM InitRInv == Init => RInv
<1>1. Init => OutInv
  BY DEF Init, OutInv, NotFoundLines
<1>. QED
  BY <1>1, InitLInv DEF RInv

LEMMA StepRInv == RInv /\ [Next]_vars => RInv'
<1> SUFFICES ASSUME RInv, [Next]_vars PROVE RInv'
  OBVIOUS
<1>1. LInv'
  BY StepLInv DEF RInv
<1> SUFFICES OutInv'
  BY <1>1 DEF RInv
<1>. USE DEF RInv, OutInv
<1>2. CASE Try
  <2>1. i \in 1..Len(linkers) /\ pc = "search"
    BY <1>2 DEF Try, LInv
  <2>2. CASE ~hasWhere /\ pc' = "exited" /\ exitCode' = 1
             /\ UNCHANGED <<i, found, stdout>>
    BY <1>2, <2>2 DEF Try
  <2>3. CASE hasWhere /\ installed[linkers[i]] > 0
             /\ found' = WhereOutput(linkers[i], installed[linkers[i]])
             /\ pc' = "report"
             /\ UNCHANGED <<i, stdout, exitCode>>
    BY <1>2, <2>1, <2>3 DEF Try
  <2>4. CASE hasWhere /\ installed[linkers[i]] = 0
             /\ stdout' = Append(stdout, NotFoundLine(linkers[i]))
             /\ i' = i + 1
             /\ UNCHANGED <<pc, found, exitCode>>
    <3>1. stdout' = NotFoundLines(i' - 1)
      <4>1. (i - 1) \in 0..(Len(linkers) - 1) /\ (i - 1) + 1 = i
        BY <2>1
      <4>. QED
        BY <1>2, <2>1, <2>4, <4>1, NotFoundAppend
    <3>. QED
      BY <1>2, <2>1, <2>4, <3>1 DEF Try
  <2>. QED
    BY <1>2, <2>2, <2>3, <2>4 DEF Try
<1>3. CASE NoneFound
  BY <1>3 DEF NoneFound
<1>4. CASE Report
  <2>1. hasWhere
    BY <1>4 DEF Report, LInv
  <2>. QED
    BY <1>4, <2>1 DEF Report
<1>5. CASE UNCHANGED vars
  BY <1>5 DEF vars
<1>. QED
  BY <1>2, <1>3, <1>4, <1>5 DEF Next

(***************************************************************************)
(* For every number of copies of each linker on the PATH, the script      *)
(* implements LinkerSearch: seen from outside, it runs in one step that    *)
(* sets the exit status, the reported linker output and the whole printed  *)
(* text to what the PATH determines, and changes nothing else.             *)
(***************************************************************************)
THEOREM Refinement == Spec => ImplementsSearch
<1>1. Init => Search!Init
  BY FinderAssumption, SameData DEF Init, Search!Init
<1>2. RInv /\ [Next]_vars => [Search!Run]_Search!vars
  <2> SUFFICES ASSUME RInv, [Next]_vars PROVE [Search!Run]_Search!vars
    OBVIOUS
  <2>. USE DEF RInv, OutInv, LInv
  <2>1. CASE Try
    <3>1. CASE ~hasWhere
      <4>1. i = 1 /\ found = None /\ stdout = <<>>
        BY <3>1, NoWhere
      <4>2. pc = "search" /\ pc' = "exited" /\ exitCode' = 1
            /\ UNCHANGED <<installed, hasWhere, found, stdout>>
        BY <2>1, <3>1 DEF Try
      <4>. QED
        BY <3>1, <4>1, <4>2, SameData DEF Search!Run
    <3>2. CASE hasWhere
      <4>1. pc = "search" /\ pc' \in {"search", "report"}
        BY <2>1, <3>2 DEF Try
      <4>. QED
        BY <2>1, <3>2, <4>1 DEF Try, Search!vars
    <3>. QED
      BY <3>1, <3>2
  <2>2. CASE NoneFound
    BY <2>2 DEF NoneFound, Search!vars
  <2>3. CASE Report
    <3>1. pc = "report" /\ hasWhere /\ stdout = NotFoundLines(i - 1)
          /\ pc' = "exited" /\ exitCode' = 0 /\ found' = found
          /\ UNCHANGED <<installed, hasWhere>>
      BY <2>3 DEF Report
    <3>2. stdout' = Append(NotFoundLines(i - 1),
                           IF found # None THEN Repr(found)
                           ELSE NoLinkersLine)
      BY <2>3, <3>1 DEF Report
    <3>3. FirstInstalled = IF i <= Len(linkers) THEN i ELSE 0
      BY <3>1, FirstIs
    <3>4. CASE i <= Len(linkers)
      <4>1. installed[linkers[i]] \in Nat \ {0} /\ i # 0
        BY <3>1, <3>4, LinkersFacts
      <4>2. found = WhereOutput(linkers[i], installed[linkers[i]]) /\ found # None
        BY <3>1, <3>4, <4>1, WhereNotNone DEF Returned
      <4>3. /\ Search!FirstOf(installed) = i
            /\ Search!WhereOutput(Search!linkers[i], installed[Search!linkers[i]]) = found
            /\ Search!NotFoundLines(i - 1) = NotFoundLines(i - 1)
            /\ Search!Repr(found) = Repr(found)
        BY <3>3, <3>4, <4>2, SameData DEF FirstInstalled
      <4>4. stdout' = Append(Search!NotFoundLines(i - 1), Search!Repr(found))
        BY <3>2, <4>2, <4>3
      <4>. QED
        BY <3>1, <4>1, <4>3, <4>4 DEF Search!Run
    <3>5. CASE ~(i <= Len(linkers))
      <4>1. i = Len(linkers) + 1 /\ found = None
        BY <3>1, <3>5 DEF Returned
      <4>2. /\ Search!FirstOf(installed) = 0
            /\ Search!None = None /\ Search!linkers = linkers
            /\ Search!NotFoundLines(Len(linkers)) = NotFoundLines(Len(linkers))
            /\ Search!NoLinkersLine = NoLinkersLine
        BY <3>3, <3>5, SameData DEF FirstInstalled
      <4>3. stdout' = Append(Search!NotFoundLines(Len(Search!linkers)),
                             Search!NoLinkersLine)
        BY <3>2, <4>1, <4>2
      <4>. QED
        BY <3>1, <4>1, <4>2, <4>3 DEF Search!Run
    <3>. QED
      BY <3>4, <3>5
  <2>4. CASE UNCHANGED vars
    BY <2>4 DEF vars, Search!vars
  <2>. QED
    BY <2>1, <2>2, <2>3, <2>4 DEF Next
<1>. QED
  BY <1>1, <1>2, InitRInv, StepRInv, PTL DEF Spec, ImplementsSearch, Search!Spec
=============================================================================
