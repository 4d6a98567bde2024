--------------------------- MODULE LinkerFinder ---------------------------
(***************************************************************************)
(* find_windows_linker.py: try `where <linker>` for each linker of the     *)
(* list in order, and print what the first successful call wrote, for      *)
(* MSBuild to read.  The machine is the environment: how many copies of    *)
(* each linker `where` finds on the PATH (it prints one line per match,    *)
(* each ended by \r\n, and exits 1 when there is none), and whether        *)
(* `where` exists at all.  A path is named by its linker and match number. *)
(***************************************************************************)
EXTENDS LinkerData

CONSTANT MaxMatches  \* the most copies of one linker on the PATH

ASSUME FinderAssumption == MaxMatches \in Nat

VARIABLES installed,  \* linker -> copies `where` finds (environment)
          hasWhere,   \* `where` is on the PATH (environment)
          i,          \* index of the linker being tried
          pc,         \* "search", "report" or "exited"
          found,      \* what find_linker returned
          stdout,     \* the lines printed, each a sequence of tokens
          exitCode    \* -1 while running

vars == <<installed, hasWhere, i, pc, found, stdout, exitCode>>

Init ==
  /\ installed \in [Names -> 0..MaxMatches]
  /\ hasWhere \in BOOLEAN
  /\ i = 1
  /\ pc = "search"
  /\ found = None
  /\ stdout = <<>>
  /\ exitCode = -1

(* Mutation: the return inside try is missing, so the loop goes on and   *)
(* the last installed linker wins.                                         *)
TryKeepsSearching ==
  /\ pc = "search"
  /\ i <= Len(linkers)
  /\ \/ /\ ~hasWhere
        /\ pc' = "exited" /\ exitCode' = 1
        /\ UNCHANGED <<i, found, stdout>>
     \/ /\ hasWhere /\ installed[linkers[i]] > 0
        /\ found' = WhereOutput(linkers[i], installed[linkers[i]])
        /\ i' = i + 1
        /\ UNCHANGED <<pc, stdout, exitCode>>
     \/ /\ hasWhere /\ installed[linkers[i]] = 0
        /\ stdout' = Append(stdout, NotFoundLine(linkers[i]))
        /\ i' = i + 1
        /\ UNCHANGED <<pc, found, exitCode>>
  /\ UNCHANGED <<installed, hasWhere>>

(* One turn of the for loop: check_output returns the matches, or raises   *)
(* CalledProcessError (message, continue), or raises FileNotFoundError     *)
(* when there is no `where`, which nothing catches: exit status 1.         *)
Try ==
  /\ pc = "search"
  /\ i <= Len(linkers)
  /\ \/ /\ ~hasWhere
        /\ pc' = "exited" /\ exitCode' = 1
        /\ UNCHANGED <<i, found, stdout>>
     \/ /\ hasWhere /\ installed[linkers[i]] > 0
        /\ found' = WhereOutput(linkers[i], installed[linkers[i]])
        /\ pc' = "report"
        /\ UNCHANGED <<i, stdout, exitCode>>
     \/ /\ hasWhere /\ installed[linkers[i]] = 0
        /\ stdout' = Append(stdout, NotFoundLine(linkers[i]))
        /\ i' = i + 1
        /\ UNCHANGED <<pc, found, exitCode>>
  /\ UNCHANGED <<installed, hasWhere>>

(* The loop ends without a linker: return None.                           *)
NoneFound ==
  /\ pc = "search"
  /\ i > Len(linkers)
  /\ pc' = "report"
  /\ UNCHANGED <<installed, hasWhere, i, found, stdout, exitCode>>

(* __main__: print the bytes, or the message and sys.exit(0).              *)
Report ==
  /\ pc = "report"
  /\ stdout' = Append(stdout, IF found # None THEN Repr(found)
                              ELSE NoLinkersLine)
  /\ pc' = "exited" /\ exitCode' = 0
  /\ UNCHANGED <<installed, hasWhere, i, found>>

Next == Try \/ NoneFound \/ Report

Spec == Init /\ [][Next]_vars

-----------------------------------------------------------------------------
(* The first linker of the list that is installed, 0 if none is.           *)
FirstInstalled == FirstOf(installed)

(* The script succeeds with the matches of the first installed linker in   *)
(* the list's order (MSVC before LLVM before GNU...), and with None only   *)
(* when no linker is installed; without `where` it fails.                  *)
ReportsFirstInstalled ==
  pc = "exited" =>
    IF ~hasWhere THEN exitCode = 1
    ELSE /\ exitCode = 0
         /\ found = IF FirstInstalled = 0 THEN None
                    ELSE WhereOutput(linkers[FirstInstalled],
                                     installed[linkers[FirstInstalled]])

(* The comment on print(linker_path): what the script prints is for        *)
(* MSBuild, so a successful search prints the linker's path and nothing    *)
(* else.                                                                   *)
PrintsLinkerPath ==
  (pc = "exited" /\ found # None)
    => \E l \in Names, k \in 1..MaxMatches : stdout = <<<<Path(l, k)>>>>

-----------------------------------------------------------------------------
(* The refinement mapping: until the script exits, MSBuild has seen no     *)
(* output and no result; the loop's index and the "report" stage are       *)
(* hidden.                                                                 *)
Search == INSTANCE LinkerSearch
            WITH pc <- IF pc = "exited" THEN "exited" ELSE "running",
                 found <- IF pc = "exited" THEN found ELSE None,
                 stdout <- IF pc = "exited" THEN stdout ELSE <<>>

(***************************************************************************)
(* find_linker's loop and __main__ together implement LinkerSearch: the    *)
(* script exits once, with the status, the reported linker output and the  *)
(* whole printed text that the PATH determines; the not-found messages the *)
(* loop prints on the way are exactly those of the linkers before the one  *)
(* it reports.                                                             *)
(***************************************************************************)
ImplementsSearch == Search!Spec
=============================================================================
