--------------------------- MODULE LinkerSearch ---------------------------
(***************************************************************************)
(* What find_windows_linker.py promises, as MSBuild sees it: one run that  *)
(* ends with an exit status and a printed text determined by the PATH      *)
(* alone.  Without `where` the run fails having printed nothing.           *)
(* Otherwise it succeeds.  It prints a "not found" line for each linker of *)
(* the list before the first installed one, then what `where` reported for *)
(* that linker; with no linker installed it prints a line for every linker *)
(* and then the "No linkers" message.  The loop, and when each line is     *)
(* printed, are the implementation's business (LinkerFinder).              *)
(***************************************************************************)
EXTENDS LinkerData

VARIABLES installed,  \* linker -> copies `where` finds (environment)
          hasWhere,   \* `where` is on the PATH (environment)
          pc,         \* "running" or "exited"
          found,      \* the linker output reported
          stdout,     \* the lines printed
          exitCode    \* -1 while running

vars == <<installed, hasWhere, pc, found, stdout, exitCode>>

(* The "not found" lines for the first n linkers of the list.              *)
NotFoundLines(n) == [j \in 1..n |-> NotFoundLine(linkers[j])]

Init ==
  /\ installed \in [Names -> Nat]
  /\ hasWhere \in BOOLEAN
  /\ pc = "running"
  /\ found = None
  /\ stdout = <<>>
  /\ exitCode = -1

(* The whole run, as one step.                                             *)
Run ==
  LET k == FirstOf(installed) IN
  /\ pc = "running"
  /\ pc' = "exited"
  /\ \/ /\ ~hasWhere
        /\ exitCode' = 1
        /\ UNCHANGED <<found, stdout>>
     \/ /\ hasWhere
        /\ exitCode' = 0
        /\ found' = IF k = 0 THEN None
                    ELSE WhereOutput(linkers[k], installed[linkers[k]])
        /\ stdout' = IF k = 0
                     THEN Append(NotFoundLines(Len(linkers)),
                                 NoLinkersLine)
                     ELSE Append(NotFoundLines(k - 1), Repr(found'))
  /\ UNCHANGED <<installed, hasWhere>>

Spec == Init /\ [][Run]_vars
=============================================================================
