---------------------------- MODULE LinkerData ----------------------------
(***************************************************************************)
(* The data of find_windows_linker.py, shared by the script's model        *)
(* (LinkerFinder) and by the specification of what it promises             *)
(* (LinkerSearch): the list of linkers it tries, the text `where` prints   *)
(* for a linker, and the text the script prints.                           *)
(***************************************************************************)
EXTENDS Integers, Sequences

linkers == <<"link.exe", "lld-link.exe", "ld.exe", "xilink.exe",
             "armlink.exe", "ld.lld.exe", "gold.exe">>

Names == {linkers[j] : j \in 1..Len(linkers)}

(* A piece of printed text: a literal, or the path of match k of linker l. *)
Text(s) == [kind |-> s, linker |-> "", match |-> 0]

Path(l, k) == [kind |-> "path", linker |-> l, match |-> k]

CRLF == Text("\r\n")

(* The bytes check_output returns: every match, each followed by \r\n.     *)
WhereOutput(l, n) == [t \in 1..2 * n |-> IF t % 2 = 1 THEN Path(l, (t + 1) \div 2)
                                         ELSE CRLF]

(* str() of a bytes object, which print() writes: b'...' with each        *)
(* backslash of a path doubled and \r\n spelt out as four characters.      *)
Escape(x) == IF x = CRLF THEN Text("\\r\\n") ELSE [x EXCEPT !.kind = "escaped path"]

Repr(b) == <<Text("b'")>> \o [t \in 1..Len(b) |-> Escape(b[t])] \o <<Text("'")>>

None == <<Text("None")>>

(* print("No linkers could be found")                                      *)
NoLinkersLine == <<Text("No linkers could be found")>>

(* print(f"{linker} linker not found. Skipping")                           *)
NotFoundLine(l) == <<[kind |-> "not found", linker |-> l, match |-> 0]>>

(* The first linker of the list of which the PATH holds a copy, under the  *)
(* copy counts inst; 0 if there is none.                                   *)
FirstOf(inst) ==
  IF \E j \in 1..Len(linkers) : inst[linkers[j]] > 0
  THEN CHOOSE j \in 1..Len(linkers) :
         /\ inst[linkers[j]] > 0
         /\ \A m \in 1..(j - 1) : inst[linkers[m]] = 0
  ELSE 0
=============================================================================
