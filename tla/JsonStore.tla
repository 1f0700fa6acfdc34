----------------------------- MODULE JsonStore -----------------------------
(***************************************************************************)
(* The JSON files of JsonManager.  A file is torn when its text does not   *)
(* parse; every operation reads, parses and rewrites the whole file, so    *)
(* none succeeds on it.                                                    *)
(***************************************************************************)
EXTENDS Objects

CONSTANTS
  Favorites, \* the key "favorites$180"
  Strings,   \* the values that are strings; any other value is an object
  Faults     \* what may fail: "open" the rewriting, "short" the text written

IsObject(v) == v \notin Strings

(* A new object "favorites$180" enters at the front, others at the end.     *)
AddNested(o, r, k, v) ==
  IF r = Favorites THEN <<<<r, <<<<k, v>>>>>>>> \o o ELSE Append(o, <<r, <<<<k, v>>>>>>)

PutNestedReplacing(o, r, k, v) ==
  IF Has(o, r) THEN Put(o, r, <<<<k, v>>>>) ELSE AddNested(o, r, k, v)
PutNested(o, r, k, v) ==
  CASE ~Has(o, r) -> AddNested(o, r, k, v)
    [] Has(o, r) /\ IsObject(o[Find(o, r)][2]) -> [o EXCEPT ![Find(o, r)][2] = Put(@, k, v)]
    [] OTHER -> Put(o, r, <<<<k, v>>>>)

DropNestedNever(o, r, k) == o
DropNested(o, r, k) ==
  IF Has(o, r) /\ IsObject(o[Find(o, r)][2])
    THEN [o EXCEPT ![Find(o, r)][2] = Drop(@, k)] ELSE o

(* Renaming a key does not look whether the new one is there already. *)
RenameOrCreateFresh(o, old, new) == Put(Drop(o, old), new, <<>>)
RenameOrCreate(o, old, new) ==
  IF Has(o, old)
    THEN [i \in DOMAIN o |-> IF o[i][1] = old THEN <<new, o[i][2]>> ELSE o[i]]
    ELSE Put(o, new, <<>>)

-----------------------------------------------------------------------------
(* What rewriting file f with the members o can leave, and what it returns. *)
(* A short write is reported as a failure when fwrite notices it, and as a  *)
(* success when it comes with fclose, whose result is ignored; a power loss *)
(* between fopen and fclose leaves the same.  What is in a torn file        *)
(* matters no more.                                                        *)

Rewritten(f, o) ==
  IF f.torn THEN {[file |-> f, ok |-> FALSE]}
  ELSE {[file |-> [f EXCEPT !.members = o], ok |-> TRUE]}
       \union {[file |-> f, ok |-> FALSE] : x \in Faults \intersect {"open"}}
       \union {[file |-> [f EXCEPT !.torn = TRUE], ok |-> FALSE] :
                 x \in Faults \intersect {"short"}}
       \union {[file |-> [torn |-> TRUE, members |-> o], ok |-> TRUE] :
                 x \in Faults \intersect {"short"}}

(* Removing what is not there succeeds without writing. *)
Pruned(f, o) ==
  IF ~f.torn /\ o = f.members THEN {[file |-> f, ok |-> TRUE]} ELSE Rewritten(f, o)
=============================================================================
