--------------------------------- MODULE MCAgt ---------------------------------
(***************************************************************************)
(* Calls of agt that fail at each point, get through, or meet a target that  *)
(* leaves the process or edits sys.path; two of them, in one process or two.  *)
(***************************************************************************)
EXTENDS Agt

CONSTANTS d1, d2, site, lib

MCDirectory   == {d1, d2, site}
MCInterpreter == <<site>>

Succeeding ==
  [ line |-> "describe", target |-> TRUE, exists |-> TRUE, dir |-> d1, load |-> "returns",
    status |-> 0, inserts |-> FALSE, object |-> TRUE, strict |-> FALSE,
    outcome |-> "complete", writing |-> "succeeds" ]

Described ==
  {[Succeeding EXCEPT !.outcome = o, !.strict = s, !.writing = w] :
     o \in {"complete", "incomplete", "unsupported", "TypeError", "other"},
     s \in BOOLEAN, w \in {"succeeds", "fails", "breaks"}}

Imported ==
  {[Succeeding EXCEPT !.load = l, !.inserts = i, !.object = FALSE, !.dir = d] :
     l \in {"returns", "raises"}, i \in BOOLEAN, d \in {d1, d2}}

Refused ==
  { [Succeeding EXCEPT !.line = "wrong"], [Succeeding EXCEPT !.line = "help"],
    [Succeeding EXCEPT !.target = FALSE],
    [Succeeding EXCEPT !.exists = FALSE] }

\* A target that ends in sys.exit(), or sys.exit(1).
Leaving == {[Succeeding EXCEPT !.load = "exits", !.status = s, !.dir = d2] : s \in {0, 1}}

MCInvocation ==
  Described \cup Imported \cup Refused \cup Leaving
    \cup {[Succeeding EXCEPT !.inserts = TRUE]}
===============================================================================
