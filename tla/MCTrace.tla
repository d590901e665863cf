------------------------------- MODULE MCTrace -------------------------------
(* An instance of TraceCapture: the gate, a model node, two nodes with a      *)
(* declared child each.                                                      *)
EXTENDS TraceCapture

CONSTANTS await_decision, prepare_brief, draft_copy, select_evidence, generate,
          copy_brief_prepare, copy_draft

MCNodes == {await_decision, prepare_brief, draft_copy}
MCChild == (prepare_brief :> copy_brief_prepare) @@ (draft_copy :> copy_draft)
MCInner == (copy_brief_prepare :> {select_evidence}) @@ (copy_draft :> {generate})
===============================================================================
