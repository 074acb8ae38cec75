------------------------------ MODULE RdfDump -------------------------------
(***************************************************************************)
(* What the mapping-to-RDF conversion promises: it adds quads of one fixed *)
(* target dataset to the output until the output is the target, or it      *)
(* gives up with an error and what was written is a part of the target.    *)
(***************************************************************************)
VARIABLES
  target,   (* the dataset that the mapping denotes over the database      *)
  written,  (* the quads handed to the writer                              *)
  outcome   (* "running", "complete" or "aborted"                          *)

vars == << target, written, outcome >>

Init ==
  /\ written = {}
  /\ outcome = "running"

Write(q) ==
  /\ outcome = "running"
  /\ q \in target
  /\ written' = written \cup {q}
  /\ UNCHANGED << target, outcome >>

Complete ==
  /\ outcome = "running"
  /\ written = target
  /\ outcome' = "complete"
  /\ UNCHANGED << target, written >>

Abort ==
  /\ outcome = "running"
  /\ outcome' = "aborted"
  /\ UNCHANGED << target, written >>

Next == (\E q \in target : Write(q)) \/ Complete \/ Abort

Spec == Init /\ [][Next]_vars
=============================================================================
