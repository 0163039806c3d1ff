-------------------------- MODULE MCDocumentIndex --------------------------
(***************************************************************************)
(* Instances of DocumentIndex for TLC: file names and contents are         *)
(* interchangeable, document ids are numbers issued in order.              *)
(***************************************************************************)
EXTENDS DocumentIndex, TLC

Names == Permutations(File) \cup Permutations(Content)

\* Only workers without a request may stand still: one that is stuck in a
\* request is a deadlock. A stutter adds no behaviour, so these are Spec and FairSpec.
Idling == (\A w \in Worker : Idle(w)) /\ UNCHANGED vars
MCSpec == Init /\ [][Next \/ Idling]_vars
MCFairSpec == MCSpec /\ \A w \in Worker : WF_vars(Proceed(w))
=============================================================================
