------------------------------ MODULE MCBudget ------------------------------
(* TLC instance of TransmissionBudget: whether anything calls release() and
   snapshot(), as no production code does, is chosen once for a behaviour. *)
EXTENDS TransmissionBudget, TLC

VARIABLE tools

Symmetry == Permutations(Worker) \cup Permutations(Attempt)

MCInit == Init /\ tools \in BOOLEAN

MCNext ==
  /\ Next
  /\ tools \/ \A w \in Worker : op'[w] \notin {"release", "snapshot"}
  /\ UNCHANGED tools

MCSpec == MCInit /\ [][MCNext]_<<vars, tools>>

\* Without those tools no UTC day sees more opening sends than the cap, although
\* TransmissionBudget pins its session date when the worker is built.
DayCap == ~tools => WallClockCap

=============================================================================
