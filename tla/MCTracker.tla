----------------------------- MODULE MCTracker ------------------------------
(* The tracker: the thread of one item, the handovers of one item, and the *)
(* vectors that its documents are found by.  The three have no state in    *)
(* common, so a behavior explores one of them, `part`.                     *)
EXTENDS ItemThread, ItemHandover, VectorIndex

VARIABLE part

vars == <<part, threadVars, handoverVars, vectorVars>>

Only(name, others) == part = name /\ UNCHANGED <<part, others>>

InThread == Only("thread", <<handoverVars, vectorVars>>)
InHandover == Only("handover", <<threadVars, vectorVars>>)
InVectors == Only("vectors", <<threadVars, handoverVars>>)

Init ==
  /\ part \in {"thread", "handover", "vectors"}
  /\ ThreadInit /\ HandoverInit /\ VectorInit
  /\ part # "handover" => owner = Coordinator
  /\ model = CHOOSE m \in Models : TRUE
Next ==
  \/ InThread /\ ThreadNext
  \/ InHandover /\ HandoverNext
  \/ InVectors /\ VectorNext

\* The fairness of the components, each action while its part is explored.
Fairness ==
  /\ WF_vars(InThread /\ Worker)
  /\ WF_vars(InThread /\ Boot)
  /\ WF_vars(InHandover /\ RunOut)
  /\ WF_vars(InHandover /\ Sweep)

Spec == Init /\ [][Next]_vars /\ Fairness

\* SimilarIsTrue, which is costly, in the part it is about: the similar tier
\* answers from what the tracker says now.
SimilarFound == part = "vectors" => SimilarIsTrue
=============================================================================
