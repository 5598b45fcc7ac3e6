------------------------- MODULE MCArtifactPipeline -------------------------
(* Small instances of the artifact pipeline.                               *)
EXTENDS ArtifactPipeline, TLC

(* Nobody asks again before the link of the last request was posted.       *)
Patient ==
    \A r \in Requests :
      asked[r] = "no" /\ asked'[r] # "no" =>
        \A s \in Requests : asked[s] \in {"no", "refused"} \/ posts[s] # {}

PatientSpec == Init /\ [][Next /\ Patient]_vars

(* What a revision promises (artifact-builder.prompt.ts:48): "Make the     *)
(* requested change ..., and keep everything else as it is."  What was     *)
(* announced stays on the thread's page.                                   *)
AnnouncedStays ==
    \A r \in Requests : posts[r] # {} => r \in LatestPage

(* Requests of one thread, and processes of one kind, are interchangeable. *)
Symmetry == Permutations(Requests) \cup Permutations(Publishers)
=============================================================================
