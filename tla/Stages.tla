------------------------------- MODULE Stages -------------------------------
(***************************************************************************)
(* The four pipeline stages and the operators the backend uses on a job's  *)
(* selected stages (jobs/enums.py, jobs/schemas.py, jobs/services.py).  A  *)
(* selection is stored without duplicates in pipeline order, so it is      *)
(* modelled as the set of its stages, ordered by Index.                    *)
(***************************************************************************)
EXTENDS Integers, FiniteSets

Stage == {"denoise", "separate", "transcribe", "summarize"}

(* Enum member order.                                                      *)
StageOrder == [denoise |-> 1, separate |-> 2, transcribe |-> 3, summarize |-> 4]
Index(s) == StageOrder[s]

(* What UploadRequestSchema accepts.                                       *)
ValidSelection(S) ==
    /\ S \subseteq Stage
    /\ S # {}
    /\ "summarize" \in S => "transcribe" \in S

Selections == {S \in SUBSET Stage : ValidSelection(S)}

(* selected_stages[0]                                                      *)
FirstStage(S) == CHOOSE s \in S : \A t \in S : Index(s) <= Index(t)

(* The selected stages after position index(s).                            *)
Later(S, s) == {t \in S : Index(t) > Index(s)}

(* selected_stages[index(s) + 1], when there is one.                       *)
NextStage(S, s) == FirstStage(Later(S, s))

(* The files a stage leaves in the bucket: separate writes one per speaker. *)
OutputCount(s) == IF s = "separate" THEN 2 ELSE 1
=============================================================================
