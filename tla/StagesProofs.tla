---------------------------- MODULE StagesProofs ----------------------------
(* Lemmas about the order of the stages, for every set of stages a job can *)
(* have selected.                                                          *)
EXTENDS Stages, TLAPS

(* Stage t is the one selected directly before s.                          *)
Follows(S, t, s) == t \in S /\ Later(S, t) # {} /\ NextStage(S, t) = s

(* The pipeline order is a total order of the stages.                      *)
LEMMA IndexType ==
    /\ \A s \in Stage : Index(s) \in 1 .. 4
    /\ \A s, t \in Stage : Index(s) = Index(t) => s = t
BY DEF Stage, Index, StageOrder

(* selected_stages[0] is the least of the selected stages.                 *)
LEMMA FirstIsLeast ==
    ASSUME NEW S \in SUBSET Stage, S # {}
    PROVE  /\ FirstStage(S) \in S
           /\ \A t \in S : Index(FirstStage(S)) <= Index(t)
<1> DEFINE Least(s) == s \in S /\ \A t \in S : Index(s) <= Index(t)
<1>1. \E s : Least(s)
  <2>1. CASE "denoise" \in S
    BY <2>1, IndexType DEF Stage, Index, StageOrder
  <2>2. CASE "denoise" \notin S /\ "separate" \in S
    BY <2>2, IndexType DEF Stage, Index, StageOrder
  <2>3. CASE "denoise" \notin S /\ "separate" \notin S /\ "transcribe" \in S
    BY <2>3, IndexType DEF Stage, Index, StageOrder
  <2>4. CASE S = {"summarize"}
    BY <2>4, IndexType DEF Stage, Index, StageOrder
  <2> QED
    BY <2>1, <2>2, <2>3, <2>4 DEF Stage
<1> QED
  BY <1>1 DEF FirstStage

(* No other stage is the least.                                            *)
LEMMA FirstIsUnique ==
    ASSUME NEW S \in SUBSET Stage, NEW s \in S, \A t \in S : Index(s) <= Index(t)
    PROVE  FirstStage(S) = s
<1>1. /\ Index(FirstStage(S)) <= Index(s)
      /\ Index(s) <= Index(FirstStage(S))
      /\ FirstStage(S) \in Stage /\ s \in Stage
  BY FirstIsLeast
<1> QED
  BY <1>1, IndexType

(* Every other selected stage is behind the first.                         *)
LEMMA LaterThanFirst ==
    ASSUME NEW S \in SUBSET Stage, S # {}
    PROVE  Later(S, FirstStage(S)) = S \ {FirstStage(S)}
<1>1. PICK f : f = FirstStage(S)
  OBVIOUS
<1>2. f \in S /\ \A t \in S : Index(f) <= Index(t)
  BY <1>1, FirstIsLeast
<1>3. ASSUME NEW t \in S PROVE Index(t) > Index(f) <=> t # f
  <2>1. Index(t) \in Int /\ Index(f) \in Int /\ (Index(t) = Index(f) => t = f)
    BY <1>2, IndexType
  <2> QED
    BY <1>2, <2>1
<1> QED
  BY <1>1, <1>3 DEF Later

(* The stage after s is the least of those behind it.                      *)
LEMMA NextIsLeast ==
    ASSUME NEW S \in SUBSET Stage, NEW s \in Stage, Later(S, s) # {}
    PROVE  /\ NextStage(S, s) \in S
           /\ Index(s) < Index(NextStage(S, s))
           /\ \A t \in S : Index(s) < Index(t) => Index(NextStage(S, s)) <= Index(t)
           /\ NextStage(S, s) # FirstStage(S) \/ s \notin S
<1>1. Later(S, s) \in SUBSET Stage
  BY DEF Later
<1>2. /\ NextStage(S, s) \in Later(S, s)
      /\ \A t \in Later(S, s) : Index(NextStage(S, s)) <= Index(t)
  BY <1>1, FirstIsLeast DEF NextStage
<1>3. /\ NextStage(S, s) \in S
      /\ Index(s) < Index(NextStage(S, s))
      /\ \A t \in S : Index(s) < Index(t) => Index(NextStage(S, s)) <= Index(t)
  BY <1>1, <1>2, IndexType DEF Later
<1>4. s \in S => Index(FirstStage(S)) <= Index(s)
  BY FirstIsLeast
<1> QED
  BY <1>3, <1>4, IndexType, FirstIsLeast

(* A stage follows at most one stage, and only a stage behind it.          *)
LEMMA FollowsIsUnique ==
    ASSUME NEW S \in SUBSET Stage, NEW s, NEW t, NEW u,
           Follows(S, t, s), Follows(S, u, s)
    PROVE  t = u
<1>1. t \in Stage /\ u \in Stage /\ t \in S /\ u \in S
  BY DEF Follows
<1>2. CASE Index(t) < Index(u)
  BY <1>1, <1>2, NextIsLeast, IndexType DEF Follows
<1>3. CASE Index(u) < Index(t)
  BY <1>1, <1>3, NextIsLeast, IndexType DEF Follows
<1> QED
  BY <1>1, <1>2, <1>3, IndexType

LEMMA FollowsIsBehind ==
    ASSUME NEW S \in SUBSET Stage, NEW s, NEW t, Follows(S, t, s)
    PROVE  /\ t \in S /\ s \in S
           /\ Index(t) < Index(s)
           /\ s # FirstStage(S)
           /\ \A u \in S : Index(u) <= Index(t) \/ Index(s) <= Index(u)
<1>1. t \in Stage /\ t \in S
  BY DEF Follows
<1> QED
  BY <1>1, NextIsLeast, IndexType DEF Follows

(* Behind s there are the next stage and what is behind that one.          *)
LEMMA LaterOfNext ==
    ASSUME NEW S \in SUBSET Stage, NEW s \in Stage, Later(S, s) # {}
    PROVE  Later(S, s) = {NextStage(S, s)} \cup Later(S, NextStage(S, s))
<1> DEFINE n == NextStage(S, s)
<1>1. /\ n \in S /\ n \in Stage
      /\ Index(s) < Index(n)
      /\ \A t \in S : Index(s) < Index(t) => Index(n) <= Index(t)
  BY NextIsLeast
<1>2. ASSUME NEW t \in S
      PROVE  Index(s) < Index(t) <=> t = n \/ Index(n) < Index(t)
  BY <1>1, <1>2, IndexType
<1> HIDE DEF n
<1> QED
  BY <1>1, <1>2 DEF Later, n
=============================================================================
