---------------------------- MODULE UploadProofs ----------------------------
(* Proofs that the invariants of Upload hold for every set of jobs, calls  *)
(* and file sizes and every limit.  Each action is shown to preserve the   *)
(* typing first, then the inductive invariant IInv.                        *)
EXTENDS Upload, FiniteSetTheorems, TLAPS

-----------------------------------------------------------------------------
(* Sums over finite sets.                                                  *)

SumOver(f, S) == MapThenSumSet(LAMBDA x : f[x], S)

(* The element a fold over a set takes out first.                          *)
First(U) == CHOOSE x \in U : TRUE

(* g gives the sum of f over every subset of S, one element at a time, in  *)
(* the order MapThenSumSet takes them.                                     *)
Sums(g, f, S) ==
    /\ g \in [SUBSET S -> Nat]
    /\ \A U \in SUBSET S : g[U] = IF U = {} THEN 0
                                  ELSE f[First(U)] + g[U \ {First(U)}]

(* A non-empty family of subsets of a finite set has a member none of whose*)
(* proper subsets is in the family: the induction of this section, which   *)
(* says that the family of the subsets a claim fails for is empty.         *)
LEMMA Least ==
    ASSUME NEW S, IsFiniteSet(S), NEW B \in SUBSET (SUBSET S), B # {}
    PROVE  \E U \in B : \A V \in SUBSET U : V # U => V \notin B
<1>1. IsWellFoundedOn(StrictSubsetOrdering(S), SUBSET S)
  BY FS_FiniteSubsetsOfFinite, FS_StrictSubsetOrderingWellFounded
<1>2. PICK U \in B : \A V \in B : <<V, U>> \notin StrictSubsetOrdering(S)
  BY <1>1, WFMin
<1>3. ASSUME NEW V \in SUBSET U, V # U, V \in B PROVE FALSE
  BY <1>2, <1>3 DEF StrictSubsetOrdering
<1> QED
  BY <1>2, <1>3

(* What is taken out of a set was in it.                                   *)
LEMMA FirstIn == \A U : U # {} => First(U) \in U
BY DEF First

(* Two such functions agree on the sets they share.                        *)
LEMMA SumsUnique ==
    ASSUME NEW S, IsFiniteSet(S), NEW T1 \in SUBSET S, NEW T2 \in SUBSET S, NEW f,
           NEW g, NEW h, Sums(g, f, T1), Sums(h, f, T2)
    PROVE  \A U \in SUBSET (T1 \cap T2) : g[U] = h[U]
<1> DEFINE B == {U \in SUBSET (T1 \cap T2) : g[U] # h[U]}
<1> SUFFICES ASSUME B # {} PROVE FALSE
  OBVIOUS
<1>1. B \in SUBSET (SUBSET S)
  OBVIOUS
<1>2. PICK U \in B : \A V \in SUBSET U : V # U => V \notin B
  <2> HIDE DEF B
  <2> QED
    BY <1>1, Least
<1>3. U # {}
  BY DEF Sums
<1> DEFINE V == U \ {First(U)}
<1>4. V \in SUBSET U /\ V # U
  BY <1>3, FirstIn
<1>5. g[V] = h[V]
  BY <1>2, <1>4
<1> QED
  BY <1>3, <1>5 DEF Sums

(* There is such a function: the recursion is well-founded.                *)
LEMMA SumsExist ==
    ASSUME NEW S, IsFiniteSet(S), NEW f \in [S -> Nat]
    PROVE  \E g : Sums(g, f, S)
<1> DEFINE B == {T \in SUBSET S : ~ \E g : Sums(g, f, T)}
<1> SUFFICES ASSUME B # {} PROVE FALSE
  OBVIOUS
<1>1. PICK T \in B : \A V \in SUBSET T : V # T => V \notin B
  <2>1. B \in SUBSET (SUBSET S)
    OBVIOUS
  <2> HIDE DEF B
  <2> QED
    BY <2>1, Least
<1> DEFINE G(U) == CHOOSE g : Sums(g, f, U)
           Rest(U) == U \ {First(U)}
<1>2. ASSUME NEW U \in SUBSET T, U # T PROVE Sums(G(U), f, U)
  BY <1>1, <1>2
<1> DEFINE h == [U \in SUBSET T |->
                    IF U = {} THEN 0 ELSE f[First(U)] + G(Rest(U))[Rest(U)]]
<1> HIDE DEF G
<1>3. ASSUME NEW U \in SUBSET T, U # {}
      PROVE  /\ Rest(U) \in SUBSET U /\ Rest(U) # T
             /\ Sums(G(Rest(U)), f, Rest(U))
             /\ f[First(U)] \in Nat
             /\ G(Rest(U))[Rest(U)] \in Nat
  <2>1. First(U) \in U
    BY <1>3, FirstIn
  <2>2. Rest(U) \in SUBSET U /\ Rest(U) # T
    BY <2>1
  <2>3. Sums(G(Rest(U)), f, Rest(U))
    BY <1>2, <2>2
  <2> QED
    BY <2>1, <2>2, <2>3 DEF Sums
<1>4. h \in [SUBSET T -> Nat]
  BY <1>3
<1>5. ASSUME NEW U \in SUBSET T, U # T PROVE h[U] = G(U)[U]
  <2>1. CASE U = {}
    BY <1>2, <2>1, <1>5 DEF Sums
  <2>2. CASE U # {}
    <3>1. G(U)[U] = f[First(U)] + G(U)[Rest(U)]
      BY <1>2, <1>5, <2>2 DEF Sums
    <3>2. G(U)[Rest(U)] = G(Rest(U))[Rest(U)]
      <4>1. Sums(G(U), f, U) /\ Sums(G(Rest(U)), f, Rest(U)) /\ Rest(U) \in SUBSET U
        BY <1>2, <1>3, <1>5, <2>2
      <4> HIDE DEF Rest
      <4>2. U \in SUBSET S /\ Rest(U) \in SUBSET S
        BY <4>1
      <4> QED
        BY <4>1, <4>2, SumsUnique
    <3> QED
      BY <3>1, <3>2, <2>2
  <2> QED
    BY <2>1, <2>2
<1>6. \A U \in SUBSET T : h[U] = IF U = {} THEN 0 ELSE f[First(U)] + h[Rest(U)]
  BY <1>3, <1>5
<1>7. Sums(h, f, T)
  BY <1>4, <1>6 DEF Sums
<1> QED
  BY <1>7

(* So MapThenSumSet is the sum its definition describes.                   *)
LEMMA SumIs ==
    ASSUME NEW S, IsFiniteSet(S), NEW f \in [S -> Nat]
    PROVE  \E g : Sums(g, f, S) /\ SumOver(f, S) = g[S]
<1> DEFINE Body(g) == [U \in SUBSET S |-> IF U = {} THEN 0
                         ELSE f[First(U)] + g[U \ {First(U)}]]
<1> DEFINE it == CHOOSE g : g = Body(g)
<1>1. SumOver(f, S) = it[S]
  BY DEF SumOver, MapThenSumSet, MapThenFoldSet, First
<1>2. PICK g : Sums(g, f, S)
  BY SumsExist
<1>3. g = Body(g)
  BY <1>2 DEF Sums
<1>4. it = Body(it)
  <2> HIDE DEF Body
  <2> QED
    BY <1>3
<1>5. \A U \in SUBSET S : it[U] = IF U = {} THEN 0 ELSE f[First(U)] + it[U \ {First(U)}]
  <2> HIDE DEF it
  <2> QED
    BY <1>4
<1> DEFINE B == {U \in SUBSET S : g[U] # it[U]}
<1>6. B = {}
  <2> SUFFICES ASSUME B # {} PROVE FALSE
    OBVIOUS
  <2>1. B \in SUBSET (SUBSET S)
    OBVIOUS
  <2>2. PICK U \in B : \A V \in SUBSET U : V # U => V \notin B
    <3> HIDE DEF B
    <3> QED
      BY <2>1, Least
  <2> HIDE DEF it
  <2>3. U # {}
    BY <1>2, <1>5 DEF Sums
  <2>4. U \ {First(U)} \in SUBSET U /\ U \ {First(U)} # U
    BY <2>3, FirstIn
  <2> QED
    BY <2>2, <2>3, <2>4, <1>2, <1>5 DEF Sums
<1>7. g[S] = it[S]
  BY <1>6
<1> QED
  BY <1>1, <1>2, <1>7

(* When one summand changes, the sum changes by as much.                   *)
LEMMA SumChanges ==
    ASSUME NEW S, IsFiniteSet(S), NEW f \in [S -> Nat], NEW f2 \in [S -> Nat],
           NEW j \in S, \A i \in S : i # j => f2[i] = f[i]
    PROVE  SumOver(f2, S)
               = SumOver(f, S) + f2[j] - f[j]
<1>1. PICK g : Sums(g, f, S) /\ SumOver(f, S) = g[S]
  BY SumIs
<1>2. PICK g2 : Sums(g2, f2, S) /\ SumOver(f2, S) = g2[S]
  BY SumIs
<1> DEFINE Right(U) == g2[U] = IF j \in U THEN g[U] + f2[j] - f[j] ELSE g[U]
           B == {U \in SUBSET S : ~ Right(U)}
<1>3. B = {}
  <2> SUFFICES ASSUME B # {} PROVE FALSE
    OBVIOUS
  <2>1. B \in SUBSET (SUBSET S)
    OBVIOUS
  <2>2. PICK U \in B : \A V \in SUBSET U : V # U => V \notin B
    <3> HIDE DEF B
    <3> QED
      BY <2>1, Least
  <2>3. U # {}
    BY <1>1, <1>2 DEF Sums
  <2> DEFINE k == First(U)
             V == U \ {k}
  <2>4. k \in U
    BY <2>3, FirstIn
  <2>5. V \in SUBSET U /\ V # U
    BY <2>4
  <2>6. Right(V)
    BY <2>2, <2>5
  <2>7. /\ g[U] = f[k] + g[V]
        /\ g2[U] = f2[k] + g2[V]
        /\ g[U] \in Nat /\ g[V] \in Nat /\ g2[V] \in Nat
        /\ f[k] \in Nat /\ f2[k] \in Nat
    BY <1>1, <1>2, <2>3, <2>4 DEF Sums
  <2> HIDE DEF k
  <2>8. CASE k = j
    BY <2>4, <2>6, <2>7, <2>8
  <2>9. CASE k # j
    BY <2>4, <2>6, <2>7, <2>9
  <2> QED
    BY <2>8, <2>9
<1>4. Right(S)
  BY <1>3
<1> QED
  BY <1>1, <1>2, <1>4

(* A sum of natural numbers is one.                                        *)
LEMMA SumNat ==
    ASSUME NEW S, IsFiniteSet(S), NEW f \in [S -> Nat]
    PROVE  SumOver(f, S) \in Nat
<1>1. PICK g : Sums(g, f, S) /\ SumOver(f, S) = g[S]
  BY SumIs
<1> QED
  BY <1>1 DEF Sums

(* A sum of zeros is zero.                                                 *)
LEMMA SumZero ==
    ASSUME NEW S, IsFiniteSet(S), NEW f \in [S -> Nat], \A x \in S : f[x] = 0
    PROVE  SumOver(f, S) = 0
<1>1. PICK g : Sums(g, f, S) /\ SumOver(f, S) = g[S]
  BY SumIs
<1> DEFINE B == {U \in SUBSET S : g[U] # 0}
<1>2. B = {}
  <2> SUFFICES ASSUME B # {} PROVE FALSE
    OBVIOUS
  <2>1. B \in SUBSET (SUBSET S)
    OBVIOUS
  <2>2. PICK U \in B : \A V \in SUBSET U : V # U => V \notin B
    <3> HIDE DEF B
    <3> QED
      BY <2>1, Least
  <2>3. U # {}
    BY <1>1 DEF Sums
  <2>4. U \ {First(U)} \in SUBSET U /\ U \ {First(U)} # U /\ First(U) \in U
    BY <2>3, FirstIn
  <2>5. g[U \ {First(U)}] = 0
    BY <2>2, <2>4
  <2>6. g[U] = f[First(U)] + g[U \ {First(U)}]
    BY <2>3, <1>1 DEF Sums
  <2>7. f[First(U)] = 0
    BY <2>4
  <2>8. g[U] # 0
    BY <2>2
  <2> QED
    BY <2>5, <2>6, <2>7, <2>8
<1> QED
  BY <1>1, <1>2

-----------------------------------------------------------------------------
USE UploadAssumption, NobodyAssumption

(* Every step keeps the variables in their types.                          *)
LEMMA TypeStep == TypeOK /\ [Next]_vars => TypeOK'
<1> SUFFICES ASSUME TypeOK, [Next]_vars PROVE TypeOK'
  OBVIOUS
<1> USE DEF TypeOK, Goto, clientVars, dbVars, lockVars, callVars,
            Working, Ended, Deleting, Statuses, NoObject, Nobody, Remaining
<1>1. ASSUME NEW j \in Jobs, RequestUpload(j) PROVE TypeOK'
  BY <1>1 DEF RequestUpload
<1>2. ASSUME NEW j \in Jobs, CommitRequest(j) PROVE TypeOK'
  BY <1>2 DEF CommitRequest
<1>3. ASSUME NEW j \in Jobs, LoseRequest(j) PROVE TypeOK'
  BY <1>3 DEF LoseRequest
<1>4. ASSUME NEW j \in Jobs, PostObject(j) PROVE TypeOK'
  BY <1>4 DEF PostObject
<1>5. ASSUME NEW c \in Calls, Authenticate(c) PROVE TypeOK'
  BY <1>5 DEF Authenticate
<1>6. ASSUME NEW c \in Calls, ReadJob(c) PROVE TypeOK'
  BY <1>6 DEF ReadJob
<1>7. ASSUME NEW c \in Calls, HeadObject(c) PROVE TypeOK'
  BY <1>7 DEF HeadObject
<1>8. ASSUME NEW c \in Calls, QueueRow(c) PROVE TypeOK'
  BY <1>8 DEF QueueRow
<1>9. ASSUME NEW c \in Calls, ChargeUser(c) PROVE TypeOK'
  BY <1>9 DEF ChargeUser
<1>10. ASSUME NEW c \in Calls, CommitConfirm(c) PROVE TypeOK'
  BY <1>10 DEF CommitConfirm
<1>11. ASSUME NEW c \in Calls, Publish(c) PROVE TypeOK'
  BY <1>11 DEF Publish
<1>12. ASSUME NEW c \in Calls, PublishTimesOut(c) PROVE TypeOK'
  BY <1>12 DEF PublishTimesOut
<1>13. ASSUME NEW c \in Calls, DeleteRow(c) PROVE TypeOK'
  BY <1>13 DEF DeleteRow
<1>14. ASSUME NEW c \in Calls, DeleteObject(c) PROVE TypeOK'
  BY <1>14 DEF DeleteObject
<1>15. ASSUME NEW c \in Calls, CommitDelete(c) PROVE TypeOK'
  BY <1>15 DEF CommitDelete
<1>16. ASSUME NEW c \in Calls, Fail(c) PROVE TypeOK'
  BY <1>16 DEF Fail
<1>17. CASE UNCHANGED vars
  BY <1>17 DEF vars
<1> QED
  BY <1>1, <1>2, <1>3, <1>4, <1>5, <1>6, <1>7, <1>8, <1>9, <1>10, <1>11, <1>12,
     <1>13, <1>14, <1>15, <1>16, <1>17 DEF Next, Step

(* The actions that leave the rows, the locks, the calls and the messages  *)
(* alone, and the stuttering step.                                         *)
Quiet ==
    \/ \E j \in Jobs : RequestUpload(j) \/ LoseRequest(j) \/ PostObject(j)
    \/ UNCHANGED vars

LEMMA QuietStep ==
    TypeOK /\ Quiet =>
        /\ UNCHANGED <<dbVars, lockVars, callVars, published>>
        /\ \A j \in Jobs : (request'[j] = "done") <=> (request[j] = "done")
BY DEF Quiet, RequestUpload, LoseRequest, PostObject, vars, clientVars, dbVars,
       lockVars, callVars, TypeOK

(* The counter never falls: no step gives storage back.                    *)
LEMMA StorageGrows == TypeOK /\ [Next]_vars => storage_used <= storage_used'
<1> SUFFICES ASSUME TypeOK, [Next]_vars PROVE storage_used <= storage_used'
  OBVIOUS
<1>1. ASSUME NEW c \in Calls, CommitConfirm(c) PROVE storage_used <= storage_used'
  BY <1>1 DEF CommitConfirm, TypeOK
<1>2. ASSUME NEW c \in Calls, ~CommitConfirm(c),
             Authenticate(c) \/ Step(c) \/ Fail(c)
      PROVE  storage_used <= storage_used'
  BY <1>2 DEF Step, Authenticate, ReadJob, HeadObject, QueueRow, ChargeUser, Publish,
     PublishTimesOut, DeleteRow, DeleteObject, CommitDelete, Fail, dbVars, TypeOK
<1>3. ASSUME NEW j \in Jobs, CommitRequest(j) PROVE storage_used <= storage_used'
  BY <1>3 DEF CommitRequest, TypeOK
<1>4. CASE Quiet
  BY <1>4, QuietStep DEF dbVars, TypeOK
<1> QED
  BY <1>1, <1>2, <1>3, <1>4 DEF Next, Step, Quiet

(* A row's lock and its pending status stay with the call that took it.     *)
LEMMA RowLockStep ==
    TypeOK /\ RowLockInv /\ [Next]_vars
        => RowLockInv'
<1> DEFINE Goal == RowLockInv'
<1> SUFFICES ASSUME TypeOK, RowLockInv, [Next]_vars PROVE Goal
  OBVIOUS
<1>1. ASSUME NEW c \in Calls, QueueRow(c) PROVE Goal
  BY <1>1 DEF QueueRow, Goto, dbVars, lockVars, Deleting, Working, Nobody,
     TypeOK, RowLockInv
<1>2. ASSUME NEW c \in Calls, ChargeUser(c) PROVE Goal
  BY <1>2 DEF ChargeUser, Goto, dbVars, lockVars, Deleting, Working, Nobody,
     TypeOK, RowLockInv
<1>3. ASSUME NEW c \in Calls, CommitConfirm(c) PROVE Goal
  BY <1>3 DEF CommitConfirm, Goto, dbVars, lockVars, Deleting, Working,
     Nobody, TypeOK, RowLockInv
<1>4. ASSUME NEW c \in Calls, DeleteRow(c) PROVE Goal
  BY <1>4 DEF DeleteRow, Goto, dbVars, lockVars, Deleting, Working, Nobody,
     TypeOK, RowLockInv
<1>5. ASSUME NEW c \in Calls, DeleteObject(c) PROVE Goal
  BY <1>5 DEF DeleteObject, Goto, dbVars, lockVars, Deleting, Working, Nobody,
     TypeOK, RowLockInv
<1>6. ASSUME NEW c \in Calls, CommitDelete(c) PROVE Goal
  BY <1>6 DEF CommitDelete, Goto, dbVars, lockVars, Deleting, Working, Nobody,
     TypeOK, RowLockInv
<1>7. ASSUME NEW c \in Calls, Fail(c) PROVE Goal
  BY <1>7 DEF Fail, Goto, dbVars, lockVars, Deleting, Working, Nobody, TypeOK,
     RowLockInv
<1>8. ASSUME NEW c \in Calls,
             Authenticate(c) \/ ReadJob(c) \/ HeadObject(c) \/ Publish(c) \/
             PublishTimesOut(c)
      PROVE  Goal
  BY <1>8 DEF Authenticate, ReadJob, HeadObject, Publish, PublishTimesOut,
     Goto, dbVars, lockVars, Deleting, Working, Nobody, TypeOK, RowLockInv
<1>9. ASSUME NEW j \in Jobs, CommitRequest(j) PROVE Goal
  BY <1>9 DEF CommitRequest, lockVars, callVars, Nobody, TypeOK, RowLockInv
<1>10. CASE Quiet
  BY <1>10, QuietStep DEF dbVars, lockVars, callVars, TypeOK, RowLockInv
<1> QED
  BY <1>1, <1>2, <1>3, <1>4, <1>5, <1>6, <1>7, <1>8, <1>9, <1>10 DEF Next, Step, Quiet

(* What fits under the user's lock still fits at the commit, because only   *)
(* the owner of that lock moves the counter.                               *)
LEMMA UserLockStep ==
    TypeOK /\ UserLockInv /\ QuotaRespected /\ [Next]_vars
        => UserLockInv' /\ QuotaRespected'
<1> DEFINE Goal == UserLockInv' /\ QuotaRespected'
<1> SUFFICES ASSUME TypeOK, UserLockInv, QuotaRespected, [Next]_vars PROVE Goal
  OBVIOUS
<1>1. ASSUME NEW c \in Calls, ChargeUser(c) PROVE Goal
  BY <1>1 DEF ChargeUser, Goto, dbVars, lockVars, Deleting, Working, Nobody,
     TypeOK, UserLockInv, QuotaRespected
<1>2. ASSUME NEW c \in Calls, CommitConfirm(c) PROVE Goal
  BY <1>2 DEF CommitConfirm, Goto, dbVars, lockVars, Deleting, Working,
     Nobody, TypeOK, UserLockInv, QuotaRespected
<1>3. ASSUME NEW c \in Calls, Fail(c) PROVE Goal
  BY <1>3 DEF Fail, Goto, dbVars, lockVars, Deleting, Working, Nobody, TypeOK,
     UserLockInv, QuotaRespected
<1>4. ASSUME NEW c \in Calls,
             Authenticate(c) \/ ReadJob(c) \/ HeadObject(c) \/
             QueueRow(c) \/ Publish(c) \/ PublishTimesOut(c) \/
             DeleteRow(c) \/ DeleteObject(c) \/ CommitDelete(c)
      PROVE  Goal
  BY <1>4 DEF Authenticate, ReadJob, HeadObject, QueueRow, Publish,
     PublishTimesOut, DeleteRow, DeleteObject, CommitDelete, Goto, dbVars,
     lockVars, Deleting, Working, Nobody, TypeOK, UserLockInv, QuotaRespected
<1>5. ASSUME NEW j \in Jobs, CommitRequest(j) PROVE Goal
  BY <1>5 DEF CommitRequest, lockVars, callVars, Nobody, TypeOK, UserLockInv,
     QuotaRespected
<1>6. CASE Quiet
  BY <1>6, QuietStep DEF dbVars, lockVars, callVars, TypeOK, UserLockInv, QuotaRespected
<1> QED
  BY <1>1, <1>2, <1>3, <1>4, <1>5, <1>6 DEF Next, Step, Quiet

(* Of all the calls on one job only one gets to publish: the row it locked  *)
(* was pending, and no call publishes for a pending row.                   *)
LEMMA PublishingStep ==
    TypeOK /\ RowLockInv /\ PublishInv /\ PublishedOnce /\ PublishedAfterQueued /\ [Next]_vars
        => PublishInv' /\ PublishedOnce' /\ PublishedAfterQueued'
<1> DEFINE Goal == PublishInv' /\ PublishedOnce' /\ PublishedAfterQueued'
<1> SUFFICES ASSUME TypeOK, RowLockInv, PublishInv, PublishedOnce, PublishedAfterQueued, [Next]_vars PROVE Goal
  OBVIOUS
<1>1. ASSUME NEW j \in Jobs, CommitRequest(j) PROVE Goal
  BY <1>1 DEF CommitRequest, Goto, lockVars, callVars, Nobody, TypeOK,
     RowLockInv, PublishInv, PublishedOnce, PublishedAfterQueued
<1>2. ASSUME NEW c \in Calls, CommitConfirm(c) PROVE Goal
  BY <1>2 DEF CommitConfirm, Goto, dbVars, lockVars, Deleting, Working,
     Nobody, TypeOK, RowLockInv, PublishInv, PublishedOnce,
     PublishedAfterQueued
<1>3. ASSUME NEW c \in Calls, Publish(c) PROVE Goal
  BY <1>3 DEF Publish, Goto, dbVars, lockVars, Deleting, Working, Nobody,
     TypeOK, RowLockInv, PublishInv, PublishedOnce, PublishedAfterQueued
<1>4. ASSUME NEW c \in Calls, PublishTimesOut(c) PROVE Goal
  BY <1>4 DEF PublishTimesOut, Goto, dbVars, lockVars, Deleting, Working,
     Nobody, TypeOK, RowLockInv, PublishInv, PublishedOnce,
     PublishedAfterQueued
<1>5. ASSUME NEW c \in Calls, CommitDelete(c) PROVE Goal
  BY <1>5 DEF CommitDelete, Goto, dbVars, lockVars, Deleting, Working, Nobody,
     TypeOK, RowLockInv, PublishInv, PublishedOnce, PublishedAfterQueued
<1>6. ASSUME NEW c \in Calls,
             Authenticate(c) \/ ReadJob(c) \/ HeadObject(c) \/
             QueueRow(c) \/ ChargeUser(c) \/ DeleteRow(c) \/
             DeleteObject(c) \/ Fail(c)
      PROVE  Goal
  BY <1>6 DEF Authenticate, ReadJob, HeadObject, QueueRow, ChargeUser,
     DeleteRow, DeleteObject, Fail, Goto, dbVars, lockVars, Deleting, Working,
     Nobody, TypeOK, RowLockInv, PublishInv, PublishedOnce,
     PublishedAfterQueued
<1>7. CASE Quiet
  BY <1>7, QuietStep DEF dbVars, lockVars, callVars, TypeOK, RowLockInv, PublishInv, PublishedOnce,
     PublishedAfterQueued
<1> QED
  BY <1>1, <1>2, <1>3, <1>4, <1>5, <1>6, <1>7 DEF Next, Step, Quiet

(* A snapshot stays below a counter that only grows.                       *)
LEMMA SnapshotStep == TypeOK /\ SnapshotInv /\ [Next]_vars => SnapshotInv'
<1> SUFFICES ASSUME TypeOK, SnapshotInv, [Next]_vars, NEW d \in Calls
             PROVE  snapshot'[d] <= storage_used'
  BY DEF SnapshotInv
<1>1. storage_used <= storage_used' /\ storage_used' \in Nat
  BY StorageGrows, TypeStep DEF TypeOK
<1>2. snapshot'[d] = snapshot[d] \/ snapshot'[d] = storage_used
  BY DEF TypeOK, Next, Step, vars, callVars, Authenticate, ReadJob, HeadObject, QueueRow,
     ChargeUser, CommitConfirm, Publish, PublishTimesOut, DeleteRow, DeleteObject,
     CommitDelete, Fail, RequestUpload, CommitRequest, LoseRequest, PostObject
<1> QED
  BY <1>1, <1>2 DEF SnapshotInv, TypeOK

(* A refusal decided on a snapshot is right for every later counter.       *)
LEMMA RefusalStep ==
    TypeOK /\ SnapshotInv /\ RefusalInv /\ [Next]_vars => RefusalInv'
<1> DEFINE Refused(l) == l \in Refusing
<1> SUFFICES ASSUME TypeOK, SnapshotInv, RefusalInv, [Next]_vars,
                    NEW d \in Calls, Refused(pc'[d])
             PROVE  storage_used' + actual_size'[d] > StorageLimit
  BY DEF RefusalInv
<1> USE DEF Refusing
<1>1. storage_used <= storage_used' /\ storage_used' \in Nat
  BY StorageGrows, TypeStep DEF TypeOK
<1>2. CASE Refused(pc[d]) /\ actual_size'[d] = actual_size[d]
  BY <1>1, <1>2 DEF RefusalInv, TypeOK
<1>3. CASE HeadObject(d)
  BY <1>1, <1>3 DEF HeadObject, Goto, SnapshotInv, TypeOK, NoObject
<1>4. CASE ChargeUser(d)
  BY <1>1, <1>4 DEF ChargeUser, Goto, TypeOK, dbVars
<1>5. \/ Refused(pc[d]) /\ actual_size'[d] = actual_size[d]
      \/ HeadObject(d) \/ ChargeUser(d)
  BY DEF TypeOK, Next, Step, vars, callVars, Goto, Deleting, Authenticate, ReadJob,
     HeadObject, QueueRow, ChargeUser, CommitConfirm, Publish, PublishTimesOut, DeleteRow,
     DeleteObject, CommitDelete, Fail, RequestUpload, CommitRequest, LoseRequest, PostObject
<1> QED
  BY <1>2, <1>3, <1>4, <1>5

(* A lock is only taken on a row that is there, and its owner alone takes  *)
(* the row away.                                                           *)
LEMMA RowStep == TypeOK /\ RowLockInv /\ RowInv /\ [Next]_vars => RowInv'
<1> SUFFICES ASSUME TypeOK, RowLockInv, RowInv, [Next]_vars PROVE RowInv'
  OBVIOUS
<1> USE DEF TypeOK, RowInv, dbVars, lockVars, Nobody
<1>1. ASSUME NEW j \in Jobs, CommitRequest(j) PROVE RowInv'
  BY <1>1 DEF CommitRequest
<1>2. ASSUME NEW c \in Calls, QueueRow(c) PROVE RowInv'
  BY <1>2 DEF QueueRow
<1>3. ASSUME NEW c \in Calls, ChargeUser(c) PROVE RowInv'
  BY <1>3 DEF ChargeUser
<1>4. ASSUME NEW c \in Calls, CommitConfirm(c) PROVE RowInv'
  BY <1>4 DEF CommitConfirm
<1>5. ASSUME NEW c \in Calls, DeleteRow(c) PROVE RowInv'
  BY <1>5 DEF DeleteRow
<1>6. ASSUME NEW c \in Calls, CommitDelete(c) PROVE RowInv'
  BY <1>6 DEF CommitDelete
<1>7. ASSUME NEW c \in Calls, Fail(c) PROVE RowInv'
  BY <1>7 DEF Fail
<1>8. ASSUME NEW c \in Calls,
             Authenticate(c) \/ ReadJob(c) \/ HeadObject(c) \/ Publish(c) \/
             PublishTimesOut(c) \/ DeleteObject(c)
      PROVE  RowInv'
  BY <1>8 DEF Authenticate, ReadJob, HeadObject, Publish, PublishTimesOut, DeleteObject
<1>9. CASE Quiet
  BY <1>9, QuietStep
<1> QED
  BY <1>1, <1>2, <1>3, <1>4, <1>5, <1>6, <1>7, <1>8, <1>9 DEF Next, Step, Quiet

(* Posting the file: the first post is of a job nobody has measured.       *)
LEMMA FilePost ==
    ASSUME TypeOK, FileInv, NEW i \in Jobs, PostObject(i)
    PROVE  FileInv'
<1> USE DEF PostObject, dbVars, lockVars, callVars, NoObject
<1>1. /\ posts'[i] = posts[i] + 1 /\ object'[i] \in Nat \ {0} /\ posts[i] \in Nat
      /\ \A j \in Jobs : j # i => posts'[j] = posts[j] /\ object'[j] = object[j]
  BY DEF TypeOK
<1>2. \A c \in Calls : Measured(c)' = Measured(c)
  BY DEF Measured
<1>3. \A j \in Jobs : Confirmed(j)' = Confirmed(j)
  BY DEF Confirmed
<1> QED
  BY <1>1, <1>2, <1>3 DEF FileInv, TypeOK

(* head_object: the call agrees with every other one on a file that was     *)
(* posted once, and finds the file of a confirmed job to fit.              *)
LEMMA FileHead ==
    ASSUME TypeOK, FileInv, SnapshotInv, NEW e \in Calls, HeadObject(e)
    PROVE  FileInv'
<1> USE DEF NoObject, Refusing
<1>1. /\ UNCHANGED <<posts, object, status, storage_used, published, job, snapshot>>
      /\ pc[e] = "head" /\ actual_size'[e] = object[job[e]]
      /\ pc'[e] \in {"delete_missing", "delete_oversize", "queue"}
      /\ \A c \in Calls : c # e => pc'[c] = pc[c] /\ actual_size'[c] = actual_size[c]
  BY DEF HeadObject, Goto, TypeOK, clientVars, dbVars
<1>2. \A c \in Calls : c # e => Measured(c)' = Measured(c)
  BY <1>1 DEF Measured
<1>3. Measured(e)' => object[job[e]] > 0
  BY DEF HeadObject, Goto, TypeOK, Measured
<1>4. \A j \in Jobs : Confirmed(j)' = Confirmed(j)
  BY <1>1 DEF Confirmed
<1>5. Confirmed(job[e]) /\ posts[job[e]] < 2 => pc'[e] # "delete_oversize"
  BY <1>1 DEF HeadObject, Goto, TypeOK, FileInv
<1> QED
  BY <1>1, <1>2, <1>3, <1>4, <1>5 DEF FileInv, TypeOK

(* The commit of a confirmation: what was measured fits, so the file is     *)
(* there, fits every earlier snapshot and is refused by no other call.     *)
LEMMA FileCommit ==
    ASSUME IInv, NEW e \in Calls, CommitConfirm(e)
    PROVE  FileInv'
<1> DEFINE i == job[e]
<1> USE DEF NoObject, Refusing
<1>1. /\ UNCHANGED <<posts, object, published, job, snapshot, actual_size>>
      /\ pc[e] = "commit" /\ pc'[e] = "publish" /\ i \in Jobs
      /\ \A j \in Jobs : j # i => status'[j] = status[j]
      /\ storage_used <= storage_used'
      /\ \A c \in Calls : c # e => pc'[c] = pc[c]
  BY StorageGrows DEF CommitConfirm, Goto, IInv, TypeOK, clientVars, Next, Step
<1>2. \A c \in Calls : Measured(c)' => Measured(c)
  BY <1>1 DEF Measured
<1>3. \A j \in Jobs : j # i => Confirmed(j)' = Confirmed(j)
  BY <1>1 DEF Confirmed
<1>4. storage_used + actual_size[e] <= StorageLimit /\ Measured(e)
  BY <1>1 DEF IInv, UserLockInv, Measured
<1>5. posts[i] < 2 => posts[i] = 1 /\ object[i] = actual_size[e] /\ object[i] > 0
  BY <1>1, <1>4 DEF IInv, FileInv, TypeOK
<1>6. ASSUME NEW c \in Calls, job[c] = i, posts[i] < 2
      PROVE  /\ pc[c] = "head" => snapshot[c] + object[i] <= StorageLimit
             /\ pc[c] \notin Refusing
  <2>1. snapshot[c] + object[i] <= StorageLimit
    BY <1>4, <1>5, <1>6 DEF IInv, SnapshotInv, TypeOK
  <2>2. pc[c] \in Refusing => actual_size[c] = actual_size[e]
    BY <1>1, <1>4, <1>5, <1>6 DEF IInv, FileInv, Measured
  <2> QED
    BY <1>4, <2>1, <2>2 DEF IInv, RefusalInv, TypeOK
<1>7. storage_used' \in Nat
  BY TypeStep DEF IInv, TypeOK, Next, Step
<1>8. \A j \in Jobs : Confirmed(j)' /\ posts'[j] < 2 => object'[j] # NoObject
  BY <1>1, <1>3, <1>5 DEF IInv, FileInv
<1>9. \A c \in Calls : Confirmed(job[c])' /\ posts'[job'[c]] < 2 =>
          /\ pc'[c] = "head" => snapshot'[c] + object'[job'[c]] <= StorageLimit
          /\ pc'[c] \notin Refusing
  BY <1>1, <1>3, <1>6 DEF IInv, FileInv, TypeOK
<1> QED
  BY <1>1, <1>2, <1>7, <1>8, <1>9 DEF IInv, FileInv, TypeOK

(* A removal: the size was refused, so every call on a file posted once     *)
(* measured one that does not fit, and the job is not confirmed.           *)
LEMMA FileDelete ==
    ASSUME TypeOK, FileInv, RefusalInv, NEW e \in Calls, DeleteObject(e)
    PROVE  FileInv'
<1> DEFINE i == job[e]
<1> USE DEF NoObject, Refusing
<1>1. /\ UNCHANGED <<posts, status, storage_used, published, job, snapshot, actual_size>>
      /\ pc[e] = "delete_object" /\ pc'[e] = "commit_delete" /\ i \in Jobs
      /\ object'[i] \in {0, object[i]}
      /\ \A j \in Jobs : j # i => object'[j] = object[j]
      /\ \A c \in Calls : c # e => pc'[c] = pc[c]
  BY DEF DeleteObject, Goto, TypeOK, dbVars
<1>2. \A c \in Calls : Measured(c)' => Measured(c)
  BY <1>1 DEF Measured
<1>3. \A j \in Jobs : Confirmed(j)' = Confirmed(j)
  BY <1>1 DEF Confirmed
<1>4. storage_used + actual_size[e] > StorageLimit /\ Measured(e)
  BY <1>1 DEF RefusalInv, Measured
<1>5. ~(Confirmed(i) /\ posts[i] < 2)
  BY <1>1 DEF FileInv
<1>6. \A c \in Calls : Measured(c) /\ job[c] = i /\ posts[i] = 1
                          => storage_used + actual_size[c] > StorageLimit
  BY <1>4 DEF FileInv
<1> QED
  BY <1>1, <1>2, <1>3, <1>5, <1>6 DEF FileInv, TypeOK

(* The other steps add no measured call and no confirmed job, and touch no *)
(* file; the job ReadJob and ChargeUser go on with is not confirmed.       *)
LEMMA FileOther ==
    ASSUME TypeOK, FileInv, UNCHANGED <<posts, object, job, actual_size>>,
           storage_used <= storage_used', storage_used' \in Nat,
           \A c \in Calls : Measured(c)' => Measured(c),
           \A j \in Jobs : Confirmed(j)' => Confirmed(j),
           \A c \in Calls : pc'[c] = "head" /\ pc[c] # "head" => ~Confirmed(job[c])',
           \A c \in Calls : pc'[c] \in Refusing /\ pc[c] \notin Refusing => ~Confirmed(job[c])',
           \A c \in Calls : pc'[c] = "head" => snapshot'[c] = snapshot[c]
    PROVE  FileInv'
<1>1. \A c \in Calls : storage_used + actual_size[c] > StorageLimit
                          => storage_used' + actual_size[c] > StorageLimit
  BY DEF TypeOK
<1>2. \A c \in Calls : job[c] \in Jobs
  BY DEF TypeOK
<1>3. \A c \in Calls : Confirmed(job[c])' /\ posts'[job'[c]] < 2 =>
          /\ pc'[c] = "head" => snapshot'[c] + object'[job'[c]] <= StorageLimit
          /\ pc'[c] \notin Refusing
  BY <1>2 DEF FileInv
<1>4. \A j \in Jobs : Confirmed(j)' /\ posts'[j] < 2 => object'[j] # NoObject
  BY DEF FileInv
<1>5. \A c \in Calls : Measured(c)' /\ posts'[job'[c]] = 1 =>
          \/ object'[job'[c]] = actual_size'[c]
          \/ /\ object'[job'[c]] = NoObject
             /\ storage_used' + actual_size'[c] > StorageLimit
  BY <1>1 DEF FileInv
<1> QED
  BY <1>3, <1>4, <1>5 DEF FileInv

LEMMA FileStep ==
    ASSUME IInv, [Next]_vars
    PROVE  FileInv'
<1> USE DEF Refusing
<1>1. /\ TypeOK /\ FileInv /\ RefusalInv /\ SnapshotInv
      /\ storage_used <= storage_used' /\ storage_used' \in Nat
  BY StorageGrows, TypeStep DEF IInv, TypeOK
(* A pending job is not confirmed.                                         *)
<1>2. \A j \in Jobs : status[j] = "PENDING_UPLOAD" => ~Confirmed(j)
  BY DEF Confirmed, IInv, PublishedAfterQueued, PublishInv, TypeOK
<1>3. ASSUME NEW c \in Calls, ReadJob(c) PROVE FileInv'
  BY <1>1, <1>2, <1>3, FileOther DEF ReadJob, Goto, clientVars, dbVars, TypeOK, Measured, Confirmed
<1>4. ASSUME NEW c \in Calls, ChargeUser(c) PROVE FileInv'
  BY <1>1, <1>2, <1>4, FileOther DEF ChargeUser, Goto, clientVars, dbVars, TypeOK, Measured,
     Confirmed, IInv, RowLockInv
<1>5. ASSUME NEW c \in Calls, Publish(c) \/ PublishTimesOut(c) PROVE FileInv'
  BY <1>1, <1>5, FileOther DEF Publish, PublishTimesOut, Goto, clientVars, dbVars, TypeOK,
     Measured, Confirmed
<1>6. ASSUME NEW c \in Calls, CommitDelete(c) PROVE FileInv'
  BY <1>1, <1>6, FileOther DEF CommitDelete, Goto, clientVars, TypeOK, Measured, Confirmed
<1>7. ASSUME NEW c \in Calls, Authenticate(c) \/ QueueRow(c) \/ DeleteRow(c) \/ Fail(c)
      PROVE  FileInv'
  BY <1>1, <1>7, FileOther DEF Authenticate, QueueRow, DeleteRow, Fail, Goto, clientVars,
     dbVars, TypeOK, Measured, Confirmed, Deleting
<1>8. ASSUME NEW j \in Jobs, CommitRequest(j) \/ RequestUpload(j) \/ LoseRequest(j)
      PROVE  FileInv'
  BY <1>1, <1>8, FileOther DEF CommitRequest, RequestUpload, LoseRequest, clientVars, dbVars,
     callVars, TypeOK, Measured, Confirmed
<1>9. CASE UNCHANGED vars
  BY <1>1, <1>9, FileOther DEF vars, clientVars, dbVars, callVars, Measured, Confirmed
<1> QED
  BY <1>1, <1>3, <1>4, <1>5, <1>6, <1>7, <1>8, <1>9, FilePost, FileHead, FileCommit, FileDelete
     DEF Next, Step

(* What FileInv says of the jobs a reader sees confirmed.                  *)
LEMMA FilesStand == TypeOK /\ FileInv => ConfirmedFilesStay
BY DEF FileInv, ConfirmedFilesStay, Confirmed, TypeOK

(* IInv holds initially and every step keeps it.                           *)
LEMMA InvInit == Init => IInv
BY DEF Init, IInv, TypeOK, QuotaRespected, PublishedOnce, PublishedAfterQueued,
       RefusalInv, FileInv, Measured, Confirmed, Refusing, RowLockInv, UserLockInv,
       SnapshotInv, PublishInv, RowInv, Statuses, NoObject, Nobody

LEMMA InvStep == IInv /\ [Next]_vars => IInv'
BY TypeStep, RowLockStep, UserLockStep, SnapshotStep, PublishingStep, RefusalStep, RowStep,
   FileStep
   DEF IInv

(* The inductive invariant holds of every behaviour of Upload.             *)
THEOREM UploadInvariant == Spec => []IInv
BY InvInit, InvStep, PTL DEF Spec

-----------------------------------------------------------------------------
(* The theorems a reader should know of.                                   *)

(* Types, for every instance.                                              *)
THEOREM UploadTypes == Spec => []TypeOK
BY UploadInvariant, PTL DEF IInv

(* No order of any number of confirm calls takes the user over the limit.  *)
THEOREM QuotaHolds == Spec => []QuotaRespected
BY UploadInvariant, PTL DEF IInv

(* The first stage of a job is published at most once.                     *)
THEOREM PublishesAtMostOnce == Spec => []PublishedOnce
BY UploadInvariant, PTL DEF IInv

(* A message follows the commit that queued its job: no worker hears of a  *)
(* job that still awaits its upload.                                       *)
THEOREM PublishesAfterQueued == Spec => []PublishedAfterQueued
BY UploadInvariant, PTL DEF IInv

(* The file of a confirmed job is still there, unless the client posted     *)
(* another one over it.                                                    *)
THEOREM ConfirmedFilesStand == Spec => []ConfirmedFilesStay
<1>1. IInv => ConfirmedFilesStay
  BY FilesStand DEF IInv
<1> QED
  BY <1>1, UploadInvariant, PTL

-----------------------------------------------------------------------------
(* Every charged byte is in the user's counter.                            *)

(* The sum of RowsArePaid is the one the lemmas above speak of.            *)
LEMMA TotalIsSum == \A f : Total(f) = SumOver(f, Jobs)
BY DEF Total, SumOver

(* A row is charged what the counter is raised by, in the same step, and   *)
(* gives its charge up when it is deleted, when the counter stays.         *)
LEMMA ChargesStep ==
    ASSUME TypeOK, [Next]_vars
    PROVE  \/ charged_bytes' = charged_bytes /\ storage_used <= storage_used'
           \/ \E j \in Jobs :
                 /\ \A i \in Jobs : i # j => charged_bytes'[i] = charged_bytes[i]
                 /\ charged_bytes'[j] - charged_bytes[j] <= storage_used' - storage_used
<1>0. storage_used <= storage_used
  BY DEF TypeOK
<1>1. ASSUME NEW c \in Calls, CommitConfirm(c)
      PROVE  /\ \A i \in Jobs : i # job[c] => charged_bytes'[i] = charged_bytes[i]
             /\ charged_bytes'[job[c]] - charged_bytes[job[c]] <= storage_used' - storage_used
  BY <1>1 DEF CommitConfirm, TypeOK
<1>2. ASSUME NEW c \in Calls, CommitDelete(c)
      PROVE  /\ \A i \in Jobs : i # job[c] => charged_bytes'[i] = charged_bytes[i]
             /\ charged_bytes'[job[c]] - charged_bytes[job[c]] <= storage_used' - storage_used
  BY <1>2 DEF CommitDelete, TypeOK
<1>3. ASSUME NEW c \in Calls, CommitConfirm(c) \/ CommitDelete(c) PROVE job[c] \in Jobs
  BY DEF TypeOK
<1>4. ASSUME NEW j \in Jobs, CommitRequest(j) PROVE UNCHANGED <<charged_bytes, storage_used>>
  BY <1>4 DEF CommitRequest
<1>5. CASE Quiet
  BY <1>5, <1>0, QuietStep DEF dbVars
<1>6. ASSUME NEW c \in Calls,
             Authenticate(c) \/ ReadJob(c) \/ HeadObject(c) \/ QueueRow(c) \/ ChargeUser(c)
             \/ Publish(c) \/ PublishTimesOut(c) \/ DeleteRow(c) \/ DeleteObject(c) \/ Fail(c)
      PROVE  UNCHANGED <<charged_bytes, storage_used>>
  BY <1>6 DEF Authenticate, ReadJob, HeadObject, QueueRow, ChargeUser, Publish,
     PublishTimesOut, DeleteRow, DeleteObject, Fail, dbVars
<1> QED
  BY <1>1, <1>2, <1>3, <1>4, <1>5, <1>6, StorageGrows DEF Next, Step, Quiet

(* Nothing is charged at first; a step that raises one row's charge raises  *)
(* the counter by as much, so the sum stays below it.                       *)
LEMMA PaidInit == Init => RowsArePaid
<1> SUFFICES ASSUME Init PROVE RowsArePaid
  OBVIOUS
<1> DEFINE f == [j \in Jobs |-> 0]
<1>1. Total(f) = 0
  <2>1. f \in [Jobs -> Nat] /\ \A j \in Jobs : f[j] = 0
    OBVIOUS
  <2> HIDE DEF f
  <2> QED
    BY <2>1, SumZero, JobsAssumption, TotalIsSum
<1> QED
  BY <1>1 DEF Init, RowsArePaid

LEMMA PaidStep == TypeOK /\ RowsArePaid /\ [Next]_vars => RowsArePaid'
<1> SUFFICES ASSUME TypeOK, RowsArePaid, [Next]_vars PROVE RowsArePaid'
  OBVIOUS
<1>1. TypeOK'
  BY TypeStep
<1>2. PICK f \in [Jobs -> Nat], n \in Nat : f = charged_bytes /\ n = storage_used
  BY DEF TypeOK
<1>3. PICK g \in [Jobs -> Nat], m \in Nat : g = charged_bytes' /\ m = storage_used'
  BY <1>1 DEF TypeOK
<1>4. Total(f) \in Nat /\ Total(g) \in Nat
  BY SumNat, JobsAssumption, TotalIsSum
<1>5. Total(f) <= n
  BY <1>2 DEF RowsArePaid
<1>6. Total(g) <= m => RowsArePaid'
  BY <1>3 DEF RowsArePaid
<1>7. CASE f = g /\ n <= m
  BY <1>4, <1>5, <1>6, <1>7
<1>8. ASSUME NEW j \in Jobs, \A i \in Jobs : i # j => g[i] = f[i], g[j] - f[j] <= m - n
      PROVE  Total(g) <= m
  <2>1. Total(g) = Total(f) + g[j] - f[j]
    BY <1>8, SumChanges, JobsAssumption, TotalIsSum
  <2>2. f[j] \in Nat /\ g[j] \in Nat
    OBVIOUS
  <2> QED
    BY <1>4, <1>5, <1>8, <2>1, <2>2
<1> QED
  BY <1>2, <1>3, <1>6, <1>7, <1>8, ChargesStep

(* However the calls interleave, commit and delete, no row says it was     *)
(* charged bytes that are not in the user's counter.                       *)
THEOREM RowsStayPaid == Spec => []RowsArePaid
<1>1. Init => TypeOK
  BY InvInit DEF IInv
<1> QED
  BY <1>1, TypeStep, PaidInit, PaidStep, PTL DEF Spec

-----------------------------------------------------------------------------
(* The refinement: what every step looks like to StorageLedger.            *)

(* No step but these four is visible there.                                *)
LEMMA InvisibleStep ==
    ASSUME IInv, [Next]_vars,
           \A j \in Jobs : ~CommitRequest(j),
           \A c \in Calls : ~CommitConfirm(c) /\ ~Publish(c) /\ ~PublishTimesOut(c)
                             /\ ~CommitDelete(c)
    PROVE  UNCHANGED Ledger!vars
<1>1. UNCHANGED <<request, status, charged_bytes, storage_used, published>>
      \/ \E i \in Jobs : LoseRequest(i) \/ RequestUpload(i)
  BY DEF Next, Step, vars, dbVars, PostObject, Authenticate, ReadJob, HeadObject, QueueRow,
     ChargeUser, DeleteRow, DeleteObject, Fail
<1>2. UNCHANGED <<status, charged_bytes, storage_used, published>>
      /\ \A i \in Jobs : request'[i] = "done" <=> request[i] = "done"
  BY <1>1 DEF dbVars, LoseRequest, RequestUpload, IInv, TypeOK
<1>3. \A i \in Jobs : Row(i)' = Row(i)
  BY <1>2 DEF Row
<1> QED
  BY <1>2, <1>3 DEF Ledger!vars

(* The commit of a confirmation charges what fits and queues a pending row.*)
LEMMA ConfirmRefines ==
    ASSUME IInv, NEW c \in Calls, CommitConfirm(c)
    PROVE  Ledger!Confirm(job[c])
<1> DEFINE j == job[c]
<1>1. /\ j \in Jobs /\ status[j] = "PENDING_UPLOAD" /\ request[j] = "done"
      /\ storage_used + actual_size[c] <= StorageLimit
      /\ actual_size[c] \in Nat /\ storage_used \in Nat
  BY DEF IInv, TypeOK, RowLockInv, UserLockInv, PublishInv, CommitConfirm
<1>2. actual_size[c] \in 0 .. StorageLimit
  BY <1>1
<1>3. \A i \in Jobs : Row(i)' = IF i = j THEN "queued" ELSE Row(i)
  BY <1>1 DEF CommitConfirm, Row, IInv, TypeOK
<1>4. Row(j) = "pending"
  BY <1>1 DEF Row
<1> QED
  BY <1>1, <1>2, <1>3, <1>4 DEF Ledger!Confirm, CommitConfirm

(* A publish is the first for its job, whose row is no longer pending.     *)
LEMMA PublishRefines ==
    ASSUME IInv, NEW c \in Calls, Publish(c) \/ PublishTimesOut(c)
    PROVE  Ledger!Publish(job[c])
<1> DEFINE j == job[c]
<1>1. /\ j \in Jobs /\ published[j] = 0 /\ request[j] = "done"
      /\ status[j] \in {"NO_ROW", "QUEUED"}
  BY DEF IInv, TypeOK, PublishInv, Statuses, Publish, PublishTimesOut
<1>2. \A i \in Jobs : Row(i)' = Row(i)
  BY DEF Publish, PublishTimesOut, Row, dbVars
<1>3. Row(j) \in {"queued", "deleted"}
  BY <1>1 DEF Row
<1> QED
  BY <1>1, <1>2, <1>3 DEF Ledger!Publish, Publish, PublishTimesOut, dbVars, IInv, TypeOK

(* The commit of a delete removes a row that is there, or nothing.         *)
LEMMA DeleteRefines ==
    ASSUME IInv, NEW c \in Calls, CommitDelete(c)
    PROVE  Ledger!Remove(job[c]) \/ UNCHANGED Ledger!vars
<1> DEFINE j == job[c]
<1>1. CASE row_lock[j] = c
  <2>1. j \in Jobs /\ status[j] \in {"PENDING_UPLOAD", "QUEUED"} /\ request[j] = "done"
    BY <1>1 DEF IInv, TypeOK, RowInv, PublishInv, Statuses, Nobody
  <2>2. \A i \in Jobs : Row(i)' = IF i = j THEN "deleted" ELSE Row(i)
    BY <1>1, <2>1 DEF CommitDelete, Row, IInv, TypeOK
  <2>3. Row(j) \in {"pending", "queued"}
    BY <2>1 DEF Row
  <2> QED
    BY <1>1, <2>1, <2>2, <2>3 DEF Ledger!Remove, CommitDelete
<1>2. CASE row_lock[j] # c
  BY <1>2 DEF CommitDelete, Ledger!vars, Row
<1> QED
  BY <1>1, <1>2

LEMMA CreateRefines ==
    ASSUME IInv, NEW j \in Jobs, CommitRequest(j)
    PROVE  Ledger!Create(j)
<1>1. \A i \in Jobs : Row(i)' = IF i = j THEN "pending" ELSE Row(i)
  BY DEF CommitRequest, Row, IInv, TypeOK
<1>2. Row(j) = "none"
  BY DEF CommitRequest, Row
<1> QED
  BY <1>1, <1>2 DEF Ledger!Create, CommitRequest

LEMMA LedgerStep == IInv /\ [Next]_vars => [Ledger!Next]_(Ledger!vars)
<1> SUFFICES ASSUME IInv, [Next]_vars PROVE Ledger!Next \/ UNCHANGED Ledger!vars
  OBVIOUS
<1>1. ASSUME NEW c \in Calls PROVE job[c] \in Jobs
  BY DEF IInv, TypeOK
<1> QED
  BY <1>1, InvisibleStep, CreateRefines, ConfirmRefines, PublishRefines, DeleteRefines
     DEF Ledger!Next

LEMMA LedgerInit == Init => Ledger!Init
BY DEF Init, Ledger!Init, Row

(* The upload half implements StorageLedger: each job is confirmed once, in *)
(* one step that queues and charges it within the limit, published at most  *)
(* once after that, and no failure, lost commit or delete moves the books.  *)
THEOREM UploadImplementsLedger == Spec => ImplementsLedger
BY UploadInvariant, LedgerInit, LedgerStep, PTL DEF Spec, ImplementsLedger, Ledger!Spec
=============================================================================
