-------------------------- MODULE RunSessions_proofs --------------------------
(***************************************************************************)
(* Theorems of RunSessions, for every set of runs and tabs and every       *)
(* MaxEntries and Total.                                                   *)
(*                                                                         *)
(* TypeOK is not inductive alone: a handler reads the session its tab's    *)
(* request is about, so HasTarget (a request has a run) comes with it.     *)
(***************************************************************************)
EXTENDS RunSessions, TLAPS, FiniteSetTheorems

\* A tab that waits for an answer or polls is about a run.
HasTarget ==
  \A p \in Page : request[p] # "none" \/ shows[p] \in {"watching", "results"} => target[p] \in Run

TypeInv == TypeOK /\ HasTarget

LEMMA TypeInit == Init => TypeInv
  BY TotalAssumption DEF Init, TypeInv, HasTarget, TypeOK, Status, WorkerState, Shows, Request

\* What the operators of the store do to the types of its variables.
LEMMA TouchType ==
  ASSUME TypeOK, NEW r \in Run, Touch(r)
  PROVE  records' \subseteq Run /\ newer' \in [Run -> SUBSET Run]
  BY DEF TypeOK, Touch, MoveToEnd

LEMMA NoteUseType ==
  ASSUME TypeOK, NEW r \in Run, NoteUse(r)
  PROVE  usedSince' \in [Run -> SUBSET Run]
  BY DEF TypeOK, NoteUse

LEMMA StoreCreateType ==
  ASSUME TypeOK, NEW r \in Run, StoreCreate(r)
  PROVE  records' \subseteq Run /\ newer' \in [Run -> SUBSET Run]
<1> DEFINE K == records \cup {r}
           order == MoveToEnd(K, r)
<1>1. K \subseteq Run /\ order \in [Run -> SUBSET Run]
  BY DEF TypeOK, MoveToEnd
<1> HIDE DEF K, order
<1>2. CASE records' = K /\ newer' = order
  BY <1>1, <1>2
<1>3. CASE \E o \in K : records' = K \ {o} /\ newer' = [order EXCEPT ![o] = {}]
  BY <1>1, <1>3
<1>4. QED
  BY <1>2, <1>3 DEF StoreCreate, K, order

LEMMA TypeStep == TypeInv /\ [Next]_vars => TypeInv'
<1> SUFFICES ASSUME TypeOK, HasTarget, [Next]_vars PROVE TypeOK' /\ HasTarget'
  BY DEF TypeInv
<1> USE DEF Status, WorkerState, Shows, Request, storeVars, sessionVars, pageVars
<1> DEFINE Goal == TypeOK' /\ HasTarget'
<1>1. ASSUME NEW r \in Run, WorkerStart(r) PROVE Goal
  BY <1>1, TouchType, NoteUseType DEF WorkerStart, TypeOK, HasTarget
<1>2. ASSUME NEW r \in Run, NEW c \in 0..Total, NEW domain \in BOOLEAN,
             UpdateProgress(r, c, domain)
      PROVE  Goal
  BY <1>2, TouchType, NoteUseType DEF UpdateProgress, TypeOK, HasTarget
<1>3. ASSUME NEW r \in Run, ExecutorReturns(r) PROVE Goal
  BY <1>3 DEF ExecutorReturns, TypeOK, HasTarget
<1>4. ASSUME NEW r \in Run, ExecutorRaises(r) PROVE Goal
  BY <1>4 DEF ExecutorRaises, TypeOK, HasTarget
<1>5. ASSUME NEW r \in Run, Fail(r) PROVE Goal
  BY <1>5, TouchType, NoteUseType DEF Fail, TypeOK, HasTarget
<1>6. ASSUME NEW r \in Run, CompleteBegin(r) PROVE Goal
  <2>1. CASE InStore(r)
    BY <1>6, <2>1 DEF CompleteBegin, SetArtifacts, TypeOK, HasTarget
  <2>2. CASE ~InStore(r)
    BY <1>6, <2>2 DEF CompleteBegin, TypeOK, HasTarget
  <2>3. QED
    BY <2>1, <2>2
<1>7. ASSUME NEW r \in Run, CompleteFinish(r) PROVE Goal
  BY <1>7, TouchType, NoteUseType, TotalAssumption
     DEF CompleteFinish, PlannedCount, TypeOK, HasTarget
<1>8. ASSUME NEW p \in Page, Found(p) PROVE Goal
  BY <1>8, TouchType, NoteUseType DEF Found, TypeOK, HasTarget
<1>9. ASSUME NEW p \in Page, NotFound(p) PROVE Goal
  BY <1>9 DEF NotFound, TypeOK, HasTarget
<1>10. ASSUME NEW p \in Page, CheckRun(p) PROVE Goal
  <2>1. CASE status[target[p]] = "completed"
    <3>1. /\ request' = [request EXCEPT ![p] = "results"]
          /\ step' = [step EXCEPT ![p] = "sent"]
          /\ told' = [told EXCEPT ![p] = TRUE]
          /\ UNCHANGED <<storeVars, lock, sessionVars, worker, shows, target, read, shown, usedSince>>
      BY <1>10, <2>1 DEF CheckRun, Redirected
    <3>2. target[p] \in Run
      BY <1>10 DEF CheckRun, HasTarget
    <3>3. QED
      BY <3>1, <3>2 DEF TypeOK, HasTarget
  <2>2. CASE status[target[p]] # "completed"
    BY <1>10, <2>2 DEF CheckRun, TypeOK, HasTarget
  <2>3. QED
    BY <2>1, <2>2
<1>10a. ASSUME NEW p \in Page, RenderRun(p) PROVE Goal
  <2>1. target[p] \in Run
    BY <1>10a DEF RenderRun, HasTarget
  <2>2. QED
    BY <1>10a, <2>1 DEF RenderRun, Answered, TypeOK, HasTarget
<1>11. ASSUME NEW p \in Page, ReadCounts(p) PROVE Goal
  <2>1. target[p] \in Run
    BY <1>11 DEF ReadCounts, HasTarget
  <2>2. QED
    BY <1>11, <2>1 DEF ReadCounts, TypeOK, HasTarget
<1>12. ASSUME NEW p \in Page, RespondStatus(p) PROVE Goal
  <2>1. target[p] \in Run
    BY <1>12 DEF RespondStatus, HasTarget
  <2>2. CASE status[target[p]] = "completed"
    <3>1. /\ request' = [request EXCEPT ![p] = "results"]
          /\ step' = [step EXCEPT ![p] = "sent"]
          /\ told' = [told EXCEPT ![p] = TRUE]
          /\ shown' = [shown EXCEPT ![p] = read[p]]
          /\ read' = [read EXCEPT ![p] = 0]
          /\ UNCHANGED <<storeVars, lock, sessionVars, worker, shows, target, usedSince>>
      BY <1>12, <2>2 DEF RespondStatus, Redirected
    <3>2. QED
      BY <2>1, <3>1, TotalAssumption DEF TypeOK, HasTarget
  <2>3. CASE status[target[p]] # "completed"
    BY <1>12, <2>1, <2>3, TotalAssumption
       DEF RespondStatus, Answered, PageAfter, TypeOK, HasTarget
  <2>4. QED
    BY <2>2, <2>3
<1>13. ASSUME NEW p \in Page, RespondResults(p) PROVE Goal
  <2>1. target[p] \in Run
    BY <1>13 DEF RespondResults, HasTarget
  <2>2. records' \subseteq Run /\ newer' \in [Run -> SUBSET Run]
        /\ usedSince' \in [Run -> SUBSET Run]
    BY <1>13, <2>1, TouchType, NoteUseType DEF RespondResults, TypeOK
  <2>3. CASE Redirected(p, "run")
    BY <1>13, <2>1, <2>2, <2>3 DEF RespondResults, Redirected, TypeOK, HasTarget
  <2>4. CASE Answered(p, "results")
    BY <1>13, <2>1, <2>2, <2>4 DEF RespondResults, Answered, TypeOK, HasTarget
  <2>5. QED
    BY <1>13, <2>3, <2>4 DEF RespondResults
<1>14. ASSUME NEW p \in Page, RespondDownload(p) PROVE Goal
  <2>1. target[p] \in Run
    BY <1>14 DEF RespondDownload, HasTarget
  <2>2. CASE Answered(p, "conflict")
    BY <1>14, <2>1, <2>2 DEF RespondDownload, Answered, TypeOK, HasTarget
  <2>3. CASE Answered(p, "results")
    BY <1>14, <2>1, <2>3 DEF RespondDownload, Answered, TypeOK, HasTarget
  <2>4. QED
    BY <1>14, <2>2, <2>3 DEF RespondDownload
<1>15. ASSUME NEW p \in Page, Poll(p) PROVE Goal
  BY <1>15 DEF Poll, TypeOK, HasTarget
<1>16. ASSUME NEW p \in Page, NEW r \in Run, NEW q \in records \cup {NoRun},
              PostRun(p, r, q)
       PROVE  Goal
  BY <1>16, StoreCreateType, NoteUseType DEF PostRun, TypeOK, HasTarget
<1>17. ASSUME NEW p \in Page, NEW r \in Run, NEW url \in {"run", "results"},
              Visit(p, r, url)
       PROVE  Goal
  BY <1>17, TotalAssumption DEF Visit, TypeOK, HasTarget
<1>18. ASSUME NEW p \in Page, GoHome(p) PROVE Goal
  BY <1>18, TotalAssumption DEF GoHome, TypeOK, HasTarget
<1>19. ASSUME NEW p \in Page, Download(p) PROVE Goal
  BY <1>19 DEF Download, TypeOK, HasTarget
<1>20. CASE UNCHANGED vars
  BY <1>20 DEF vars, TypeOK, HasTarget
<1>21. QED
  BY <1>1, <1>2, <1>3, <1>4, <1>5, <1>6, <1>7, <1>8, <1>9, <1>10, <1>10a, <1>11,
     <1>12, <1>13, <1>14, <1>15, <1>16, <1>17, <1>18, <1>19, <1>20
     DEF Next, Worker, Handler, User

\* Every variable keeps its type, and no handler works for a tab that asked
\* for nothing.
THEOREM TypeCorrect == Spec => []TypeOK
<1>1. TypeInv => TypeOK
  BY DEF TypeInv
<1>2. QED
  BY TypeInit, TypeStep, <1>1, PTL DEF Spec
-----------------------------------------------------------------------------
(* Sessions, their worker threads and the lock.                            *)

\* The handlers and the user's other actions only read the sessions, and
\* keep the keys of the store.
LEMMA HandlersOnlyRead ==
  ASSUME NEW p \in Page,
         \/ Handler(p) \/ Poll(p) \/ GoHome(p) \/ Download(p)
         \/ \E r \in Run, url \in {"run", "results"} : Visit(p, r, url)
  PROVE  UNCHANGED <<lock, sessionVars, worker, records>>
  BY DEF Handler, Found, NotFound, CheckRun, RenderRun, ReadCounts, RespondStatus, RespondResults,
         RespondDownload, Poll, GoHome, Download, Visit, Touch, storeVars, sessionVars

\* The status of a session says where its worker thread is, until the run
\* is evicted.
WorkerMatchesStatus ==
  \A r \in Run :
    /\ status[r] = "none" <=> worker[r] = "none"
    /\ worker[r] \in {"starting", "executing", "returned", "raised"} =>
         status[r] \in {"queued", "running"}
    /\ worker[r] = "completing" => status[r] = "completed" /\ lock = r

\* The run in the middle of complete() is in the store.
LockOwner == lock # NoRun => worker[lock] = "completing" /\ lock \in records

SessionInv == WorkerMatchesStatus /\ LockOwner /\ SettledHasArtifacts

LEMMA SessionInit == Init => SessionInv
  BY NoRunAssumption DEF Init, SessionInv, WorkerMatchesStatus, LockOwner, SettledHasArtifacts

LEMMA SessionStep == TypeInv /\ SessionInv /\ [Next]_vars => SessionInv'
<1> SUFFICES ASSUME TypeOK, SessionInv, [Next]_vars PROVE SessionInv'
  BY DEF TypeInv
<1> USE NoRunAssumption DEF SessionInv, WorkerMatchesStatus, LockOwner, SettledHasArtifacts,
        LockFree, Touch, InStore
<1>1. ASSUME NEW r \in Run, WorkerStart(r) PROVE SessionInv'
  BY <1>1 DEF WorkerStart, TypeOK, sessionVars, storeVars
<1>2. ASSUME NEW r \in Run, NEW c \in 0..Total, NEW domain \in BOOLEAN,
             UpdateProgress(r, c, domain)
      PROVE  SessionInv'
  BY <1>2 DEF UpdateProgress, TypeOK
<1>3. ASSUME NEW r \in Run, ExecutorReturns(r) \/ ExecutorRaises(r) PROVE SessionInv'
  BY <1>3 DEF ExecutorReturns, ExecutorRaises, TypeOK, sessionVars, storeVars
<1>4. ASSUME NEW r \in Run, Fail(r) PROVE SessionInv'
  BY <1>4 DEF Fail, TypeOK, storeVars
<1>5. ASSUME NEW r \in Run, CompleteBegin(r) PROVE SessionInv'
  BY <1>5 DEF CompleteBegin, SetArtifacts, TypeOK, storeVars
<1>6. ASSUME NEW r \in Run, CompleteFinish(r) PROVE SessionInv'
  BY <1>6 DEF CompleteFinish, TypeOK
<1>7. ASSUME NEW p \in Page, NEW r \in Run, NEW q \in records \cup {NoRun},
             PostRun(p, r, q)
      PROVE  SessionInv'
  BY <1>7 DEF PostRun, TypeOK
<1>8. CASE UNCHANGED <<lock, sessionVars, worker, records>>
  BY <1>8 DEF sessionVars
<1>9. CASE UNCHANGED vars
  BY <1>8, <1>9 DEF vars, storeVars
<1>10. QED
  BY <1>1, <1>2, <1>3, <1>4, <1>5, <1>6, <1>7, <1>8, <1>9, HandlersOnlyRead
     DEF Next, Worker, User
\* A settled session is whole at every step, also in the middle of
\* complete(): no reader without the lock finds a completed run without its
\* artifacts or a failed one without its error.
THEOREM SettledSessionsAreWhole == Spec => []SettledHasArtifacts
<1>1. SessionInv => SettledHasArtifacts
  BY DEF SessionInv
<1>2. QED
  BY TypeInit, TypeStep, SessionInit, SessionStep, <1>1, PTL DEF Spec

-----------------------------------------------------------------------------
(* The store: its size, its order and which run it evicts.                 *)

\* Of two stored runs exactly one is after the other.
OrderedStore == \A q, r \in records : q # r => (q \in newer[r] <=> r \notin newer[q])

\* The runs after a stored run were used since it was used itself.
NewerAreUsed == \A r \in records : Created(r) /\ newer[r] \subseteq usedSince[r]

StoreInv ==
  /\ Cardinality(records) <= MaxEntries
  /\ OrderedStore
  /\ NewerAreUsed
  /\ EvictedOnlyWhenIdle

LEMMA StoreInit == Init => StoreInv
  BY FS_EmptySet, MaxEntriesAssumption
     DEF Init, StoreInv, OrderedStore, NewerAreUsed, EvictedOnlyWhenIdle, Created

\* The sizes that the sets of runs have.
LEMMA SmallerSet ==
  ASSUME NEW S \in SUBSET Run, NEW T \in SUBSET S
  PROVE  /\ IsFiniteSet(S) /\ Cardinality(S) \in Nat
         /\ IsFiniteSet(T) /\ Cardinality(T) \in Nat
         /\ Cardinality(T) <= Cardinality(S)
  BY RunAssumption, FS_Subset, FS_CardinalityType

\* A use of a stored run: it becomes the newest, and every other created run
\* has one more user in its history.
LEMMA UseKeepsStoreInv ==
  ASSUME TypeOK, StoreInv, NEW r \in records, Touch(r), NoteUse(r),
         \A q \in Run : (status'[q] = "none") = (status[q] = "none")
  PROVE  StoreInv'
<1>1. Cardinality(records') <= MaxEntries
  BY DEF StoreInv, Touch
<1>2. OrderedStore'
  BY DEF StoreInv, OrderedStore, Touch, MoveToEnd, TypeOK
<1>3. NewerAreUsed'
  BY DEF StoreInv, NewerAreUsed, Touch, MoveToEnd, NoteUse, TypeOK, Created
<1>4. EvictedOnlyWhenIdle'
  <2> SUFFICES ASSUME NEW q \in Run, Created(q)', q \notin records'
               PROVE  Cardinality(usedSince'[q]) >= MaxEntries
    BY DEF EvictedOnlyWhenIdle
  <2>1. Created(q) /\ q \notin records /\ q # r
    BY DEF Created, Touch
  <2>2. Cardinality(usedSince[q]) >= MaxEntries
    BY <2>1 DEF StoreInv, EvictedOnlyWhenIdle
  <2>3. usedSince'[q] = usedSince[q] \cup {r}
    BY <2>1 DEF NoteUse, Created
  <2>4. Cardinality(usedSince[q]) <= Cardinality(usedSince'[q])
    BY <2>3, SmallerSet DEF TypeOK
  <2>5. Cardinality(usedSince[q]) \in Nat /\ Cardinality(usedSince'[q]) \in Nat
    BY <2>3, SmallerSet DEF TypeOK
  <2>6. QED
    BY <2>2, <2>4, <2>5, MaxEntriesAssumption
<1>5. QED
  BY <1>1, <1>2, <1>3, <1>4 DEF StoreInv

\* Creating a run: the evicted run is the first one, all others were used
\* after it, and there are MaxEntries of them.
LEMMA CreateKeepsStoreInv ==
  ASSUME TypeOK, StoreInv, NEW r \in Run, status[r] = "none", StoreCreate(r), NoteUse(r),
         status' = [status EXCEPT ![r] = "queued"]
  PROVE  StoreInv'
<1> DEFINE K == records \cup {r}
           order == MoveToEnd(K, r)
<1>1. r \notin records
  BY DEF StoreInv, NewerAreUsed, Created
<1>2. /\ K \in SUBSET Run /\ IsFiniteSet(records) /\ Cardinality(records) \in Nat
      /\ Cardinality(K) = Cardinality(records) + 1
  <2>1. records \in SUBSET Run /\ K \in SUBSET Run
    BY DEF TypeOK
  <2>2. IsFiniteSet(records) /\ Cardinality(records) \in Nat
    BY <2>1, RunAssumption, FS_Subset, FS_CardinalityType
  <2>3. Cardinality(K) = Cardinality(records) + 1
    BY <1>1, <2>2, FS_AddElement
  <2>4. QED
    BY <2>1, <2>2, <2>3
<1>3. \A q, s \in K : q # s => (q \in order[s] <=> s \notin order[q])
  BY <1>1 DEF StoreInv, OrderedStore, MoveToEnd, TypeOK
<1>4. \A q \in K : Created(q)' /\ order[q] \subseteq usedSince'[q]
  BY <1>1 DEF StoreInv, NewerAreUsed, MoveToEnd, NoteUse, TypeOK, Created
<1>5. ASSUME NEW q \in Run, Created(q)', q \notin K
      PROVE  Cardinality(usedSince'[q]) >= MaxEntries
  <2>1. Created(q) /\ q \notin records /\ q # r
    BY <1>5 DEF Created, TypeOK
  <2>2. Cardinality(usedSince[q]) >= MaxEntries
    BY <2>1 DEF StoreInv, EvictedOnlyWhenIdle
  <2>3. usedSince'[q] = usedSince[q] \cup {r}
    BY <2>1 DEF NoteUse, Created
  <2>4. /\ Cardinality(usedSince[q]) <= Cardinality(usedSince'[q])
        /\ Cardinality(usedSince[q]) \in Nat /\ Cardinality(usedSince'[q]) \in Nat
    BY <2>3, SmallerSet DEF TypeOK
  <2>5. QED
    BY <2>2, <2>4, MaxEntriesAssumption
<1> HIDE DEF order
<1>6. CASE Fits(K)
  <2>1. records' = K /\ newer' = order
    BY <1>6 DEF StoreCreate, order
  <2>2. QED
    BY <1>3, <1>4, <1>5, <1>6, <2>1
       DEF StoreInv, OrderedStore, NewerAreUsed, EvictedOnlyWhenIdle, Fits
<1>7. CASE ~Fits(K)
  <2>1. PICK o \in K : /\ order[o] = K \ {o}
                       /\ records' = K \ {o}
                       /\ newer' = [order EXCEPT ![o] = {}]
    BY <1>7 DEF StoreCreate, IsOldest, order
  <2>2. Cardinality(K) = MaxEntries + 1
    BY <1>2, <1>7, MaxEntriesAssumption DEF Fits, StoreInv
  <2>3. Cardinality(K \ {o}) = MaxEntries
    <3>1. IsFiniteSet(K)
      BY <1>2, RunAssumption, FS_Subset
    <3>2. Cardinality(K \ {o}) = Cardinality(K) - 1
      BY <3>1, FS_RemoveElement
    <3>3. QED
      BY <2>2, <3>2, MaxEntriesAssumption
  <2>4. order \in [Run -> SUBSET Run]
    BY <1>2 DEF order, MoveToEnd, TypeOK
  <2>5. \A q \in records' : newer'[q] = order[q]
    BY <1>2, <2>1, <2>4
  <2>6. OrderedStore' /\ NewerAreUsed'
    BY <1>3, <1>4, <2>1, <2>5 DEF OrderedStore, NewerAreUsed
  <2>7. Cardinality(usedSince'[o]) >= MaxEntries
    <3>1. K \ {o} \subseteq usedSince'[o] /\ usedSince'[o] \in SUBSET Run
      BY <1>2, <1>4, <2>1, NoteUseType
    <3>2. Cardinality(K \ {o}) <= Cardinality(usedSince'[o])
      BY <3>1, SmallerSet
    <3>3. QED
      BY <2>3, <3>2
  <2>8. EvictedOnlyWhenIdle'
    BY <1>5, <2>1, <2>7 DEF EvictedOnlyWhenIdle
  <2>9. QED
    BY <2>1, <2>3, <2>6, <2>8, MaxEntriesAssumption DEF StoreInv
<1>8. QED
  BY <1>6, <1>7
\* The steps that use no run of the store.
LEMMA NoUseKeepsStoreInv ==
  ASSUME StoreInv, UNCHANGED <<storeVars, usedSince>>,
         \A q \in Run : (status'[q] = "none") = (status[q] = "none"), TypeOK
  PROVE  StoreInv'
<1>1. \A q \in Run : Created(q)' = Created(q)
  BY DEF Created
<1>2. NewerAreUsed' /\ OrderedStore'
  BY <1>1 DEF StoreInv, NewerAreUsed, OrderedStore, TypeOK, storeVars
<1>3. EvictedOnlyWhenIdle'
  BY <1>1 DEF StoreInv, EvictedOnlyWhenIdle, storeVars
<1>4. QED
  BY <1>2, <1>3 DEF StoreInv, storeVars

LEMMA StoreStep == TypeInv /\ SessionInv /\ StoreInv /\ [Next]_vars => StoreInv'
<1> SUFFICES ASSUME TypeOK, SessionInv, StoreInv, [Next]_vars PROVE StoreInv'
  BY DEF TypeInv
<1> DEFINE SameCreated == \A q \in Run : (status'[q] = "none") = (status[q] = "none")
<1>1. ASSUME NEW r \in Run, WorkerStart(r) PROVE StoreInv'
  <2>1. SameCreated
    BY <1>1 DEF WorkerStart, sessionVars
  <2>2. QED
    BY <1>1, <2>1, UseKeepsStoreInv, NoUseKeepsStoreInv DEF WorkerStart, InStore
<1>2. ASSUME NEW r \in Run, NEW c \in 0..Total, NEW domain \in BOOLEAN,
             UpdateProgress(r, c, domain)
      PROVE  StoreInv'
  <2>1. SameCreated
    BY <1>2 DEF UpdateProgress, TypeOK, SessionInv, WorkerMatchesStatus
  <2>2. QED
    BY <1>2, <2>1, UseKeepsStoreInv DEF UpdateProgress, InStore
<1>3. ASSUME NEW r \in Run, ExecutorReturns(r) \/ ExecutorRaises(r) PROVE StoreInv'
  BY <1>3, NoUseKeepsStoreInv DEF ExecutorReturns, ExecutorRaises, sessionVars
<1>4. ASSUME NEW r \in Run, Fail(r) PROVE StoreInv'
  <2>1. SameCreated
    BY <1>4 DEF Fail, TypeOK, SessionInv, WorkerMatchesStatus
  <2>2. QED
    BY <1>4, <2>1, UseKeepsStoreInv, NoUseKeepsStoreInv DEF Fail, InStore
<1>5. ASSUME NEW r \in Run, CompleteBegin(r) PROVE StoreInv'
  <2>1. SameCreated
    BY <1>5 DEF CompleteBegin, TypeOK, SessionInv, WorkerMatchesStatus
  <2>2. QED
    BY <1>5, <2>1, NoUseKeepsStoreInv DEF CompleteBegin
<1>6. ASSUME NEW r \in Run, CompleteFinish(r) PROVE StoreInv'
  <2>1. SameCreated
    BY <1>6 DEF CompleteFinish
  <2>2. r \in records
    BY <1>6, NoRunAssumption DEF CompleteFinish, SessionInv, LockOwner
  <2>3. QED
    BY <1>6, <2>1, <2>2, UseKeepsStoreInv DEF CompleteFinish
<1>7. ASSUME NEW p \in Page, NEW r \in Run, NEW q \in records \cup {NoRun},
             PostRun(p, r, q)
      PROVE  StoreInv'
  BY <1>7, CreateKeepsStoreInv DEF PostRun
<1>8. ASSUME NEW p \in Page, Found(p) PROVE StoreInv'
  BY <1>8, UseKeepsStoreInv DEF Found, sessionVars
<1>9. ASSUME NEW p \in Page, RespondResults(p) PROVE StoreInv'
  <2>1. SameCreated
    BY <1>9 DEF RespondResults, sessionVars
  <2>2. \/ UNCHANGED <<storeVars, usedSince>>
        \/ \E q \in records : Touch(q) /\ NoteUse(q)
    BY <1>9 DEF RespondResults
  <2>3. QED
    BY <2>1, <2>2, UseKeepsStoreInv, NoUseKeepsStoreInv
<1>10. CASE UNCHANGED <<storeVars, status, usedSince>>
  BY <1>10, NoUseKeepsStoreInv
<1>11. ASSUME NEW p \in Page,
              \/ NotFound(p) \/ CheckRun(p) \/ RenderRun(p) \/ ReadCounts(p) \/ RespondStatus(p)
              \/ RespondDownload(p) \/ Poll(p) \/ GoHome(p) \/ Download(p)
              \/ \E r \in Run, url \in {"run", "results"} : Visit(p, r, url)
       PROVE  StoreInv'
  BY <1>10, <1>11 DEF NotFound, CheckRun, RenderRun, ReadCounts, RespondStatus, RespondDownload, Poll,
     GoHome, Download, Visit, sessionVars
<1>12. CASE UNCHANGED vars
  BY <1>10, <1>12 DEF vars, sessionVars
<1>13. QED
  BY <1>1, <1>2, <1>3, <1>4, <1>5, <1>6, <1>7, <1>8, <1>9, <1>11, <1>12
     DEF Next, Worker, Handler, User

\* The store keeps at most MaxEntries runs and a total order of them.
THEOREM StoreIsBounded == Spec => []StoreBounded
<1>1. StoreInv => StoreBounded
  BY DEF StoreInv, StoreBounded, OrderedStore
<1>2. QED
  BY TypeInit, TypeStep, SessionInit, SessionStep, StoreInit, StoreStep, <1>1, PTL DEF Spec

\* The run evicted for a new one is the one idle for longest: MaxEntries
\* other runs were used since.
THEOREM EvictionIsFair == Spec => []EvictedOnlyWhenIdle
<1>1. StoreInv => EvictedOnlyWhenIdle
  BY DEF StoreInv
<1>2. QED
  BY TypeInit, TypeStep, SessionInit, SessionStep, StoreInit, StoreStep, <1>1, PTL DEF Spec
-----------------------------------------------------------------------------
(* The tabs: what they were told stays true.                               *)

\* A completed run stays completed, and no count goes down.
SessionsAdvance ==
  \A r \in Run : /\ status[r] = "completed" => status'[r] = "completed"
                 /\ completedCount[r] <= completedCount'[r]

LEMMA StepAdvances == TypeInv /\ SessionInv /\ [Next]_vars => SessionsAdvance
<1> SUFFICES ASSUME TypeOK, SessionInv, [Next]_vars PROVE SessionsAdvance
  BY DEF TypeInv
<1>0. \A r \in Run : completedCount[r] \in 0..Total
  BY DEF TypeOK
<1> USE <1>0, TotalAssumption DEF SessionInv, WorkerMatchesStatus, SessionsAdvance
<1>1. CASE UNCHANGED <<status, completedCount>>
  BY <1>1
<1>2. ASSUME NEW r \in Run, NEW c \in 0..Total, NEW domain \in BOOLEAN,
             UpdateProgress(r, c, domain)
      PROVE  SessionsAdvance
  BY <1>2 DEF UpdateProgress, Reported, TypeOK
<1>3. ASSUME NEW r \in Run, Fail(r) PROVE SessionsAdvance
  BY <1>3 DEF Fail, TypeOK
<1>4. ASSUME NEW r \in Run, CompleteBegin(r) PROVE SessionsAdvance
  BY <1>4 DEF CompleteBegin, TypeOK
<1>5. ASSUME NEW r \in Run, CompleteFinish(r) PROVE SessionsAdvance
  BY <1>5 DEF CompleteFinish, PlannedCount, TypeOK
<1>6. ASSUME NEW p \in Page, NEW r \in Run, NEW q \in records \cup {NoRun},
             PostRun(p, r, q)
      PROVE  SessionsAdvance
  BY <1>6 DEF PostRun, TypeOK
<1>7. ASSUME NEW r \in Run, WorkerStart(r) \/ ExecutorReturns(r) \/ ExecutorRaises(r)
      PROVE  SessionsAdvance
  BY <1>1, <1>7 DEF WorkerStart, ExecutorReturns, ExecutorRaises, sessionVars
<1>8. CASE UNCHANGED vars
  BY <1>1, <1>8 DEF vars, sessionVars
<1>9. QED
  BY <1>1, <1>2, <1>3, <1>4, <1>5, <1>6, <1>7, <1>8, HandlersOnlyRead
     DEF Next, Worker, User, sessionVars

\* The worker threads do not touch the tabs.
LEMMA WorkersLeavePages ==
  ASSUME NEW r \in Run, Worker(r)
  PROVE  UNCHANGED pageVars
  BY DEF Worker, WorkerStart, UpdateProgress, ExecutorReturns, ExecutorRaises, Fail,
         CompleteBegin, CompleteFinish

\* What a tab shows or waits for, told or not, is still so in the session.
Knows(p) ==
  /\ told[p] => status[target[p]] = "completed" /\ target[p] \in Run /\ request[p] # "run"
  /\ told[p] /\ request[p] = "none" => shows[p] # "form"
  /\ request[p] = "status" => shows[p] = "watching"
  /\ request[p] = "download" => shows[p] = "results"
  /\ shows[p] = "results" => status[target[p]] = "completed"
  /\ shows[p] # "conflict"

\* The count a progress page displays, and the one the handler of its poll
\* has read, are not ahead of the session.
Follows(p) ==
  /\ step[p] = "counted" => /\ request[p] = "status"
                            /\ shown[p] <= read[p] /\ read[p] <= completedCount[target[p]]
  /\ shows[p] = "watching" => shown[p] <= completedCount[target[p]]

PageInv == \A p \in Page : Knows(p) /\ Follows(p)

LEMMA PageInit == Init => PageInv
  BY DEF Init, PageInv, Knows, Follows

\* A step of a worker or of another tab.
LEMMA OthersKeepPage ==
  ASSUME TypeInv, PageInv, SessionsAdvance, TypeOK', NEW p \in Page,
         <<shows[p], target[p], request[p], step[p], read[p], shown[p], told[p]>>'
           = <<shows[p], target[p], request[p], step[p], read[p], shown[p], told[p]>>
  PROVE  Knows(p)' /\ Follows(p)'
<1>1. CASE target[p] \in Run
  <2>1. /\ completedCount[target[p]] \in 0..Total /\ completedCount'[target[p]] \in 0..Total
        /\ shown[p] \in 0..Total /\ read[p] \in 0..Total
    BY <1>1 DEF TypeInv, TypeOK
  <2>2. Knows(p)'
    BY <1>1 DEF PageInv, Knows, SessionsAdvance
  <2>3. Follows(p)'
    BY <1>1, <2>1, TotalAssumption DEF PageInv, Follows, SessionsAdvance
  <2>4. QED
    BY <2>2, <2>3
<1>2. CASE target[p] \notin Run
  BY <1>2 DEF TypeInv, HasTarget, PageInv, Knows, Follows
<1>3. QED
  BY <1>1, <1>2
\* The tab's variables, the ones a step of the tab p changes only at p.
OnlyPage(p) ==
  \A q \in Page : q # p =>
    <<shows[q], target[q], request[q], step[q], read[q], shown[q], told[q]>>'
      = <<shows[q], target[q], request[q], step[q], read[q], shown[q], told[q]>>

LEMMA HandlersKeepPage ==
  ASSUME TypeInv, TypeInv', SessionInv, PageInv, NEW p \in Page, Handler(p) \/ Poll(p)
  PROVE  Knows(p)' /\ Follows(p)' /\ OnlyPage(p)
<1> USE DEF sessionVars, storeVars, pageVars
<1> DEFINE Goal == Knows(p)' /\ Follows(p)' /\ OnlyPage(p)
<1>1. /\ TypeOK /\ Knows(p) /\ Follows(p)
      /\ UNCHANGED <<status, completedCount, hasResult, hasJson>>
      /\ target[p] \in Run
  BY HandlersOnlyRead DEF TypeInv, HasTarget, PageInv, Handler, Found, NotFound, CheckRun, RenderRun,
     ReadCounts, RespondStatus, RespondResults, RespondDownload, Poll
<1>2. /\ completedCount[target[p]] \in 0..Total
      /\ shown[p] \in 0..Total /\ read[p] \in 0..Total
  BY <1>1 DEF TypeOK
<1> USE <1>1, <1>2, TotalAssumption DEF Knows, Follows, OnlyPage
<1>3. ASSUME Found(p) PROVE Goal
  BY <1>3 DEF Found, TypeOK
<1>4. ASSUME NotFound(p) PROVE Goal
  BY <1>4 DEF NotFound, TypeOK
<1>5. ASSUME CheckRun(p) PROVE Goal
  <2>1. CASE status[target[p]] = "completed"
    BY <1>5, <2>1 DEF CheckRun, Redirected, TypeOK
  <2>2. CASE status[target[p]] # "completed"
    BY <1>5, <2>2 DEF CheckRun, TypeOK
  <2>3. QED
    BY <2>1, <2>2
<1>5a. ASSUME RenderRun(p) PROVE Goal
  BY <1>5a DEF RenderRun, Answered, TypeOK
<1>6. ASSUME ReadCounts(p) PROVE Goal
  BY <1>6 DEF ReadCounts, TypeOK
<1>7. ASSUME RespondStatus(p) PROVE Goal
  <2>1. CASE status[target[p]] = "completed"
    BY <1>7, <2>1 DEF RespondStatus, Redirected, TypeOK
  <2>2. CASE status[target[p]] # "completed"
    BY <1>7, <2>2 DEF RespondStatus, Answered, PageAfter, TypeOK
  <2>3. QED
    BY <2>1, <2>2
<1>8. ASSUME RespondResults(p) PROVE Goal
  <2>1. CASE status[target[p]] = "completed"
    <3>1. hasResult[target[p]]
      BY <2>1 DEF SessionInv, SettledHasArtifacts
    <3>2. Answered(p, "results") /\ UNCHANGED <<target, read, shown, told>>
      BY <1>8, <2>1, <3>1 DEF RespondResults
    <3>3. QED
      BY <1>8, <2>1, <3>2 DEF RespondResults, Answered, TypeOK
  <2>2. CASE status[target[p]] # "completed"
    <3>1. Redirected(p, "run") /\ UNCHANGED <<target, read, shown, told>>
      BY <1>8, <2>2 DEF RespondResults
    <3>2. QED
      BY <1>8, <2>2, <3>1 DEF RespondResults, Redirected, TypeOK
  <2>3. QED
    BY <2>1, <2>2
<1>9. ASSUME RespondDownload(p) PROVE Goal
  <2>1. status[target[p]] = "completed" /\ hasResult[target[p]] /\ hasJson[target[p]]
    BY <1>9 DEF RespondDownload, SessionInv, SettledHasArtifacts
  <2>2. Answered(p, "results") /\ UNCHANGED <<target, read, shown, told>>
    BY <1>9, <2>1 DEF RespondDownload
  <2>3. QED
    BY <1>9, <2>1, <2>2 DEF RespondDownload, Answered, TypeOK
<1>10. ASSUME Poll(p) PROVE Goal
  BY <1>10 DEF Poll, TypeOK
<1>11. QED
  BY <1>3, <1>4, <1>5, <1>5a, <1>6, <1>7, <1>8, <1>9, <1>10 DEF Handler

LEMMA UsersKeepPage ==
  ASSUME TypeInv, TypeInv', SessionInv, PageInv, SessionsAdvance, NEW p \in Page, User(p)
  PROVE  Knows(p)' /\ Follows(p)' /\ OnlyPage(p)
<1> USE DEF sessionVars, storeVars, pageVars
<1> DEFINE Goal == Knows(p)' /\ Follows(p)' /\ OnlyPage(p)
<1>1. TypeOK /\ Knows(p) /\ Follows(p)
  BY DEF TypeInv, PageInv
<1> USE <1>1 DEF Knows, Follows, OnlyPage
<1>2. ASSUME NEW r \in Run, NEW q \in records \cup {NoRun}, PostRun(p, r, q) PROVE Goal
  BY <1>2 DEF PostRun, TypeOK
<1>3. ASSUME NEW r \in Run, NEW url \in {"run", "results"}, Visit(p, r, url) PROVE Goal
  BY <1>3 DEF Visit, TypeOK
<1>4. ASSUME GoHome(p) PROVE Goal
  BY <1>4 DEF GoHome, TypeOK
<1>5. ASSUME Download(p) PROVE Goal
  BY <1>5 DEF Download, TypeOK
<1>6. QED
  BY <1>2, <1>3, <1>4, <1>5 DEF User
LEMMA PageStep == TypeInv /\ TypeInv' /\ SessionInv /\ PageInv /\ [Next]_vars => PageInv'
<1> SUFFICES ASSUME TypeInv, TypeInv', SessionInv, PageInv, [Next]_vars PROVE PageInv'
  OBVIOUS
<1>1. SessionsAdvance /\ TypeOK'
  BY StepAdvances DEF TypeInv
<1>2. CASE UNCHANGED pageVars
  BY <1>1, <1>2, OthersKeepPage DEF PageInv, pageVars
<1>3. ASSUME NEW p \in Page, Handler(p) \/ Poll(p) \/ User(p) PROVE PageInv'
  <2>1. Knows(p)' /\ Follows(p)' /\ OnlyPage(p)
    BY <1>1, <1>3, HandlersKeepPage, UsersKeepPage
  <2>2. ASSUME NEW q \in Page, q # p PROVE Knows(q)' /\ Follows(q)'
    BY <1>1, <2>1, <2>2, OthersKeepPage DEF OnlyPage
  <2>3. QED
    BY <2>1, <2>2 DEF PageInv
<1>4. QED
  BY <1>2, <1>3, WorkersLeavePages DEF Next, vars

\* The invariant all the properties of the tabs follow from.
Inv == TypeInv /\ SessionInv /\ StoreInv /\ PageInv

LEMMA Invariance == Spec => []Inv
<1>1. Init => Inv
  BY TypeInit, SessionInit, StoreInit, PageInit DEF Inv
<1>2. Inv /\ [Next]_vars => Inv'
  BY TypeStep, SessionStep, StoreStep, PageStep DEF Inv
<1>3. QED
  BY <1>1, <1>2, PTL DEF Spec

\* A tab that was told its run is completed is never sent back to the
\* progress page.
THEOREM RedirectsEnd == Spec => []NoRedirectLoop
<1>1. Inv => NoRedirectLoop
  BY DEF Inv, PageInv, Knows, NoRedirectLoop
<1>2. QED
  BY Invariance, <1>1, PTL

\* The downloads of a results page find the artifacts.
THEOREM DownloadsFindArtifacts == Spec => []DownloadNeverConflicts
<1>1. Inv => DownloadNeverConflicts
  BY DEF Inv, PageInv, Knows, DownloadNeverConflicts
<1>2. QED
  BY Invariance, <1>1, PTL

\* The body of ShownNeverDecreases.
ShownAdvances ==
  \A p \in Page : shows[p] = "watching" /\ target'[p] = target[p]
                    /\ shows'[p] # "form" => shown'[p] >= shown[p]

LEMMA ShownStep == Inv /\ [Next]_vars => ShownAdvances
<1> SUFFICES ASSUME Inv, [Next]_vars, NEW p \in Page, shows[p] = "watching",
                    target'[p] = target[p], shows'[p] # "form"
             PROVE  shown'[p] >= shown[p]
  BY DEF ShownAdvances
<1>1. TypeOK /\ Follows(p) /\ shown[p] \in Nat
  BY TotalAssumption DEF Inv, TypeInv, TypeOK, PageInv
<1>2. CASE shown'[p] = shown[p]
  BY <1>1, <1>2
<1>3. CASE RespondStatus(p)
  BY <1>1, <1>3 DEF RespondStatus, Follows, TypeOK
<1>4. ASSUME RenderRun(p) PROVE shown'[p] >= shown[p]
  <2>1. target[p] \in Run /\ completedCount[target[p]] \in 0..Total
    BY <1>4 DEF Inv, TypeInv, HasTarget, TypeOK, RenderRun
  <2>2. shown[p] <= completedCount[target[p]]
    BY <1>1 DEF Follows
  <2>3. shown'[p] = completedCount[target[p]]
    BY <1>1, <1>4 DEF RenderRun, TypeOK
  <2>4. QED
    BY <1>1, <2>1, <2>2, <2>3, TotalAssumption
<1>5. ASSUME NEW q \in Page, q # p, Handler(q) \/ Poll(q) \/ User(q)
      PROVE  shown'[p] = shown[p]
  BY <1>5, HandlersKeepPage, UsersKeepPage, StepAdvances, TypeStep DEF OnlyPage, Inv
<1>6. ASSUME NEW r \in Run, NEW url \in {"run", "results"}, Visit(p, r, url) PROVE FALSE
  BY <1>1, <1>6 DEF Visit, TypeOK
<1>7. ASSUME GoHome(p) PROVE FALSE
  BY <1>1, <1>7 DEF GoHome, TypeOK
<1>8. ASSUME \/ Found(p) \/ NotFound(p) \/ CheckRun(p) \/ ReadCounts(p) \/ RespondResults(p)
             \/ RespondDownload(p) \/ Poll(p) \/ Download(p)
      PROVE  shown'[p] = shown[p]
  BY <1>8 DEF Found, NotFound, CheckRun, ReadCounts, RespondResults, RespondDownload, Poll,
     Download
<1>9. ASSUME NEW r \in Run, NEW q \in records \cup {NoRun}, PostRun(p, r, q) PROVE FALSE
  BY <1>9 DEF PostRun
<1>10. ASSUME UNCHANGED pageVars PROVE shown'[p] = shown[p]
  BY <1>10 DEF pageVars
<1>11. QED
  BY <1>2, <1>3, <1>4, <1>5, <1>6, <1>7, <1>8, <1>9, <1>10, WorkersLeavePages
     DEF Next, Handler, User, vars

\* The progress a tab displays never goes down between two answers.
THEOREM ShownProgressAdvances == Spec => ShownNeverDecreases
<1>1. Inv /\ [Next]_vars => [ShownAdvances]_vars
  BY ShownStep
<1>2. Spec => [][ShownAdvances]_vars
  BY Invariance, <1>1, PTL DEF Spec
<1>3. QED
  BY <1>2 DEF ShownNeverDecreases, ShownAdvances
-----------------------------------------------------------------------------
(* Refinement: the store, its workers and its handlers implement the       *)
(* lifecycle that RunLifecycle promises.                                   *)

\* The mapped state.
phaseBar ==
  [r \in Run |-> IF status[r] \in {"queued", "running"} THEN "active" ELSE status[r]]
progressBar ==
  [r \in Run |-> IF status[r] = "completed" THEN Total ELSE completedCount[r]]

LEMMA InitRefines == Init => Lifecycle!Init
  BY DEF Init, Lifecycle!Init

\* RunLifecycle's Submit, over the mapped state.
SubmitBar(r) ==
  /\ phaseBar[r] = "none"
  /\ phaseBar' = [phaseBar EXCEPT ![r] = "active"]
  /\ UNCHANGED progressBar
  /\ \/ Cardinality(records) < MaxEntries /\ records' = records \cup {r}
     \/ \E o \in records : /\ Cardinality(records) = MaxEntries
                           /\ records' = (records \ {o}) \cup {r}

LEMMA SameCardinality == ASSUME NEW S PROVE Lifecycle!Cardinality(S) = Cardinality(S)
  BY DEF Cardinality, Lifecycle!Cardinality

LEMMA SubmitMapped == ASSUME NEW r \in Run, SubmitBar(r) PROVE Lifecycle!Submit(r)
  BY SameCardinality, Zenon DEF SubmitBar, Lifecycle!Submit, phaseBar, progressBar

LEMMA SubmitRefines ==
  ASSUME Inv, NEW p \in Page, NEW r \in Run, NEW q \in records \cup {NoRun}, PostRun(p, r, q)
  PROVE  Lifecycle!Submit(r)
<1>1. /\ TypeOK /\ status[r] = "none" /\ r \notin records
      /\ Cardinality(records) <= MaxEntries
  BY DEF PostRun, Inv, TypeInv, StoreInv, NewerAreUsed, Created
<1>2. /\ phaseBar[r] = "none"
      /\ phaseBar' = [phaseBar EXCEPT ![r] = "active"]
      /\ progressBar' = progressBar
  BY <1>1 DEF PostRun, TypeOK, phaseBar, progressBar
<1> DEFINE K == records \cup {r}
           order == MoveToEnd(K, r)
<1>3. /\ Cardinality(records) \in Nat
      /\ Cardinality(K) = Cardinality(records) + 1
  <2>1. IsFiniteSet(records) /\ Cardinality(records) \in Nat
    BY <1>1, RunAssumption, FS_Subset, FS_CardinalityType DEF TypeOK
  <2>2. QED
    BY <1>1, <2>1, FS_AddElement
<1>4. CASE Fits(K)
  <2>1. records' = K
    BY <1>4 DEF PostRun, StoreCreate
  <2>2. Cardinality(records) < MaxEntries
    BY <1>3, <1>4, MaxEntriesAssumption DEF Fits
  <2>3. QED
    BY <1>2, <2>1, <2>2, SubmitMapped DEF SubmitBar
<1>5. CASE ~Fits(K)
  <2>1. PICK o \in K : order[o] = K \ {o} /\ records' = K \ {o}
    BY <1>5 DEF PostRun, StoreCreate, IsOldest
  <2>2. Cardinality(records) = MaxEntries
    BY <1>1, <1>3, <1>5, MaxEntriesAssumption DEF Fits
  <2>3. records # {}
    BY <2>2, MaxEntriesAssumption, FS_EmptySet
  <2>4. order[r] = {}
    BY DEF MoveToEnd
  <2>5. o \in records /\ o # r
    BY <1>1, <2>1, <2>3, <2>4
  <2>6. records' = (records \ {o}) \cup {r}
    BY <2>1, <2>5
  <2>7. QED
    BY <1>2, <2>2, <2>5, <2>6, SubmitMapped DEF SubmitBar
<1>6. QED
  BY <1>4, <1>5

LEMMA StepRefines == Inv /\ [Next]_vars => [Lifecycle!Next]_(Lifecycle!vars)
<1> SUFFICES ASSUME Inv, [Next]_vars PROVE [Lifecycle!Next]_(Lifecycle!vars)
  OBVIOUS
<1> DEFINE Stutter == UNCHANGED <<phaseBar, progressBar, records>>
<1>0. TypeOK /\ SessionInv
  BY DEF Inv, TypeInv
<1>1. ASSUME Stutter PROVE UNCHANGED Lifecycle!vars
  BY <1>1 DEF Lifecycle!vars, phaseBar, progressBar
<1>2. CASE UNCHANGED <<status, completedCount, records>>
  BY <1>1, <1>2 DEF phaseBar, progressBar
<1>3. ASSUME NEW r \in Run, NEW c \in 0..Total, NEW domain \in BOOLEAN,
             UpdateProgress(r, c, domain)
      PROVE  Lifecycle!Advance(r, c)
  <2>1. r \in records /\ status[r] \in {"queued", "running"} /\ c >= completedCount[r]
    BY <1>0, <1>3 DEF UpdateProgress, InStore, Reported, SessionInv, WorkerMatchesStatus
  <2>2. /\ phaseBar[r] = "active" /\ c >= progressBar[r]
        /\ phaseBar' = phaseBar
        /\ progressBar' = [progressBar EXCEPT ![r] = c]
        /\ records' = records
    BY <1>0, <1>3, <2>1 DEF UpdateProgress, Touch, TypeOK, phaseBar, progressBar
  <2>3. QED
    BY <2>1, <2>2 DEF Lifecycle!Advance, Lifecycle!Live, phaseBar, progressBar
<1>4. ASSUME NEW r \in Run, Fail(r), r \in records PROVE Lifecycle!GiveUp(r)
  <2>1. status[r] \in {"queued", "running"}
    BY <1>0, <1>4 DEF Fail, SessionInv, WorkerMatchesStatus
  <2>2. /\ phaseBar[r] = "active"
        /\ phaseBar' = [phaseBar EXCEPT ![r] = "failed"]
        /\ progressBar' = progressBar
        /\ records' = records
    BY <1>0, <1>4, <2>1 DEF Fail, InStore, Touch, TypeOK, phaseBar, progressBar
  <2>3. QED
    BY <1>4, <2>2 DEF Lifecycle!GiveUp, Lifecycle!Live, phaseBar, progressBar
<1>5. ASSUME NEW r \in Run, CompleteBegin(r), r \in records PROVE Lifecycle!Succeed(r)
  <2>1. status[r] \in {"queued", "running"}
    BY <1>0, <1>5 DEF CompleteBegin, SessionInv, WorkerMatchesStatus
  <2>2. /\ phaseBar[r] = "active"
        /\ phaseBar' = [phaseBar EXCEPT ![r] = "completed"]
        /\ progressBar' = [progressBar EXCEPT ![r] = Total]
        /\ records' = records
    <3>1. /\ status' = [status EXCEPT ![r] = "completed"]
          /\ UNCHANGED <<records, completedCount>>
      BY <1>5 DEF CompleteBegin, InStore, storeVars
    <3>2. status \in [Run -> Status] /\ Status = {"none", "queued", "running", "completed", "failed"}
      BY <1>0 DEF TypeOK, Status
    <3>3. phaseBar' = [phaseBar EXCEPT ![r] = "completed"]
      BY <3>1, <3>2 DEF phaseBar
    <3>4. progressBar' = [progressBar EXCEPT ![r] = Total]
      BY <3>1, <3>2 DEF progressBar
    <3>5. QED
      BY <2>1, <3>1, <3>3, <3>4 DEF phaseBar
  <2>3. QED
    BY <1>5, <2>2 DEF Lifecycle!Succeed, Lifecycle!Live, phaseBar, progressBar
<1>6. ASSUME NEW r \in Run, CompleteFinish(r) PROVE Stutter
  <2>1. status[r] = "completed"
    BY <1>0, <1>6 DEF CompleteFinish, SessionInv, WorkerMatchesStatus
  <2>2. QED
    <3>1. /\ completedCount' = [completedCount EXCEPT ![r] = Total]
          /\ UNCHANGED <<records, status>>
      BY <1>6 DEF CompleteFinish, PlannedCount, Touch
    <3>2. completedCount \in [Run -> 0..Total]
      BY <1>0 DEF TypeOK
    <3>3. progressBar' = progressBar
      BY <2>1, <3>1, <3>2 DEF progressBar
    <3>4. QED
      BY <3>1, <3>3 DEF phaseBar
<1>7. ASSUME NEW r \in Run,
             \/ WorkerStart(r) \/ ExecutorReturns(r) \/ ExecutorRaises(r)
             \/ (Fail(r) \/ CompleteBegin(r)) /\ r \notin records
      PROVE  UNCHANGED <<status, completedCount, records>>
  BY <1>7 DEF WorkerStart, ExecutorReturns, ExecutorRaises, Fail, CompleteBegin, InStore, Touch,
     storeVars, sessionVars
<1>8. ASSUME NEW p \in Page, NEW r \in Run, NEW q \in records \cup {NoRun},
             PostRun(p, r, q)
      PROVE  Lifecycle!Submit(r)
  BY <1>8, SubmitRefines
<1>9. CASE UNCHANGED vars
  BY <1>2, <1>9 DEF vars, sessionVars, storeVars
<1>10. QED
  BY <1>1, <1>2, <1>3, <1>4, <1>5, <1>6, <1>7, <1>8, <1>9, HandlersOnlyRead
     DEF Next, Worker, User, Lifecycle!Next, sessionVars

\* Whatever the interleaving, runs go through the lifecycle: they settle at
\* most once, are given up only for a new run, and stay as they were then.
THEOREM ImplementsLifecycle == Spec => RefinesLifecycle
  BY Invariance, InitRefines, StepRefines, PTL DEF Spec, RefinesLifecycle, Lifecycle!Spec
=============================================================================
