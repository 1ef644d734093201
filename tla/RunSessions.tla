------------------------------ MODULE RunSessions ------------------------------
(***************************************************************************)
(* The session store of the local web interface (web/sessions.py), the     *)
(* worker thread that executes one run, the request handlers that read the *)
(* shared sessions (web/routes.py) and the page that polls them            *)
(* (static/app.js).                                                        *)
(*                                                                         *)
(* Every operation of RecentRunsStore runs under its lock and is one       *)
(* action, except complete(): it calls planned_execution_step_count        *)
(* between its assignments, which lets another thread run, so it is two.   *)
(* A handler keeps the session object that get() returned and reads its    *)
(* fields later, without the lock: a lookup and each group of reads        *)
(* between two calls is an action of its own.                              *)
(***************************************************************************)
EXTENDS Naturals, FiniteSets

CONSTANTS Run,         \* run identifiers, each used by one POST /run
          Page,        \* browser tabs
          MaxEntries,  \* RecentRunsStore._max_entries
          Total,       \* planned_execution_step_count of a run
          NoRun        \* "no run": the lock is free, no previous run

ASSUME MaxEntriesAssumption == MaxEntries \in Nat \ {0}
ASSUME TotalAssumption == Total \in Nat
ASSUME NoRunAssumption == NoRun \notin Run
ASSUME RunAssumption == IsFiniteSet(Run)

VARIABLES
  records,         \* keys of RecentRunsStore._records
  newer,           \* newer[r]: the keys after r in that OrderedDict
  lock,            \* the run whose complete() holds the store's lock
  status,          \* RunSession.status; "none" before POST /run
  activeDomain,    \* is RunSession.current_domain set?
  completedCount,  \* RunSession.completed_count
  hasResult,       \* is RunSession.result set?
  hasJson,         \* is RunSession.json_text set?
  hasError,        \* is RunSession.error set?
  previous,        \* RunSession.experience.previous_run_id
  worker,          \* where _run_session of the run is
  shows,           \* what a tab displays
  target,          \* the run a tab is about
  request,         \* the tab's outstanding request
  step,            \* how far the handler of that request is
  read,            \* completed_count as that handler read it
  shown,           \* completed_count the tab displays
  told,            \* has the server told the tab that its run is completed?
  usedSince        \* history: the runs used since a run was last used

storeVars   == <<records, newer>>
sessionVars == <<status, activeDomain, completedCount, hasResult, hasJson,
                 hasError, previous>>
pageVars    == <<shows, target, request, step, read, shown, told>>
vars == <<storeVars, lock, sessionVars, worker, pageVars, usedSince>>

Status == {"none", "queued", "running", "completed", "failed"}
WorkerState == {"none", "starting", "executing", "returned", "completing",
                "raised", "done"}
Shows == {"form", "watching", "results", "stopped", "notfound", "conflict"}
Request == {"none", "run", "status", "results", "download"}

TypeOK ==
  /\ records \subseteq Run
  /\ newer \in [Run -> SUBSET Run]
  /\ lock \in Run \cup {NoRun}
  /\ status \in [Run -> Status]
  /\ activeDomain \in [Run -> BOOLEAN]
  /\ completedCount \in [Run -> 0..Total]
  /\ hasResult \in [Run -> BOOLEAN]
  /\ hasJson \in [Run -> BOOLEAN]
  /\ hasError \in [Run -> BOOLEAN]
  /\ previous \in [Run -> Run \cup {NoRun}]
  /\ worker \in [Run -> WorkerState]
  /\ shows \in [Page -> Shows]
  /\ target \in [Page -> Run \cup {NoRun}]
  /\ request \in [Page -> Request]
  /\ step \in [Page -> {"sent", "found", "checked", "counted"}]
  /\ read \in [Page -> 0..Total]
  /\ shown \in [Page -> 0..Total]
  /\ told \in [Page -> BOOLEAN]
  /\ usedSince \in [Run -> SUBSET Run]

Init ==
  /\ records = {}
  /\ newer = [r \in Run |-> {}]
  /\ lock = NoRun
  /\ status = [r \in Run |-> "none"]
  /\ activeDomain = [r \in Run |-> FALSE]
  /\ completedCount = [r \in Run |-> 0]
  /\ hasResult = [r \in Run |-> FALSE]
  /\ hasJson = [r \in Run |-> FALSE]
  /\ hasError = [r \in Run |-> FALSE]
  /\ previous = [r \in Run |-> NoRun]
  /\ worker = [r \in Run |-> "none"]
  /\ shows = [p \in Page |-> "form"]
  /\ target = [p \in Page |-> NoRun]
  /\ request = [p \in Page |-> "none"]
  /\ step = [p \in Page |-> "sent"]
  /\ read = [p \in Page |-> 0]
  /\ shown = [p \in Page |-> 0]
  /\ told = [p \in Page |-> FALSE]
  /\ usedSince = [r \in Run |-> {}]

-----------------------------------------------------------------------------
(* The store: an OrderedDict kept as its keys and, for each key, the keys   *)
(* after it.                                                               *)

\* _records.move_to_end(r), when the keys are K
MoveToEnd(K, r) ==
  [q \in Run |-> IF q = r THEN {}
                 ELSE IF q \in K THEN newer[q] \cup {r} ELSE newer[q]]

\* r is the first key, the one popitem(last=False) removes
IsOldest(K, order, r) == r \in K /\ order[r] = K \ {r}

\* Mutant: a store operation leaves the key of r where it is.
LeaveInPlace(r) == UNCHANGED storeVars

\* A store operation found r and moved it to the end.
Touch(r) ==
  /\ records' = records
  /\ newer' = MoveToEnd(records, r)

\* History: r is used now. A run not yet created has no history.
NoteUse(r) ==
  usedSince' = [q \in Run |-> IF q = r \/ status[q] = "none" THEN {}
                              ELSE usedSince[q] \cup {r}]

LockFree == lock = NoRun

\* Mutant: the eviction loop stops one key too late.
FitsOneMore(K) == Cardinality(K) <= MaxEntries + 1

Fits(K) == Cardinality(K) <= MaxEntries

\* RecentRunsStore.create. It adds one key to at most MaxEntries keys, so
\* the eviction loop runs at most once.
StoreCreate(r) ==
  LET K == records \cup {r}
      order == MoveToEnd(K, r)
  IN IF Fits(K)
     THEN records' = K /\ newer' = order
     ELSE \E o \in K :
            /\ IsOldest(K, order, o)
            /\ records' = K \ {o}
            /\ newer' = [order EXCEPT ![o] = {}]

-----------------------------------------------------------------------------
(* The worker thread of a run. It names its session by id: every store      *)
(* operation looks the id up again and does nothing for an evicted run.    *)

\* Mutant: the thread writes to the session it looked up at its start.
HoldsSession(r) == TRUE

InStore(r) == r \in records

\* Mutant: a domain reports its own steps, not the sum over all domains.
OwnSteps(r, c) == c \in 0..Total

\* What run_context.emit_progress reports: counts that do not go down (see
\* DiagnosticsRun).
Reported(r, c) == c >= completedCount[r]

\* Mutant: complete sets its status first, and result and text at its end.
ArtifactsLater(r) == UNCHANGED <<hasResult, hasJson>>

\* Mutant: complete forgets the text.
TextLater(r) == hasResult' = [hasResult EXCEPT ![r] = TRUE] /\ UNCHANGED hasJson

\* session.result = result; session.json_text = json_text
SetArtifacts(r) ==
  /\ hasResult' = [hasResult EXCEPT ![r] = TRUE]
  /\ hasJson' = [hasJson EXCEPT ![r] = TRUE]

\* The thread looks its session up; a run evicted before that never starts.
WorkerStart(r) ==
  /\ worker[r] = "starting" /\ LockFree
  /\ IF InStore(r)
     THEN worker' = [worker EXCEPT ![r] = "executing"] /\ Touch(r) /\ NoteUse(r)
     ELSE worker' = [worker EXCEPT ![r] = "done"] /\ UNCHANGED <<storeVars, usedSince>>
  /\ UNCHANGED <<lock, sessionVars, pageVars>>

\* The executor calls progress_callback: update_progress, a no-op for an
\* evicted run.
UpdateProgress(r, c, domain) ==
  /\ worker[r] = "executing" /\ LockFree
  /\ Reported(r, c) /\ InStore(r)
  /\ status' = [status EXCEPT ![r] = "running"]
  /\ activeDomain' = [activeDomain EXCEPT ![r] = domain]
  /\ completedCount' = [completedCount EXCEPT ![r] = c]
  /\ Touch(r) /\ NoteUse(r)
  /\ UNCHANGED <<lock, hasResult, hasJson, hasError, previous, worker, pageVars>>

\* The executor returns its result, which is then serialised.
ExecutorReturns(r) ==
  /\ worker[r] = "executing"
  /\ worker' = [worker EXCEPT ![r] = "returned"]
  /\ UNCHANGED <<storeVars, lock, sessionVars, pageVars, usedSince>>

\* Mutant: an exception other than ValueError ends the thread.
UncaughtRaise(r) ==
  /\ worker[r] = "executing"
  /\ worker' = [worker EXCEPT ![r] = "done"]
  /\ UNCHANGED <<storeVars, lock, sessionVars, pageVars, usedSince>>

\* The executor raises ValueError or another exception.
ExecutorRaises(r) ==
  /\ worker[r] = "executing"
  /\ worker' = [worker EXCEPT ![r] = "raised"]
  /\ UNCHANGED <<storeVars, lock, sessionVars, pageVars, usedSince>>

\* RecentRunsStore.fail
Fail(r) ==
  /\ worker[r] = "raised" /\ LockFree
  /\ worker' = [worker EXCEPT ![r] = "done"]
  /\ IF InStore(r)
     THEN /\ status' = [status EXCEPT ![r] = "failed"]
          /\ activeDomain' = [activeDomain EXCEPT ![r] = FALSE]
          /\ hasError' = [hasError EXCEPT ![r] = TRUE]
          /\ Touch(r) /\ NoteUse(r)
     ELSE UNCHANGED <<status, activeDomain, hasError, storeVars, usedSince>>
  /\ UNCHANGED <<lock, completedCount, hasResult, hasJson, previous, pageVars>>

\* RecentRunsStore.complete up to the first call of
\* planned_execution_step_count, and its early return for an evicted run
CompleteBegin(r) ==
  /\ worker[r] = "returned" /\ LockFree
  /\ IF InStore(r)
     THEN /\ lock' = r
          /\ worker' = [worker EXCEPT ![r] = "completing"]
          /\ status' = [status EXCEPT ![r] = "completed"]
          /\ SetArtifacts(r)
          /\ activeDomain' = [activeDomain EXCEPT ![r] = FALSE]
     ELSE /\ worker' = [worker EXCEPT ![r] = "done"]
          /\ UNCHANGED <<lock, status, hasResult, hasJson, activeDomain>>
  /\ UNCHANGED <<storeVars, completedCount, hasError, previous, pageVars, usedSince>>

\* Mutant: an off-by-one in the final count.
OneTooMany == Total + 1

\* planned_execution_step_count(session.options)
PlannedCount == Total

\* The rest of complete, which then releases the lock.
CompleteFinish(r) ==
  /\ worker[r] = "completing" /\ lock = r
  /\ completedCount' = [completedCount EXCEPT ![r] = PlannedCount]
  /\ hasError' = [hasError EXCEPT ![r] = FALSE]
  /\ Touch(r) /\ NoteUse(r)
  /\ lock' = NoRun
  /\ worker' = [worker EXCEPT ![r] = "done"]
  /\ UNCHANGED <<status, activeDomain, hasResult, hasJson, previous, pageVars>>

-----------------------------------------------------------------------------
(* The tabs and the request handlers.                                      *)

\* POST /run: create the session, start its thread, redirect to /runs/<id>.
\* q is the run the form came from; one that is evicted is as good as none.
PostRun(p, r, q) ==
  /\ shows[p] = "form" /\ request[p] = "none"
  /\ status[r] = "none" /\ LockFree
  /\ StoreCreate(r) /\ NoteUse(r)
  /\ status' = [status EXCEPT ![r] = "queued"]
  /\ activeDomain' = [activeDomain EXCEPT ![r] = TRUE]
  /\ previous' = [previous EXCEPT ![r] = q]
  /\ worker' = [worker EXCEPT ![r] = "starting"]
  /\ target' = [target EXCEPT ![p] = r]
  /\ request' = [request EXCEPT ![p] = "run"]
  /\ UNCHANGED <<lock, completedCount, hasResult, hasJson, hasError, shows, step, read,
                 shown, told>>

\* The user opens /runs/<id> or /results/<id>, by a link or the history.
Visit(p, r, url) ==
  /\ request[p] = "none" /\ status[r] # "none"
  /\ target' = [target EXCEPT ![p] = r]
  /\ request' = [request EXCEPT ![p] = url]
  /\ shows' = [shows EXCEPT ![p] = "form"]
  /\ told' = [told EXCEPT ![p] = FALSE]
  /\ shown' = [shown EXCEPT ![p] = 0]
  /\ UNCHANGED <<storeVars, lock, sessionVars, worker, step, read, usedSince>>

\* The user goes back to the form.
GoHome(p) ==
  /\ request[p] = "none" /\ shows[p] # "form"
  /\ shows' = [shows EXCEPT ![p] = "form"]
  /\ target' = [target EXCEPT ![p] = NoRun]
  /\ told' = [told EXCEPT ![p] = FALSE]
  /\ shown' = [shown EXCEPT ![p] = 0]
  /\ UNCHANGED <<storeVars, lock, sessionVars, worker, request, step, read, usedSince>>

\* The poll timer of a progress page fires.
Poll(p) ==
  /\ shows[p] = "watching" /\ request[p] = "none"
  /\ request' = [request EXCEPT ![p] = "status"]
  /\ UNCHANGED <<storeVars, lock, sessionVars, worker, shows, target, step, read, shown,
                 told, usedSince>>

\* A download link of the results page: result.json or the support bundle.
Download(p) ==
  /\ shows[p] = "results" /\ request[p] = "none"
  /\ request' = [request EXCEPT ![p] = "download"]
  /\ UNCHANGED <<storeVars, lock, sessionVars, worker, shows, target, step, read, shown,
                 told, usedSince>>

\* get_session_or_404: found
Found(p) ==
  /\ request[p] # "none" /\ step[p] = "sent" /\ LockFree
  /\ target[p] \in records
  /\ Touch(target[p]) /\ NoteUse(target[p])
  /\ step' = [step EXCEPT ![p] = "found"]
  /\ UNCHANGED <<lock, sessionVars, worker, shows, target, request, read, shown, told>>

\* get_session_or_404: the run was evicted. A poll is tried again later; a
\* navigation shows the 404 page.
NotFound(p) ==
  /\ request[p] # "none" /\ step[p] = "sent" /\ LockFree
  /\ target[p] \notin records
  /\ request' = [request EXCEPT ![p] = "none"]
  /\ shows' = [shows EXCEPT ![p] = IF request[p] = "status" THEN @ ELSE "notfound"]
  /\ UNCHANGED <<storeVars, lock, sessionVars, worker, target, step, read, shown, told,
                 usedSince>>

\* The handler has answered with the page s, and the tab displays it.
Answered(p, s) ==
  /\ request' = [request EXCEPT ![p] = "none"]
  /\ step' = [step EXCEPT ![p] = "sent"]
  /\ shows' = [shows EXCEPT ![p] = s]

\* The handler has redirected the tab.
Redirected(p, url) ==
  /\ request' = [request EXCEPT ![p] = url]
  /\ step' = [step EXCEPT ![p] = "sent"]
  /\ UNCHANGED shows

\* GET /runs/<id>: to the results when completed ...
CheckRun(p) ==
  /\ request[p] = "run" /\ step[p] = "found"
  /\ IF status[target[p]] = "completed"
     THEN Redirected(p, "results") /\ told' = [told EXCEPT ![p] = TRUE]
     ELSE step' = [step EXCEPT ![p] = "checked"] /\ UNCHANGED <<shows, request, told>>
  /\ UNCHANGED <<storeVars, lock, sessionVars, worker, target, read, shown, usedSince>>

\* ... else the progress page, whose counts are read after that check.
RenderRun(p) ==
  /\ request[p] = "run" /\ step[p] = "checked"
  /\ Answered(p, "watching")
  /\ shown' = [shown EXCEPT ![p] = completedCount[target[p]]]
  /\ UNCHANGED <<storeVars, lock, sessionVars, worker, target, read, told, usedSince>>

\* Mutant: a failed run is polled on.
PollOn(s) == "watching"

\* applyPayload: a failed run ends the polling.
PageAfter(s) == IF s = "failed" THEN "stopped" ELSE "watching"

\* GET /runs/<id>/status: build_progress_view reads the counts first ...
ReadCounts(p) ==
  /\ request[p] = "status" /\ step[p] = "found"
  /\ read' = [read EXCEPT ![p] = completedCount[target[p]]]
  /\ step' = [step EXCEPT ![p] = "counted"]
  /\ UNCHANGED <<storeVars, lock, sessionVars, worker, shows, target, request, shown, told,
                 usedSince>>

\* ... and the status and the error last; the page applies the payload.
RespondStatus(p) ==
  LET s == status[target[p]] IN
  /\ request[p] = "status" /\ step[p] = "counted"
  /\ shown' = [shown EXCEPT ![p] = read[p]]
  /\ IF s = "completed"
     THEN Redirected(p, "results") /\ told' = [told EXCEPT ![p] = TRUE]
     ELSE Answered(p, PageAfter(s)) /\ UNCHANGED told
  /\ read' = [read EXCEPT ![p] = 0]
  /\ UNCHANGED <<storeVars, lock, sessionVars, worker, target, usedSince>>

\* GET /results/<id>: back to the progress page unless there is a result.
\* Rendering looks the previous run up with get_completed.
RespondResults(p) ==
  LET r == target[p]
      q == previous[r]
  IN
  /\ request[p] = "results" /\ step[p] = "found"
  /\ IF status[r] # "completed" \/ ~hasResult[r]
     THEN Redirected(p, "run") /\ UNCHANGED <<storeVars, usedSince>>
     ELSE /\ Answered(p, "results")
          /\ q # NoRun => LockFree
          /\ IF q \in records /\ status[q] = "completed"
             THEN Touch(q) /\ NoteUse(q)
             ELSE UNCHANGED <<storeVars, usedSince>>
  /\ UNCHANGED <<lock, sessionVars, worker, target, read, shown, told>>

\* GET result.json or support-bundle.zip: get_completed_record_or_409
RespondDownload(p) ==
  LET r == target[p] IN
  /\ request[p] = "download" /\ step[p] = "found"
  /\ IF status[r] # "completed" \/ ~hasResult[r] \/ ~hasJson[r]
     THEN Answered(p, "conflict")
     ELSE Answered(p, "results")
  /\ UNCHANGED <<storeVars, lock, sessionVars, worker, target, read, shown, told, usedSince>>

-----------------------------------------------------------------------------
Worker(r) ==
  \/ WorkerStart(r)
  \/ \E c \in 0..Total, domain \in BOOLEAN : UpdateProgress(r, c, domain)
  \/ ExecutorReturns(r) \/ ExecutorRaises(r)
  \/ Fail(r) \/ CompleteBegin(r) \/ CompleteFinish(r)

Handler(p) ==
  \/ Found(p) \/ NotFound(p)
  \/ CheckRun(p) \/ RenderRun(p) \/ ReadCounts(p) \/ RespondStatus(p)
  \/ RespondResults(p) \/ RespondDownload(p)

User(p) ==
  \/ \E r \in Run, q \in records \cup {NoRun} : PostRun(p, r, q)
  \/ \E r \in Run, url \in {"run", "results"} : Visit(p, r, url)
  \/ GoHome(p) \/ Download(p)

Next ==
  \/ \E r \in Run : Worker(r)
  \/ \E p \in Page : Handler(p) \/ Poll(p) \/ User(p)

Spec == Init /\ [][Next]_vars

(* Threads are scheduled, an open page keeps polling, and an executor       *)
(* returns or raises: each of its collectors has a timeout. Users and       *)
(* progress callbacks owe nothing.                                          *)
Fairness ==
  /\ \A r \in Run : /\ WF_vars(WorkerStart(r))
                    /\ WF_vars(ExecutorReturns(r) \/ ExecutorRaises(r))
                    /\ WF_vars(Fail(r) \/ CompleteBegin(r) \/ CompleteFinish(r))
  /\ \A p \in Page : WF_vars(Handler(p)) /\ WF_vars(Poll(p))

FairSpec == Spec /\ Fairness
-----------------------------------------------------------------------------
(* Properties.                                                             *)

Created(r) == status[r] # "none"
Settled(r) == status[r] \in {"completed", "failed"}

\* The store never holds more than MaxEntries runs, and the recency it keeps
\* orders them: of two stored runs exactly one is after the other.
StoreBounded ==
  /\ Cardinality(records) <= MaxEntries
  /\ \A q, r \in records : q # r => (q \in newer[r] <=> r \notin newer[q])

\* A created run is missing from the store only when at least MaxEntries
\* other runs were created, polled, reported on or finished since it was
\* last used itself: a run somebody uses is not evicted before idle ones.
EvictedOnlyWhenIdle ==
  \A r \in Run : Created(r) /\ r \notin records =>
    Cardinality(usedSince[r]) >= MaxEntries

\* A handler without the lock never sees "completed" without the result and
\* its text, nor "failed" without an error, even in the middle of complete().
SettledHasArtifacts ==
  \A r \in Run :
    /\ status[r] = "completed" => hasResult[r] /\ hasJson[r] /\ ~activeDomain[r]
    /\ status[r] = "failed" => hasError[r] /\ ~activeDomain[r]

\* A tab told that its run is completed is not sent back to the progress
\* page: /runs and /results never redirect to each other in a loop.
NoRedirectLoop == \A p \in Page : told[p] => request[p] # "run"

\* A results page stays consistent with the session it shows: its downloads
\* never answer 409.
DownloadNeverConflicts == \A p \in Page : shows[p] # "conflict"

\* The count a progress page displays does not go down from one answer to
\* the next, though polls and worker interleave.
ShownNeverDecreases ==
  [][\A p \in Page : shows[p] = "watching" /\ target'[p] = target[p]
                       /\ shows'[p] # "form" => shown'[p] >= shown[p]]_vars

\* Every run that gets an executor settles, unless it is evicted first.
EveryRunSettles == \A r \in Run : Created(r) ~> Settled(r) \/ r \notin records

\* A progress page leaves its polling loop, unless its run is evicted.
WatchersLeave ==
  \A p \in Page : shows[p] = "watching" ~>
    shows[p] # "watching" \/ target[p] \notin records

(* The abstract specification. An evicted run is no longer available; a    *)
(* run counts as finished from the first half of complete() on.            *)
Lifecycle == INSTANCE RunLifecycle WITH
  Capacity <- MaxEntries,
  phase <- [r \in Run |-> IF status[r] \in {"queued", "running"} THEN "active" ELSE status[r]],
  progress <- [r \in Run |-> IF status[r] = "completed" THEN Total ELSE completedCount[r]],
  available <- records

\* Store, workers and handlers together implement the lifecycle: whatever
\* the interleaving, evictions included, a run settles at most once, is
\* given up only for a new one, and is not written to afterwards.
RefinesLifecycle == Lifecycle!Spec
=============================================================================
