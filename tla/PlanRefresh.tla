----------------------------- MODULE PlanRefresh -----------------------------
(***************************************************************************)
(* The self-serve page of the browser (static/app.js): choosing a symptom  *)
(* fetches its plan and puts it in the place of the one shown, while the   *)
(* operator may choose again, start the plan shown or leave. A refresh     *)
(* that fails opens the full page a moment later.                          *)
(***************************************************************************)
EXTENDS PlanForms

CONSTANT MaxSelections   \* bound on the choices made on one page

ASSUME MaxSelectionsAssumption == MaxSelections \in Nat

VARIABLES
  checked,     \* the radio button of the symptom form
  requests,    \* symptoms of the plan requests under way, oldest first; "none"
               \* when the form was submitted with no button chosen
  timers,      \* symptoms of the fallback navigations that wait
  loading,     \* is the loading notice of the plan region shown?
  selections   \* choices made since the page was loaded

refreshVars == <<checked, requests, timers, loading, selections>>

\* A page that the server renders; requests and timers of the old one end
\* with it.
Loaded ==
  /\ checked' = IF page'.mode = "self-serve" THEN page'.symptom ELSE "none"
  /\ requests' = <<>>
  /\ timers' = {}
  /\ loading' = FALSE
  /\ selections' = 0

RefreshInit == /\ Init /\ checked = "none" /\ requests = <<>>
               /\ timers = {} /\ loading = FALSE /\ selections = 0

\* Mutant: the request before is left to answer.
NotAborted(active) == active

\* activePlanRequest.abort(): its AbortError is ignored.
Aborted(active) == <<>>

\* A radio button changes or the form is submitted: refreshSelfServePlan
RefreshSelfServePlan ==
  /\ page.mode = "self-serve" /\ selections < MaxSelections
  /\ \E symptom \in Offered \union {checked} :
       /\ checked' = symptom
       /\ requests' = Append(Aborted(requests), symptom)
  /\ loading' = TRUE
  /\ selections' = selections + 1
  /\ UNCHANGED <<page, run, timers>>

Without(i) == SubSeq(requests, 1, i - 1) \o SubSeq(requests, i + 1, Len(requests))

\* The plan arrives. The symptom form sends no answers and no checks; without
\* a symptom the request is refused.
PlanArrives ==
  /\ \E i \in DOMAIN requests :
       /\ requests[i] # "none"
       /\ page' = Plan(requests[i], NoAnswers, {}, {})
       /\ requests' = Without(i)
  /\ loading' = FALSE
  /\ UNCHANGED <<run, checked, timers, selections>>

\* An error status or a lost connection: the full page is opened in 180 ms,
\* whatever is chosen until then.
RefreshFails ==
  /\ \E i \in DOMAIN requests :
       /\ timers' = timers \union {requests[i]}
       /\ requests' = Without(i)
  /\ UNCHANGED <<page, run, checked, loading, selections>>

\* window.location.assign(destination)
FallbackNavigates ==
  /\ \E symptom \in timers :
       page' = IF symptom = "none" THEN NoSymptom ELSE Plan(symptom, NoAnswers, {}, {})
  /\ UNCHANGED run
  /\ Loaded

RefreshNext ==
  \/ Next /\ Loaded
  \/ RefreshSelfServePlan \/ PlanArrives \/ RefreshFails \/ FallbackNavigates

RefreshSpec == RefreshInit /\ [][RefreshNext]_<<vars, refreshVars>>
-----------------------------------------------------------------------------
\* When no answer and no fallback is outstanding, the plan on the page is
\* that of the symptom the form shows as chosen, and no notice is left of its
\* loading: neither a late answer nor a late fallback parts the two halves
\* of the page. (app.js: refreshSelfServePlan, which keeps them apart;
\* _self_serve_plan.html posts the symptom of its own half)
PlanFollowsSelection ==
  page.mode = "self-serve" /\ requests = <<>> /\ timers = {} =>
    page.symptom = checked /\ ~loading
=============================================================================
