------------------------------ MODULE PlanForms ------------------------------
(***************************************************************************)
(* The plan pages of the browser (web/forms.py, routes.py: index, run): a  *)
(* self-serve plan from a symptom and its answers, a support plan from a   *)
(* profile, the run they start, and the links from its results to another  *)
(* plan: Run Again, Continue With Support, Switch to Suggested Plan.       *)
(***************************************************************************)
EXTENDS Intake

CONSTANTS
  Extras,      \* sets of checks an operator adds to a plan
  FaultAreas   \* fault domains of a result

VARIABLES
  page,   \* the plan that the browser shows, Blank when it shows a run
  run     \* the run that it shows, NoRun when it shows a plan

vars == <<page, run>>

NoAnswers == <<>>

Profiles == [no_internet |-> AllChecks \ {"storage", "vpn", "services"},
             dns_issue   |-> {"time", "network", "routing", "dns", "connectivity"},
             internal_service_unreachable |-> AllChecks \ {"host", "resources", "storage"},
             vpn_issue   |-> AllChecks \ {"host", "resources", "storage"},
             device_slow |-> AllChecks \ {"time", "vpn", "services"},
             custom_profile |-> AllChecks]

Blank == [mode |-> "none"]
NoRun == [mode |-> "none", checks |-> {}]

\* A plan page: the guided checks (base), the selected ones, and the checks
\* that a link carried to it
Plan(symptom, answers, selected, carried) ==
  LET base == Scope(IntentOfSymptom[symptom], answers) IN
  [mode |-> "self-serve", symptom |-> symptom, answers |-> answers, base |-> base,
   selected |-> base \union selected, carried |-> carried]

\* The self-serve page on which no symptom is chosen: it has no form to start
\* a run with, and a post without a symptom is refused.
NoSymptom == [mode |-> "self-serve", symptom |-> "none", answers |-> NoAnswers, base |-> {},
              selected |-> {}, carried |-> {}]

\* The symptoms that the page offers; get_symptom_option refuses the sixth
\* that the intake knows.
Offered == DOMAIN IntentOfSymptom \ {"clock_or_cert_errors"}

\* source: the earlier run that the page names (from_run), "none" or "earlier"
SupportPlan(profile, source, selected, carried) ==
  [mode |-> "support", profile |-> profile, source |-> source, base |-> Profiles[profile],
   selected |-> Profiles[profile] \union selected, carried |-> carried]

Init == page = Blank /\ run = NoRun

\* The answers the query string may hold, for the questions of the intent
AnswerSets(intent) ==
  {NoAnswers} \union
  UNION {{answers \in [asked -> UNION {Options[q] : q \in asked}] :
            \A q \in asked : answers[q] \in Options[q]} :
          asked \in (SUBSET QuestionsOf(intent)) \ {{}}}

\* index without a mode: "Choose a Different Path" and the link in the header
ChooseAnotherPath ==
  /\ page # Blank \/ run # NoRun
  /\ page' = Blank /\ run' = NoRun

\* index and query_form_state, in self-serve mode: from the path's card, or
\* with a symptom. An unknown one is answered with the default form, Blank.
OpenPlan ==
  /\ page = Blank /\ run = NoRun
  /\ \/ page' = NoSymptom
     \/ \E symptom \in Offered, extra \in Extras :
          \E answers \in AnswerSets(IntentOfSymptom[symptom]) :
            page' = Plan(symptom, answers, extra, {})
  /\ UNCHANGED run

\* ... and in support mode
OpenSupportPlan ==
  /\ page = Blank /\ run = NoRun
  /\ \E profile \in DOMAIN Profiles, extra \in Extras :
       page' = SupportPlan(profile, "none", extra, {})
  /\ UNCHANGED run

\* Mutant: the plan is enforced over what the operator added.
EnforcedAlways(base, selected, added) == TRUE

\* form_state_from_request, enforce_intake_scope in self-serve mode
Enforced(base, selected, added) == added = {} \/ selected = base

\* What may be ticked beside the locked checks of the plan: those the page has
\* ticked, some more, or all of them
Additions == {(page.selected \union extra) \ page.base : extra \in Extras \union {AllChecks}}

\* syncSelectAllAdditionalCheckControls: the box "select all" is ticked when
\* every check that can be added is.
SelectAll(added) == added # {} /\ page.base \union added = AllChecks

\* submitted_check_selection: with that box, every check there is
Submitted(base, added) == IF SelectAll(added) THEN AllChecks ELSE base \union added

\* run, self-serve: the pending question must be answered; the base is that
\* of the answers posted, the locked checks of the page are not posted, and
\* build_run_options validates the selection.
StartRun ==
  /\ page.mode = "self-serve" /\ page.symptom # "none"
  /\ LET intent  == IntentOfSymptom[page.symptom]
         pending == PendingQuestion(intent, page.answers) IN
     \E added \in Additions,
        answer \in IF pending = "none" THEN {{}} ELSE Options[pending] :
       LET answers  == IF pending = "none" THEN page.answers
                       ELSE [q \in DOMAIN page.answers \union {pending} |->
                               IF q = pending THEN answer ELSE page.answers[q]]
           base     == Scope(intent, answers)
           selected == Submitted(base, added)
           enforce  == Enforced(base, selected, added)
           result   == IF enforce THEN Validated(intent, selected)
                       ELSE [checks |-> selected, decision |-> "not_enforced"] IN
       run' = [mode |-> "self-serve", symptom |-> page.symptom, answers |-> answers,
               asked |-> pending,
               added |-> added, shown |-> page.selected, enforced |-> enforce,
               profile |-> SuggestedProfile(intent, answers),
               checks |-> result.checks, decision |-> result.decision]
  /\ page' = Blank

\* run, support: without an intake context nothing is validated.
StartSupportRun ==
  /\ page.mode = "support"
  /\ \E added \in Additions :
       run' = [mode |-> "support", added |-> added, profile |-> page.profile,
               checks |-> Submitted(page.base, added)]
  /\ page' = Blank

\* optional_record: the earlier run has left the store since the page was
\* rendered. The form comes back with the error and without the run.
SourceIsGone ==
  /\ page.mode = "support" /\ page.source = "earlier"
  /\ \E added \in Additions :
       page' = SupportPlan(page.profile, "none", Submitted(page.base, added), page.carried)
  /\ UNCHANGED run

ProfileNames ==
  [no_internet |-> "no-internet", dns_issue |-> "dns-issue",
   internal_service_unreachable |-> "internal-service-unreachable", vpn_issue |-> "vpn-issue",
   device_slow |-> "device-slow", custom_profile |-> "custom-profile"]

Named(name) == CHOOSE key \in DOMAIN ProfileNames : ProfileNames[key] = name

\* Mutant: Run Again opens the guided plan.
RerunGuided(r) == {}

\* rerun_url: the checks of the run; the answers are not among the parameters.
RerunChecks(r) == r.checks

\* rerun_url, followed from the progress or the results page
RunAgain ==
  /\ run # NoRun
  /\ page' = IF run.mode = "self-serve" THEN Plan(run.symptom, NoAnswers, RerunChecks(run), run.checks)
             ELSE SupportPlan(run.profile, "none", RerunChecks(run), run.checks)
  /\ run' = NoRun

\* suggest_support_profile_id; INTENT_BY_SYMPTOM knows five symptoms.
SupportProfile(area, symptom, current) ==
  CASE area = "dns" -> "dns_issue" [] area = "vpn" -> "vpn_issue"
    [] area = "local_host" -> "device_slow"
    [] area = "upstream_network" -> "internal_service_unreachable"
    [] area \in {"local_network", "internet_edge"} -> "no_internet"
    [] area = "healthy" ->
         CASE symptom = "internet_not_working" -> "no_internet"
           [] symptom = "apps_sites_not_loading" -> "internal_service_unreachable"
           [] symptom = "vpn_or_company_resource_issue" -> "vpn_issue"
           [] symptom = "device_feels_slow" -> "device_slow"
           [] symptom = "something_else" -> "custom_profile"
           [] OTHER -> current

\* support_bridge_url: merge_checks of the profile and of the run
BridgeChecks(profile, r) == Profiles[profile] \union r.checks

\* The link from the results of a self-serve run to the support path; the
\* support page offers the suggested profile by the same link. A completed run
\* that has left the store since (optional_record) leads to the default form.
ContinueWithSupport ==
  /\ run # NoRun /\ run.mode = "self-serve"
  /\ \/ \E area \in FaultAreas :
          LET profile == SupportProfile(area, run.symptom, Named(run.profile)) IN
          page' = SupportPlan(profile, "earlier", BridgeChecks(profile, run), run.checks)
     \/ page' = Blank
  /\ run' = NoRun

Next ==
  \/ ChooseAnotherPath \/ OpenPlan \/ OpenSupportPlan
  \/ StartRun \/ StartSupportRun \/ SourceIsGone
  \/ RunAgain \/ ContinueWithSupport

Spec == Init /\ [][Next]_vars
-----------------------------------------------------------------------------
SelfServeRun == run # NoRun /\ run.mode = "self-serve"

\* Once every question of an intent is answered a pathway is selected,
\* whichever answers came first and however little they say.
\* (clarification.py: apply_answer)
EveryAnswerSetDecides ==
  page.mode = "self-serve" /\ Cardinality(DOMAIN page.answers) = 2 =>
    LET context == Context(IntentOfSymptom[page.symptom], page.answers) IN
    context.status = "ready" /\ context.pathway # "none"

\* A run whose scope is enforced stays inside the checks of its intent and is
\* never smaller than the intent's minimum, whatever pathway the answers chose.
\* (validator.py)
EnforcedRunIsInBounds ==
  SelfServeRun /\ run.enforced =>
    LET policy == Policies[IntentOfSymptom[run.symptom]] IN
    run.checks \subseteq policy.allowed /\ Cardinality(run.checks) >= policy.minimum

\* What a link carries from an earlier run is run again: neither the answers
\* that are lost on the way nor the validator drop a check of that run.
\* (forms.py: rerun_url, support_bridge_url, query_form_state, run)
CarriedChecksAreRun ==
  [][page # Blank /\ run' # NoRun => page.carried \subseteq run'.checks]_vars

\* What the operator adds to a plan is run, unless an answer given with it
\* changes the plan under the addition. (forms.py: form_state_from_request)
AdditionsAreRun ==
  (run # NoRun /\ (SelfServeRun => run.asked = "none")) => run.added \subseteq run.checks
=============================================================================
