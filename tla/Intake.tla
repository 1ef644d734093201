-------------------------------- MODULE Intake --------------------------------
(***************************************************************************)
(* The intake contract of the self-serve path: the questions and pathways  *)
(* of each intent (intake/catalog.py), the clarification engine that picks *)
(* a pathway from the answers (clarification.py), the checks of a pathway  *)
(* (domain_mapper.py) and the validator of a scope (validator.py). A word  *)
(* stands for a token; only words that an answer may contribute are kept.  *)
(***************************************************************************)
EXTENDS Naturals, Sequences, FiniteSets

Checks == <<"host", "time", "resources", "storage", "network", "routing", "dns", "connectivity",
            "vpn", "services">>

AllChecks == {Checks[i] : i \in DOMAIN Checks}

IntentOfSymptom ==
  [internet_not_working          |-> "internet_connectivity_loss",
   apps_sites_not_loading        |-> "partial_access_or_dns",
   vpn_or_company_resource_issue |-> "vpn_or_private_resource_access",
   device_feels_slow             |-> "local_performance_degradation",
   something_else                |-> "general_triage",
   clock_or_cert_errors          |-> "clock_or_trust_failure"]

Intent(questions, pathways) == [questions |-> questions, pathways |-> pathways]

\* The intents of the catalog that a symptom leads to
Intents ==
  [internet_connectivity_loss |->
     Intent(<<"scope", "network_change">>, <<"baseline_connectivity", "edge_network_path">>),
   partial_access_or_dns |->
     Intent(<<"scope", "dns_error">>, <<"resolver_and_routing", "service_specific_probe">>),
   vpn_or_private_resource_access |->
     Intent(<<"vpn_state", "scope">>, <<"vpn_path", "service_specific_probe">>),
   local_performance_degradation |->
     Intent(<<"pattern", "network_change">>, <<"host_health_path", "baseline_connectivity">>),
   clock_or_trust_failure |->
     Intent(<<"dns_error", "scope">>, <<"time_and_trust_path", "resolver_and_routing">>),
   general_triage |->
     Intent(<<"scope", "pattern">>, <<"baseline_connectivity", "host_health_path">>)]

\* The options of each question, by their words
Options ==
  [scope          |-> {{"all", "and"}, {"some"}, {"company", "resources"}},
   network_change |-> {{"yes"}, {"no"}, {"unsure"}},
   vpn_state      |-> {{"vpn", "disconnected"}, {"vpn", "no", "access"}, {"vpn", "unstable"}},
   pattern        |-> {{"always", "slow"}, {"slow", "load"}, {"intermittent"}},
   dns_error      |-> {{"dns", "name"}, {"certificate", "time"}, {"no", "explicit"}}]

Pathway(profile, domains, words) == [profile |-> profile, domains |-> domains, words |-> words]

\* The refined pathways; words are those of the key, label and profile.
Pathways ==
  [baseline_connectivity |->
     Pathway("no-internet", {"network", "routing", "dns", "connectivity"},
             {"connectivity", "and", "no"}),
   edge_network_path |->
     Pathway("no-internet", {"network", "routing", "connectivity"}, {"network", "and", "no"}),
   resolver_and_routing |->
     Pathway("dns-issue", {"dns", "routing", "connectivity"}, {"resolver", "routing", "and", "dns"}),
   service_specific_probe |->
     Pathway("internal-service-unreachable", {"connectivity", "services", "dns"}, {"and"}),
   vpn_path |->
     Pathway("vpn-issue", {"network", "routing", "vpn", "services"}, {"vpn", "and"}),
   host_health_path |->
     Pathway("device-slow", {"host", "resources", "storage"}, {"host", "and", "slow"}),
   time_and_trust_path |->
     Pathway("custom-profile", {"time", "dns", "connectivity"}, {"time", "and"})]

\* _derived_answer_hints
HintTable ==
  {[words |-> {"dns", "name"}, hints |-> {"resolver", "routing"}],
   [words |-> {"certificate", "time", "clock"}, hints |-> {"time", "dns"}],
   [words |-> {"company", "vpn", "private", "resource", "resources"}, hints |-> {"vpn", "services"}],
   [words |-> {"all", "internet"}, hints |-> {"network", "connectivity"}],
   [words |-> {"slow", "load", "intermittent", "always"}, hints |-> {"host", "resources"}]}

Hints(answer) == UNION {row.hints : row \in {r \in HintTable : r.words \intersect answer # {}}}

\* _score_pathways
Score(answer, key) ==
  Cardinality((answer \union Hints(answer)) \intersect (Pathways[key].words \union Pathways[key].domains))

PathwaysOf(intent) == {Intents[intent].pathways[i] : i \in DOMAIN Intents[intent].pathways}

\* The pathways of the intent that an answer speaks for most; none when it
\* has no word of any of them
Best(intent, answer) ==
  LET scores == [p \in PathwaysOf(intent) |-> Score(answer, p)] IN
  {p \in DOMAIN scores : scores[p] > 0 /\ \A q \in DOMAIN scores : scores[q] <= scores[p]}

QuestionsOf(intent) == {Intents[intent].questions[i] : i \in DOMAIN Intents[intent].questions}

\* build_question_set: the two questions of the intent. Those that remain are
\* a set; they are asked in the order of the catalog.
Questions(intent) == [status |-> "needs_clarification", pathway |-> "none",
                      reason |-> "awaiting_answers", remaining |-> QuestionsOf(intent)]

\* _with_pathway
WithPathway(pathway, remaining, reason) ==
  [remaining |-> remaining, pathway |-> pathway, reason |-> reason,
   status |-> IF remaining = {} THEN "ready" ELSE "needs_clarification"]

\* The question stays open.
Undecided(context, remaining, reason) ==
  [context EXCEPT !.remaining = remaining, !.status = "needs_clarification", !.reason = reason]

\* Mutant: an answer that decides nothing never falls back.
DecideWithoutFallback(context, best, remaining, default) ==
  IF Cardinality(best) = 1 THEN WithPathway(CHOOSE p \in best : TRUE, remaining, "pathway_selected")
  ELSE Undecided(context, remaining, "answer_uninformative")

\* What an answer decides: nothing when no pathway or several are best and
\* another question remains, else the best or the default pathway
Decide(context, best, remaining, default) ==
  CASE Cardinality(best) = 1 ->
         WithPathway(CHOOSE p \in best : TRUE, remaining, "pathway_selected")
    [] Cardinality(best) # 1 /\ remaining = {} ->
         WithPathway(default, remaining,
                     IF best = {} THEN "fallback_default_pathway" ELSE "ambiguous_fallback")
    [] Cardinality(best) # 1 /\ remaining # {} ->
         Undecided(context, remaining,
                   IF best = {} THEN "answer_uninformative" ELSE "ambiguous_answer")

\* apply_answer
ApplyAnswer(context, intent, question, answer) ==
  Decide(context, Best(intent, answer), context.remaining \ {question}, Intents[intent].pathways[1])

\* clarification_context_from_submission: the submitted answers, in the order
\* of the questions; there is no context until one is answered.
Context(intent, answers) ==
  LET questions == Intents[intent].questions
      Answered(context, q) == IF q \in DOMAIN answers THEN ApplyAnswer(context, intent, q, answers[q])
                              ELSE context IN
  Answered(Answered(Questions(intent), questions[1]), questions[2])

\* The pathway the answers have selected, the default without a context
Selected(intent, answers, default) ==
  LET Chosen(context) == IF context.pathway = "none" THEN default ELSE context.pathway IN
  IF answers = <<>> THEN default ELSE Chosen(Context(intent, answers))

\* map_intake_to_scope, its checks
Scope(intent, answers) ==
  Pathways[Selected(intent, answers, Intents[intent].pathways[1])].domains

SuggestionOfIntent ==
  [internet_connectivity_loss |-> "no-internet", partial_access_or_dns |-> "dns-issue",
   vpn_or_private_resource_access |-> "vpn-issue", local_performance_degradation |-> "device-slow",
   clock_or_trust_failure |-> "custom-profile", general_triage |-> "custom-profile"]

\* ... and its suggested profile
SuggestedProfile(intent, answers) ==
  LET ProfileOf(pathway) == IF pathway = "none" THEN SuggestionOfIntent[intent]
                            ELSE Pathways[pathway].profile IN
  ProfileOf(Selected(intent, answers, "none"))

\* clarification_template_state: the prompt shown, none before any answer
PendingQuestion(intent, answers) ==
  LET questions == Intents[intent].questions
      First(remaining) ==
        CASE remaining = {} -> "none"
          [] questions[1] \in remaining -> questions[1]
          [] remaining # {} /\ questions[1] \notin remaining -> questions[2] IN
  IF answers = <<>> THEN "none" ELSE First(Context(intent, answers).remaining)

Policy(allowed, baseline, focus, minimum) ==
  [allowed |-> allowed, baseline |-> baseline, focus |-> focus, minimum |-> minimum]

\* _INTENT_POLICIES
Policies ==
  LET path == {"network", "routing", "dns", "connectivity"} IN
  [internet_connectivity_loss |->
     Policy(path \union {"services"}, <<"network", "routing", "dns", "connectivity">>, {"network"}, 2),
   partial_access_or_dns |->
     Policy(path \union {"services"}, <<"dns", "routing", "connectivity", "services">>,
            {"dns", "routing"}, 2),
   vpn_or_private_resource_access |->
     Policy(path \union {"vpn", "services"}, <<"network", "routing", "vpn", "services", "dns">>,
            {"vpn", "routing"}, 3),
   local_performance_degradation |->
     Policy({"host", "resources", "storage", "time", "services"}, <<"host", "resources", "storage">>,
            {"resources", "storage"}, 2),
   clock_or_trust_failure |->
     Policy({"time", "dns", "connectivity", "network"}, <<"time", "dns", "connectivity", "network">>,
            {"time"}, 2),
   general_triage |->
     Policy(path \union {"host", "resources"},
            <<"host", "network", "routing", "dns", "connectivity", "resources">>, {"host"}, 3)]

\* Mutant: the filtered selection is not completed.
NotExpanded(selected, policy) == selected

\* _expand_to_minimum: the baseline checks selected, then others in order
\* until there are enough
Expanded(selected, policy) ==
  LET Kept(k)  == {policy.baseline[i] : i \in {j \in DOMAIN policy.baseline :
                                                policy.baseline[j] \in selected \/ j <= k}}
      enough   == {k \in 0..Len(policy.baseline) : Cardinality(Kept(k)) >= policy.minimum}
      shortest == CHOOSE k \in enough : \A l \in enough : k <= l IN
  Kept(shortest)

\* validate_intake_selected_checks
Validated(intent, checks) ==
  LET policy   == Policies[intent]
      filtered == checks \intersect policy.allowed IN
  CASE filtered # {} /\ filtered = checks /\ filtered \intersect policy.focus # {}
         /\ Cardinality(filtered) >= policy.minimum ->
         [checks |-> filtered, decision |-> "approved"]
    [] filtered # {} /\ ~(filtered = checks /\ filtered \intersect policy.focus # {}
                            /\ Cardinality(filtered) >= policy.minimum) ->
         [checks |-> Expanded(filtered, policy), decision |-> "adjusted_conservative"]
    [] filtered = {} ->
         [checks |-> {policy.baseline[i] : i \in DOMAIN policy.baseline},
          decision |-> "fallback_baseline"]
=============================================================================
