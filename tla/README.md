# Occam's Beard: verification project

TLA+ models of the parts of Occam's Beard in which order, interleaving, time or
a crash decides whether the program is right, the TLC runs that check them on
small instances, and proofs, checked by TLAPS, of the properties that matter
most for every value of the constants.

Paths below are relative to `src/src/occams_beard/`.

## 1. The system

Occam's Beard runs local diagnostics and presents the result in a command line,
a localhost web interface, a report, JSON and a support bundle. One *runner*
executes a *plan* of domains (host, time, resources, storage, network, routing,
dns, connectivity, services, vpn) over a mutable *run context*; the web
interface starts each run in a thread of its own and keeps the sessions in a
shared *store*; an operator *launcher* starts the web server, opens a browser
and stops the server when the browser is gone.

| Part | State it keeps | Operations | Who it talks to |
|---|---|---|---|
| Session store `web/sessions.py` | ordered dictionary of sessions, one lock | `create`, `get`, `get_completed`, `update_progress`, `complete`, `fail` | handlers and run threads, at once |
| Run thread `web/sessions.py` | position in `_run_session` | look up, execute with a progress callback, complete or fail | store, runner |
| Handlers `web/routes.py`, view `web/progress.py` | the session object `get` returned, read later without the lock | `POST /run`, `GET /runs`, `/runs/../status`, `/results`, downloads, presence posts | store, tracker, pages |
| Page `static/app.js` | poll timer, heartbeat timer, one-shot closing flag, plan request | poll and apply, heartbeat, closing beacon, plan refresh | handlers |
| Presence tracker and loop `launcher.py` | last heartbeat, last closing request, start time, one lock | `record_heartbeat`, `record_page_closing`, `should_shutdown` | pages through handlers, main thread |
| Runner and context `runner.py`, `run_context.py` | completed domains, steps per domain, facts, warnings | one domain after the other, progress callbacks | registry, collectors, thread |
| Registry `domain_registry.py` | none; execution order, step labels, what each domain reads and sets | `build_execution_plan`, `_execute_*` | context, collectors |
| Execution records `execution.py` | none; a function of options, context and facts | `build_execution_records`, `planned_execution_step_count` | context, store, view |
| Collectors, platform, parsers | none | commands, sockets, files | operating system |
| Name resolution `utils/resolution.py` | a thread per call | resolve within a timeout | collectors |
| Command capture `utils/subprocess.py` | a context variable holding the capture | run, record | collectors |
| Support bundle and validator | files on disk | build, write, validate | privacy, report, CLI, web |
| Privacy `privacy.py` | alias tables of one redactor | redact text, data, raw commands | bundle |
| Intake `intake/` | an immutable clarification context | resolve intent, ask, apply an answer, validate a scope | forms |
| Findings `findings*.py` | none; a function of the facts | evaluate, rank | result |
| Profiles, storage policy, forms, presentation, report, CLI | none that outlives a call | | |

Behaviour that is hard to test:

- Sessions are written under the lock but read without it. `complete` even calls
  another function between its assignments, so a handler can run in the middle.
- The store evicts; a thread may work for a run that is no longer there, and a
  page may poll one.
- The launcher reads the clock before it takes the tracker's lock; heartbeats,
  beacons and navigations of several tabs race one another and the grace periods.
- Three modules count the steps of a run independently.
- The execution order of the domains matters because one replaces an object that
  another writes into.
- A bundle is written file by file; a crash leaves a part of it, and a directory
  that exists is written into.
- A domain puts several checks together, each of which may fail, time out or be
  unsupported on its own; its status must say neither more nor less.
- Some thirty rules are evaluated independently over the same facts, and their
  findings are ranked, filtered and cut.
- A plan travels through query strings, posts and asynchronous refreshes; what is
  run may differ from what was reviewed.
- Volumes that share a container are measured one after the other while other
  programs write.

`PROJECT.json` lists each of these hazards at its line, with the properties that
would catch it, and every component with what is and is not modelled of it.

What makes each part correct: a reader of a session never sees half of a
completion; progress only advances; a run settles once; only idle runs are
evicted; step counts agree; no domain destroys the facts of another; the server
stops after the last page is gone and never under a page that is in use; a bundle
that validates is the bundle that was built; the status of a domain is that of its
checks; findings do not contradict each other and none hides a problem; a run
executes the plan that was shown and stays in the bounds of its intent.

## 2. Modules

Sessions, pages and presence:

### RunSessions, RunLifecycle, MCRunSessions, RunSessions_proofs

`RunSessions` is the store, the run threads, the handlers and the polling pages.

| State | Code |
|---|---|
| `records`, `newer` | `RecentRunsStore._records`: its keys, and for each key the keys after it |
| `lock` | `_lock`, when an operation is split in two; every other store operation is one action |
| `status`, `activeDomain`, `completedCount`, `hasResult`, `hasJson`, `hasError`, `previous` | fields of `RunSession`; data reduced to "is it set" |
| `worker` | the position of `_run_session` |
| `shows`, `target`, `request`, `step`, `read`, `shown` | a tab: what it displays, the request it waits for, how far the handler is, the count the handler has read and the count on display |
| `told`, `usedSince` | history variables for properties only |

A store operation is one action because it runs under the lock. `complete` is two
(`CompleteBegin`, `CompleteFinish`): it calls `planned_execution_step_count`
between its assignments, and CPython (3.11 and later) switches threads only at
calls and at loop jumps, so the assignments before that call are one step and a
handler without the lock may run before the rest. A handler is a lookup (`Found`,
`NotFound`) followed by its reads, cut where a call separates them: `/runs` is
`CheckRun` and `RenderRun`, the status view is `ReadCounts` and `RespondStatus`.
`/results` and the downloads read fields that do not change once they are set,
so they are one action each. `POST /run` answers 400 without touching any state;
that path is left out. `to_json_text` is assumed not to raise.

`RunLifecycle` is what a client may rely on: a run is active, then completed or
failed, once; progress advances; only a new run makes an old one unavailable; a
run that is unavailable does not change. `RunSessions` implements it under the
mapping at its end: an evicted run is unavailable, and a run counts as completed,
with the full count, from `CompleteBegin` on.

### BrowserPresence, MCBrowserPresence, BrowserPresence_proofs

The tracker, the launcher's loop, the heartbeat script of the pages and the
requests under way. Time is discrete and kept as ages: where the code stores a
time, the model keeps how long ago it was, and stops counting where no comparison
tells larger ages apart. `should_shutdown` is two actions, `ReadClock` and
`Decide`, because it reads the clock before it takes the lock. `Ordered` says
whether presence requests are handled in the order sent: true of the launcher's
single-threaded `make_server`, false of a threaded server. `Downloads` says
whether users download artifacts: a browser fires `beforeunload` for such a link
although the page stays. `Restores` says whether the browser may bring a page back
from its back-forward cache: the script resumes with `stopped` still set and sends
nothing. Closing is modelled with one beacon; an interrupt from the keyboard is
left out.

One run:

### DiagnosticsRun, DiagnosticsRun_proofs

The plan, the loop, the context. `options` are chosen once, from every
selection of domains and every combination of the flags that change counts
(`build_run_options` leaves none of the lists empty). `RecordDomainProgress` is a
progress callback of a collector, `CompleteDomain` the end of `_execute_<domain>`
with `complete_domain`; both emit a report as `emit_progress` does, with the
records of `build_execution_records`. `StepCount` counts planned labels,
`Callbacks` the calls the collectors make, `PlannedExecutionStepCount` what the
web interface shows at the end: three translations of three places. `SetFacts`
keeps which facts of the network state are there, enough to tell whether a later
domain overwrote them. `Raise` may happen at any point. The plan is the set of the
places of the selected domains in `REGISTERED_DOMAINS`, `position` the place of the
loop in it; `NextSelectedDomain` looks for the first open place as the code does,
and never at `position`, so that the two can disagree in the model too.

### ExecutionRecords, CollectorState, NetworkDomains, LocalDomains, StoragePolicy, Collection, MCCollection, StoragePolicy_proofs, Collection_proofs

What happens inside a domain, and what the result says of it. `DiagnosticsRun`
shows in which order domains run; here a behaviour is one collector, from its
first command to the execution record of its domain.

| Module | Code |
|---|---|
| `CollectorState` | the variables: the domain and platform, the options the collector reads, its position, facts and warning codes; for the storage also the capacity and free space of each container |
| `NetworkDomains` | collectors of network, routing, dns, connectivity, services, vpn; the probes and statuses `execution.py` derives for them; the planned step labels |
| `LocalDomains` | collectors of host, resources, time, storage; their probes and statuses |
| `ExecutionRecords` | `_aggregate_probe_statuses`, `_status_from_collection` |
| `StoragePolicy` | roles, levels, capacity groups, representatives and incidents |
| `Collection` | the composition, and its properties |

A command is its outcome: it succeeded or not, and its parser found data or not.
Commands with a fallback take two results (`WithFallback`). A collector that calls
a progress callback is cut at each call; a loop over targets, names or volumes has
one action per turn, which is where `OtherProgramsUseSpace` may come in between
two volumes. An exception that no handler names ends the collector (`"raised"`).
The record of a domain is an operator on what was collected, as in the code.
`sorted` over the volumes is a permutation (`SortingOrders`): it orders them by
`_disk_sort_key` and keeps the order of equal ones.

### NetworkFindings, HostFindings, FindingsRun, Guidance, MCFindings, Findings_proofs

The rules. `NetworkFindings` and `HostFindings` hold each rule as an operator from
facts to a sequence of findings (`...Rule`), with its guards, severity, area and
confidence, and each evaluation function as the concatenation of its rules. A rule
gives at most one finding, but for the three that loop: one about space for each
capacity group under pressure, one for each trace that stopped on the way, one for
each VPN signal. A VPN signal is what `collect_vpn_state` builds from interfaces and
routes, so `DetectVpn` reads the facts that earlier actions left, defaults included.
Of an interface the facts say whether it is listed, up, has an address, has one that
is not link-local (`usable`), and whether its type is inferred to be a tunnel
(`Hinted`) or its name begins with utun (`Utuns`); of the routes how many
inconsistencies were observed. Devices are a sequence, since two failing ones are two
lines of evidence and one is a thin finding (`Thin`).
`FindingsRun` collects the selected domains (`todo`) in the order of the registry
(`Order`) and then evaluates the gated rules in one step, as
`evaluate_selected_findings` does. The findings stay in the order of the rules;
`Before` is the stable sort of `_finalize_findings`, and what is read of the sorted
list is its first element (`FaultDomain`) and, in `Guidance`, the first three that
pass the filter of `build_guided_experience` (`Kept`, `Explained`).
Texts are left out. Ratios are percentages; 9999 stands for None.

The browser's plan pages:

### Intake, PlanForms, PlanRefresh, PlanRefresh_proofs

`Intake` holds the catalog as data and the functions on it: `ApplyAnswer` is
`apply_answer`, `Scope` is `map_intake_to_scope`, `Validated` is
`validate_intake_selected_checks`. Answers and pathways are sets of words, since
scores count common tokens; words that can match nothing are left out. The remaining
questions of a context are a set; their order is that of the catalog, in which
`PendingQuestion` takes the first.

`PlanForms` is what a browser and the stateless handlers do together: `page` is the
plan on display with what its form and links carry, `run` the run on display.
`OpenPlan` and `OpenSupportPlan` read a query string, `StartRun` and
`StartSupportRun` are `POST /run`, `RunAgain` and `ContinueWithSupport` follow the
links of a result page. `NoSymptom` is the self-serve page on which nothing is chosen
yet; the page offers five of the six symptoms the intake knows, and the sixth is
refused (`Offered`). Of the checks that an operator may add (`Additions`) "select all"
is the case in which all are ticked, because the script keeps that box in step with
them; it then posts every check, whatever the answer makes of the plan (`Submitted`).
A support page names the run it comes from, which the store may have evicted:
`SourceIsGone` is the form that comes back with the error, and `ContinueWithSupport`
may meet the same. Matching of free text to an intent and the parsing of
target and host fields are left out.

`PlanRefresh` adds the script of the self-serve page: the checked radio button
(`checked`), plan requests under way (`requests`), fallback navigations that wait
for their 180 ms (`timers`), the loading notice. A new choice aborts the request
before; an answer replaces the plan region; a failure starts a timer that nothing
cancels. A navigation is one step, and it ends the requests and timers of the page
it leaves.

Support bundles:

### SupportBundle, SupportBundle_proofs

One output path, a directory or an archive, and the exports written to it.
`bundle` is what lies on disk: each member is absent, partial (opened and not
written to its end) or made from a request, that is from a result, a level and,
for the redaction report, the artifacts it accounts for. `Order` is the order of
writing: a directory gets its manifest last, an archive takes its members sorted
by name, the manifest first. `Begin` keeps the files of a directory and truncates
an archive; `OpenMember` and `WriteMember` are the two halves of a write; `Abort`
is an exception or a kill at any point, and on an exception the archive may still
be closed (`sealed`) by its `with` statement, incomplete. Requests repeat without
bound. The validator changes nothing, so it is an operator, `Verdict`, on what is
on disk at any moment. SHA-256 is taken to tell files apart; raw commands are
taken to hold a value that is replaced; the format and schema versions, constants
of one program, are left out.

## 3. Runs

| Run | Instance | What it shows |
|---|---|---|
| `sessions` | 1 tab, 2 runs, store of 1, 2 steps, fair | readers without the lock never see half a completion; no redirect loop; no 409 on a results page; displayed progress never goes back; runs settle and pages stop polling; refinement of `RunLifecycle` |
| `eviction` | 1 tab, 3 runs, store of 2 | bound and order of the store; only a run idle for longest is evicted |
| `diagnostics` | every selection and option, up to 2 targets and 2 hosts | counts agree, reports are consistent, facts survive |
| `presence_one_tab` | 1 tab, fair | the server stops after the page is gone and only then; it does stop |
| `presence_tabs` | 2 tabs, downloads, restored pages, requests out of order | a closing request is always the latest event; the idle timeout never hits a page that sends heartbeats |
| `bundle` | 2 results, one with a raw capture; every level; any number of exports | an accepted bundle is one whole export; a finished export is accepted unless old raw commands lie beside it |
| `collection` | 10 domains, 4 platforms, 1 or 2 targets and names, 2 containers, 1 change by other programs | a status says neither more nor less than what its record reads of what was collected (two answers are not read: section 4); each check is shown under its target, or that of the first target on its host, and announced in order; volumes make the right incidents |
| `findings` | eight selections, every fact they can collect (705,351 states) | what one finding says no other denies, but for five named kinds of pairs; no trouble is called healthy; the guided summary covers the fault domain and the problems of its scope |
| `plans` | the five symptoms on offer and the page without one, every set of answers, 3 sets of added checks and all checks, 2 refreshes per page (14,388 states) | the plan shown is that of the chosen symptom; an enforced run is in the bounds of its intent; additions and carried checks are run |
| `presence_close_one`, `bundle_validator`, `findings_outage` | as above | violations: see Findings |

Bounds. A store of one or two and one run more than fits is enough to evict a run
that is being executed, watched, or named as a previous run. One tab is enough for
`sessions`, because tabs share nothing but the store, which the threads change
under a tab's hands anyway; the proofs cover any number of tabs. The eviction order
does not depend on counts, so that run has `Total = 0`. A previous run named by a
form is drawn from the stored runs: one that is evicted is as good as none. Two
targets and two hosts tell "one per target" from "one"; the pair of targets on one
host is there because records find a ping by host. The presence times are scaled so
that the order of all sums the code compares is kept (heartbeat 15 s, idle 90 s,
grace 5 s, startup 60 s, delays and loading below a second); `MaxMail` bounds the
requests under way and holds a new one back until one is handled. Capacities count
512 MiB, so that the floors of the policy (512 MiB, 1, 10 and 15 GiB) are 1, 2, 20
and 30; `Frees` holds values on both sides of every percentage and floor. One change
by other programs (`MaxActivity`) suffices to make two measurements of one container
differ. The selections of `MCFindings` are those of shipped profiles and of intake
plans; their facts hold both sides of each threshold that a rule compares with. Two
refreshes (`MaxSelections`) let one be late, superseded or failed while the other is
under way. `Extras` are no check, one inside and one outside most intents.

Runs and tabs are interchangeable, so symmetry is used for safety and never with
fairness. Deadlock is checked for the sessions, the collectors, the findings, the
plans and the bundle; a run of `DiagnosticsRun` returns and a server stops, so these
two models end.

Fairness. Run threads are scheduled, an executor returns or raises because each
of its collectors has a timeout, handlers answer, an open page polls: weak
fairness on each. Nothing is assumed of users, of progress callbacks or of the
order in which threads get the lock beyond that. For the presence: time passes,
requests are handled, page timers fire, the launcher's loop runs. The other models
state safety only.

## 4. Findings

With a run that TLC finds violated:

- Closing one of two tabs stops the server five seconds later unless the other
  tab happens to send its 15-second heartbeat in between, although the option is
  described as stopping "after the last browser page is closed"
  (`launcher.py:138`, `launcher.py:238`). Run `presence_close_one`.
- The validator fails with `KeyError` on an archive with a manifest but no
  `result.json`, as an interrupted export leaves it. Run `bundle_validator`.
- An endpoint with a default route on which every lookup and every TCP check failed
  is reported as healthy: the rule about failed TCP checks needs a lookup that
  worked, the one about failed lookups a TCP check that worked. The only finding is
  the baseline, "No major diagnostic findings detected". Run `findings_outage`, of the
  category "no internet".

Met while modelling, each a disagreement of the code with a document or a comment.
The properties of the passing runs make an exception for them where they would
fail:

| Where | What the code does | What is said |
|---|---|---|
| `execution.py:414` | interfaces unsupported and no ARP warning: network is partial | `result-schema.md:83` |
| `execution.py:550` | two targets on one host both show its first ping and trace | `result-schema.md:80` |
| `collectors/system.py:230` | macOS: `vm_stat` fails without a warning, the snapshot passes | `platform-notes.md:6` |
| `collectors/time.py:232` | a clock reference that breaks off ends the run | `finding-rules.md:66` |
| `storage_policy.py:176` | volumes of one container measured at two times make two incidents | `finding-rules.md:77` |
| `findings_resources.py:646` | "no connectivity failure" without a connectivity check | `finding-rules.md:8` |
| `findings_network.py:62` | "no default route" when the routes could not be read | `finding-rules.md:8` |
| `findings_network.py:270` | `partial-trace` has no next actions | `finding-rules.md:15`, `:27` |
| `web/forms.py:728` | the first question is shown only after another answer | `diagnostic-model.md:105` |
| `web/forms.py:186` | a plan with added checks is not validated | `diagnostic-model.md:85` |
| `intake/validator.py:116` | the recommended plan of general triage is replaced | `_self_serve_plan.html:109` |
| `intake/clarification.py:133` | an answer may add checks | `_self_serve_plan.html:46` |
| `support_bundle.py:113` | an older `raw-commands.json` stays and makes the bundle invalid | `support-workflow.md:59` |
| `support_bundle.py:40` | replacements in the raw commands are not counted | `support-workflow.md:58` |
| `static/app.js:206` | a download ends the heartbeats of the page that stays | `launcher.py:138` |
| `static/app.js:165` | a page restored from the back-forward cache sends no heartbeats | `launcher.py:138` |
| `findings_resources.py:693` | memory of which 9 or 10 percent are free is "high" and yet no pressure, unless swap or commit figures are there | `finding-rules.md:36` |
| `connectivity.py:71` | `internet_reachable` counts private targets: "generic reachability works" (`findings_services.py:23`) is given when only a private target answered, beside `default-route-present-but-inconsistent` or `route-and-dns-ok-external-tcp-failure` | the findings' own titles |
| `findings_network.py:126` | "DNS works" needs one lookup that succeeded: `route-and-dns-ok-external-tcp-failure` beside `dns-partial-resolution` | the findings' own titles |
| `findings_services.py:53` | services are other targets than those of the TCP checks: `mixed-service-results` beside a finding that no public target was reached | the findings' own titles |
| `findings_network.py:33` | an interface without an address is reported without a look at what was reached | the findings' own titles |
| `findings_common.py:20` | "a network cause is not supported" looks at TCP checks, lookups and the route only: beside failed services, a VPN failure or a partial trace | the findings' own titles |

The last five are `Conceded` in `NoContradiction`, each with the facts it needs.

Smaller observations: `rerun_url` drops the answers of a clarification; a check that is
added together with an answer is dropped when the answer makes it part of the plan and
the validator refuses it (`web/forms.py:188`, `intake/validator.py:117`), which is why
`AdditionsAreRun` speaks of the runs without a question; a plan can be started while
a newer one is loading; a fallback navigation, 180 ms after a failed refresh
(`static/app.js:322`), may replace a newer choice by the older one, on both halves of
the page; an evicted run's page polls a
404 for ever; `INTENT_BY_SYMPTOM` misses one symptom; `edge_network_path` is never
selected; the status "low" is out of reach of a primary volume above 300 GiB; the
default-route state "suspect" cannot arise without evidence; two volumes of one
level give two space findings of one identifier.

## 5. Proofs

`RunSessions_proofs` proves, for any finite set of runs, any set of tabs, any
`MaxEntries > 0` and any `Total` (assumptions `RunAssumption`,
`MaxEntriesAssumption`, `TotalAssumption`, `NoRunAssumption`): type correctness,
every safety property of the runs `sessions` and `eviction`, and that the
specification implements `RunLifecycle`. None of the properties is inductive; the
invariant is

    Inv == TypeInv /\ SessionInv /\ StoreInv /\ PageInv

- `TypeInv`: types, and a tab with a request has a target.
- `SessionInv`: the position of a thread determines the status of its run; the
  lock is held exactly by the run that is completing; `SettledHasArtifacts`.
- `StoreInv`: the store's size and order; a run that is newer than another was
  used since that one was (`NewerAreUsed`), which is what makes the evicted run,
  the one with all others newer, one that nobody used while `MaxEntries` others
  were.
- `PageInv`: what a tab has been told is true of its run (`Knows`), and a count
  read or shown is not above the run's count (`Follows`); both survive because
  completed runs never change and counts never go down.

The proof of each part has one step per action. The refinement maps every action
to an action of `RunLifecycle` or to a stutter; only `PostRun`, `UpdateProgress`,
`CompleteBegin` and `Fail` change the mapped variables.

`BrowserPresence_proofs` proves type correctness, that a closing request is always
the latest event (hence the comparison of the two times in `should_shutdown` is
redundant), and that the idle timeout is sound, for every timing that satisfies
`TimingAssumption`: essentially `Interval + MaxDelay < IdleTimeout`. The invariant
`BeatInv` says that a page whose timer runs has been heard of at most its timer
plus the delay ago, or has a heartbeat under way. The theorems hold with and
without downloads, restored pages and reordering.

`SupportBundle_proofs` proves type correctness, `AcceptedIsWhole` and
`WrittenIsAccepted` for any set of results (`CapturedAssumption`, and
`FileAssumption`: a file is neither absent nor partial). `AcceptedIsWhole` follows
from the type invariant, since a complete manifest on disk is that of some export
and the validator's checks leave room for no other. `WrittenIsAccepted` needs
`Written` (each member of the export is on disk or still to be written) and `Done`
(nothing is left to write when the export is finished, and the path can be read).

`DiagnosticsRun_proofs` proves every property of the run `diagnostics`, for any
number of targets and hosts (`BoundsAssumption`: at least one of each). The invariant is

    RunInv == LoopInv /\ ReportInv /\ FactsInv

`LoopInv` says that the completed domains are those of the plan before `position`,
that each of them has all its planned steps, and that the domain under way has
reported at most the callbacks of its collector. `ReportInv` says that the last
report is the one the context would make now, with the domain at `position` as
active: this is what `ActiveIsFirstOpen` lacks to be inductive, and it needs the
lemma that the first open place of the plan, after a completion, is the next place of
the loop. `ReportsWithinPlan` then compares three counts domain by domain (`Callbacks`
never above `StepCount`) and their sums. `CountNeverDecreases` is the property that
`RunSessions` assumes of its executor.

`Collection_proofs` proves every property of the run `collection`, for any lists of
targets and names (`TargetListsAssumption`, `HostListsAssumption`: not empty), any
mount points, containers, capacities and any number of changes by other programs
(`CapacityAssumption`; `MountsAssumption`: a mount point is listed once and, as on a
Mac, the primary volumes are in one container). `CollectionInv` adds to the types what
each collector has left behind at each of its steps, one part per domain: how many
TCP checks, pings and traces have been made and of which targets
(`ConnectivityInv`), which warning stands for what could not be read
(`ResourcesInv`), and that the volumes measured and those still pending are different
mount points, together all of those listed unless one was dropped with a warning
(`StorageInv`). `PassedMeansEveryReadAnswerWorked` needs exactly the second kind: the
code passes a domain when no warning is there, so each loss must have left one. Two
losses leave none and are named by the property as its exceptions: the ping and trace
of a later target on the same host (`execution.py:550`) and `vm_stat` on macOS
(`collectors/system.py:230`); both can be lost under "passed". `EveryCheckIsShown` says
what is shown for targets on one host: the TCP check of each, and the ping and trace of
the first. The two
incident properties rest on two theorems of `StoragePolicy_proofs` about any list of
volumes: a pressed volume is in one group and so in one incident
(`PressureIsReportedOnce`), and volumes of one pool make one
(`SharedCapacityIsOneIncident`). That module also proves that less free space never
gives a better level and that the groups partition the actionable volumes.

`Findings_proofs` proves every property of the run `findings`, for any selections,
issue categories, interfaces and tables of outcomes; the one assumption used is that
the clock and the volumes are reported in the values of the models
(`CollectorsAssumption`). `FindingsInv` says what the facts of an unselected domain are,
and that the findings are those of the rules over the final facts. A finding is
`Sound` when the facts support it: one lemma per rule says what its guard implies.
`Statements` lists what the findings say of the endpoint, each statement with all the
findings that make it and all that deny it; `NoContradiction` follows because for every
pair of such findings the two supports exclude each other, or are the facts of one of
the five kinds of `Conceded`. `TroubleIsNotHealthy` is proved the other way round, from
the trouble to the rule that fires. The sum `100 * Severity + confidence` orders as the
pair does because a confidence stays below 100. `GuideInv` says that the summary is
made of the first three kept findings in the stable order; `FirstThreeIs`, its main
lemma, needs that `Before` is a total order and that a nonempty finite set of places has a
first. `FaultDomainIsExplained` needs besides that no finding of the rules is dropped
as unsafe (`EveryFindingIsSafe`, again from soundness), so that one in the scope is kept.

`PlanRefresh_proofs` proves the five properties of the plan pages, for any sets of
added checks, any fault domains and any number of choices on a page (no assumption on
a constant is used). `PlanFollowsSelection` needs that at most one request is under way
and is for the checked symptom, the page without one included (`RefreshInv`). `PlanInv` says that a plan that carries
checks has no answers and selects them all, and that a guided plan is that of its
symptom and answers; three properties of a run follow at `StartRun`
(`StartRunIsSound`) from lemmas about the validator: what it completes stays in the
allowed checks, reaches the minimum (the baseline of every intent does, so the number
of baseline checks to take exists), and loses nothing of a guided plan without answers.
`EveryAnswerSetDecides` needs that the answers a page carries are to questions of its
intent (`AskedInv`); then each answer leaves one question fewer, and the last one falls
back on the intent's default pathway if none was chosen before.

Only model-checked: liveness (`EveryRunSettles`, `WatchersLeave`,
`StopsAfterLastPage`, `StopsWhenAbandoned`), because neither fairness nor `ENABLED` is
within the prover's reach; and the three properties that fail (section 4), which have
counterexamples. Every other property of a passing run is stated by a theorem. The
catalog of the intake is data of the program; what is proved about it is proved case by
case.

## 6. What is not modelled, and the plan

Left out for good: the text parsers of command output, wording (explanations'
texts, report, templates), data classes. They are functions of text, covered by the
repository's fixtures.

Known abstractions: a navigation in `PlanRefresh` is one step, so a click while the
next page loads is not there; the process snapshot of the resources is one outcome;
evidence texts of findings are left out.

Planned, in this order:

1. Proofs: what `RunSessions` assumes of an executor as a refinement, `DiagnosticsRun`
   against an abstract run whose steps only grow up to a total; the lemmas about
   `SortingOrders` and `FirstThree` in the generality in which others could cite them.
2. `Redaction`: which values a level replaces, against a reference definition.
3. `ResolutionTimeout`, `CommandCapture`: threads that outlive a timeout, nesting
   of the capture.
4. `ProfileCatalog`: local profiles over built-in ones; the launcher's fallback from
   an occupied port.
5. `BrowserPresence` composed with `RunSessions`: the server stops while a daemon
   thread executes a run.
