---------------------------- MODULE BrowserPresence ----------------------------
(***************************************************************************)
(* The operator launcher stops its local server when the browser is gone   *)
(* (launcher.py: BrowserPresenceTracker and the loop that asks it). Every  *)
(* page sends heartbeats and, when it unloads, a closing beacon            *)
(* (static/app.js); the server thread records them (web/routes.py).        *)
(*                                                                         *)
(* Time is discrete. Where the code stores a time and compares now with    *)
(* it, the model keeps the age of that time, which stops growing once no   *)
(* comparison tells larger ages apart: the states stay finite.             *)
(***************************************************************************)
EXTENDS Naturals, Sequences, SequencesExt

CONSTANTS Page,       \* browser tabs
          Interval,   \* time between the heartbeats of a page
          IdleTimeout, CloseGrace, StartupTimeout,  \* of the tracker
          MaxDelay,   \* longest time from sending a request to its handling
          MaxLoad,    \* longest time from leaving a page to the next one
          Downloads,  \* do users download artifacts from the results page?
          Restores,   \* does the browser bring back pages it has cached?
          Ordered,    \* does the server handle presence requests in order?
          MaxMail,    \* bound on the presence requests under way
          Never       \* a time that is not set (None)

ASSUME TimingAssumption ==
  /\ {Interval, IdleTimeout, CloseGrace, StartupTimeout} \subseteq Nat \ {0}
  /\ {MaxDelay, MaxLoad, MaxMail} \subseteq Nat
  /\ {Downloads, Restores, Ordered} \subseteq BOOLEAN
  /\ MaxDelay < Interval
  /\ Interval + MaxDelay < IdleTimeout
  /\ MaxLoad + MaxDelay < CloseGrace
  /\ CloseGrace <= IdleTimeout
  /\ Never \notin Nat

VARIABLES
  lastSeen,   \* age of _last_seen_at
  closing,    \* age of _closing_requested_at
  startup,    \* age of the tracker
  loop,       \* the launcher's loop
  lag,        \* age of the "now" that the loop read last
  tab,        \* "closed", "open" or "navigating"
  beating,    \* is the heartbeat timer of the page running?
  timer,      \* time since its last heartbeat, or since it was left
  renewed,    \* history: has the page sent a heartbeat after its first?
  mail        \* presence requests under way, [kind, age], in sending order

tracker == <<lastSeen, closing>>
launcher == <<loop, lag>>
browser == <<tab, beating, timer, renewed>>
vars == <<tracker, startup, launcher, browser, mail>>

MaxLag == 1
MaxAge == IdleTimeout + MaxLag
Age == 0..MaxAge

TypeOK ==
  /\ lastSeen \in Age \cup {Never}
  /\ closing \in Age \cup {Never}
  /\ startup \in 0..StartupTimeout + MaxLag
  /\ loop \in {"waiting", "sampled", "stopping", "stopped"}
  /\ lag \in 0..MaxLag
  /\ tab \in [Page -> {"closed", "open", "navigating"}]
  /\ beating \in [Page -> BOOLEAN]
  /\ \A p \in Page : beating[p] => tab[p] = "open"
  /\ timer \in [Page -> 0..Interval + MaxLoad]
  /\ renewed \in [Page -> BOOLEAN]
  /\ mail \in Seq([kind: {"beat", "bye"}, age: 0..MaxDelay])

Init ==
  /\ lastSeen = Never
  /\ closing = Never
  /\ startup = 0
  /\ loop = "waiting"
  /\ lag = 0
  /\ tab = [p \in Page |-> "closed"]
  /\ beating = [p \in Page |-> FALSE]
  /\ timer = [p \in Page |-> 0]
  /\ renewed = [p \in Page |-> FALSE]
  /\ mail = <<>>

Up == loop # "stopped"
-----------------------------------------------------------------------------
(* The browser.                                                            *)

Send(kind) == /\ Len(mail) < MaxMail
              /\ mail' = Append(mail, [kind |-> kind, age |-> 0])

\* setupLauncherPresenceHeartbeat of a page that has just loaded
StartPage(p) ==
  /\ tab' = [tab EXCEPT ![p] = "open"]
  /\ beating' = [beating EXCEPT ![p] = TRUE]
  /\ timer' = [timer EXCEPT ![p] = 0]
  /\ renewed' = [renewed EXCEPT ![p] = FALSE]
  /\ Send("beat")

\* handlePageClosing: the first unload event stops the timer and sends the
\* beacon; later ones do nothing.
HandlePageClosing(p) ==
  /\ beating' = [beating EXCEPT ![p] = FALSE]
  /\ IF beating[p] THEN Send("bye") ELSE UNCHANGED mail

\* The launcher, or the user, opens a tab.
OpenTab(p) ==
  /\ tab[p] = "closed" /\ Up
  /\ StartPage(p)
  /\ UNCHANGED <<tracker, startup, launcher>>

\* The heartbeat interval elapses.
Heartbeat(p) ==
  /\ tab[p] = "open" /\ beating[p] /\ timer[p] = Interval
  /\ timer' = [timer EXCEPT ![p] = 0]
  /\ renewed' = [renewed EXCEPT ![p] = TRUE]
  /\ Send("beat")
  /\ UNCHANGED <<tracker, startup, launcher, tab, beating>>

\* A link, a form or a reload unloads the page ...
Navigate(p) ==
  /\ tab[p] = "open" /\ Up
  /\ tab' = [tab EXCEPT ![p] = "navigating"]
  /\ timer' = [timer EXCEPT ![p] = 0]
  /\ HandlePageClosing(p)
  /\ UNCHANGED <<tracker, startup, launcher, renewed>>

\* ... and the next page loads.
Loaded(p) ==
  /\ tab[p] = "navigating" /\ Up
  /\ StartPage(p)
  /\ UNCHANGED <<tracker, startup, launcher>>

\* ... or, on the way back, one that the browser had kept in its back-forward
\* cache: its handler has run and setupLauncherPresenceHeartbeat does not.
Restored(p) ==
  /\ Restores /\ tab[p] = "navigating" /\ Up
  /\ tab' = [tab EXCEPT ![p] = "open"]
  /\ UNCHANGED <<tracker, startup, launcher, beating, timer, renewed, mail>>

\* A download starts as a navigation: beforeunload fires, then the answer is
\* an attachment and the page stays.
Download(p) ==
  /\ Downloads /\ tab[p] = "open" /\ Up
  /\ HandlePageClosing(p)
  /\ UNCHANGED <<tracker, startup, launcher, tab, timer, renewed>>

CloseTab(p) ==
  /\ tab[p] # "closed"
  /\ tab' = [tab EXCEPT ![p] = "closed"]
  /\ timer' = [timer EXCEPT ![p] = 0]
  /\ HandlePageClosing(p)
  /\ UNCHANGED <<tracker, startup, launcher, renewed>>

\* The browser is killed: no beacon.
CrashTab(p) ==
  /\ tab[p] # "closed"
  /\ tab' = [tab EXCEPT ![p] = "closed"]
  /\ beating' = [beating EXCEPT ![p] = FALSE]
  /\ timer' = [timer EXCEPT ![p] = 0]
  /\ UNCHANGED <<tracker, startup, launcher, renewed, mail>>
-----------------------------------------------------------------------------
(* The server thread.                                                      *)

\* Mutant: a heartbeat does not withdraw an earlier closing request.
HeartbeatKeepsClosing == lastSeen' = 0 /\ UNCHANGED closing

\* BrowserPresenceTracker.record_heartbeat
RecordHeartbeat == lastSeen' = 0 /\ closing' = Never

\* BrowserPresenceTracker.record_page_closing
RecordPageClosing == closing' = 0 /\ UNCHANGED lastSeen

\* The server handles one request. With Ordered it is the oldest one.
Deliver(i) ==
  /\ Up /\ (Ordered => i = 1)
  /\ mail' = RemoveAt(mail, i)
  /\ IF mail[i].kind = "beat" THEN RecordHeartbeat ELSE RecordPageClosing
  /\ UNCHANGED <<startup, launcher, browser>>
-----------------------------------------------------------------------------
(* The launcher's loop. should_shutdown reads the clock before it takes    *)
(* the lock, so its "now" may be older than the times it compares with.    *)

\* now - t >= d, for a time t of age a and a "now" of age lag
Elapsed(a, d) == a >= d + lag

\* Mutant: pages that stay silent are never given up.
NoIdleTimeout ==
  IF closing # Never /\ (lastSeen = Never \/ lastSeen >= closing)
  THEN Elapsed(closing, CloseGrace)
  ELSE lastSeen = Never /\ Elapsed(startup, StartupTimeout)

\* Mutant: a heartbeat due now already counts as missed.
IdleAfterInterval ==
  IF closing # Never /\ (lastSeen = Never \/ lastSeen >= closing)
  THEN Elapsed(closing, CloseGrace)
  ELSE IF lastSeen = Never THEN Elapsed(startup, StartupTimeout)
  ELSE Elapsed(lastSeen, Interval)

\* Mutant: no grace period, so that a navigation stops the server.
NoGrace ==
  \/ closing # Never
  \/ lastSeen # Never /\ Elapsed(lastSeen, IdleTimeout)

\* BrowserPresenceTracker.should_shutdown
ShouldShutdown ==
  IF closing # Never /\ (lastSeen = Never \/ lastSeen >= closing)
  THEN Elapsed(closing, CloseGrace)
  ELSE IF lastSeen = Never THEN Elapsed(startup, StartupTimeout)
  ELSE Elapsed(lastSeen, IdleTimeout)

ReadClock ==
  /\ loop = "waiting"
  /\ loop' = "sampled" /\ lag' = 0
  /\ UNCHANGED <<tracker, startup, browser, mail>>

Decide ==
  /\ loop = "sampled"
  /\ loop' = IF ShouldShutdown THEN "stopping" ELSE "waiting"
  /\ UNCHANGED <<tracker, startup, lag, browser, mail>>

\* server.shutdown(); requests still under way are never handled.
Shutdown ==
  /\ loop = "stopping"
  /\ loop' = "stopped"
  /\ mail' = <<>>
  /\ UNCHANGED <<tracker, startup, lag, browser>>
-----------------------------------------------------------------------------
Older(a) == IF a = Never \/ a = MaxAge THEN a ELSE a + 1
AtMost(a, bound) == IF a < bound THEN a + 1 ELSE a

\* Time passes: not past a heartbeat that is due, the handling of a request,
\* the loading of a page or a clock reading still to be used.
Tick ==
  /\ Up
  /\ \A p \in Page : /\ tab[p] = "open" /\ beating[p] => timer[p] < Interval
                     /\ tab[p] = "navigating" => timer[p] < MaxLoad
  /\ \A i \in DOMAIN mail : mail[i].age < MaxDelay
  /\ loop = "sampled" => lag < MaxLag
  /\ lastSeen' = Older(lastSeen)
  /\ closing' = Older(closing)
  /\ startup' = AtMost(startup, StartupTimeout + MaxLag)
  /\ lag' = IF loop = "sampled" THEN lag + 1 ELSE lag
  /\ timer' = [p \in Page |-> IF tab[p] = "closed" \/ (tab[p] = "open" /\ ~beating[p])
                              THEN timer[p] ELSE timer[p] + 1]
  /\ mail' = [i \in DOMAIN mail |-> [mail[i] EXCEPT !.age = @ + 1]]
  /\ UNCHANGED <<loop, tab, beating, renewed>>

Next ==
  \/ Tick
  \/ \E p \in Page : \/ OpenTab(p) \/ Heartbeat(p) \/ Navigate(p) \/ Loaded(p)
                     \/ Restored(p) \/ Download(p) \/ CloseTab(p) \/ CrashTab(p)
  \/ \E i \in DOMAIN mail : Deliver(i)
  \/ ReadClock \/ Decide \/ Shutdown

Spec == Init /\ [][Next]_vars

(* Time passes, requests are handled, pages keep their timers, and the     *)
(* launcher's loop runs; users owe nothing.                                *)
Fairness ==
  /\ WF_vars(Tick)
  /\ WF_vars(\E i \in DOMAIN mail : Deliver(i))
  /\ \A p \in Page : WF_vars(Heartbeat(p)) /\ WF_vars(Loaded(p))
  /\ WF_vars(ReadClock) /\ WF_vars(Decide) /\ WF_vars(Shutdown)

FairSpec == Spec /\ Fairness
-----------------------------------------------------------------------------
(* Properties.                                                             *)

\* A closing request is never older than the last heartbeat, in whatever
\* order the requests arrive: the comparison in should_shutdown cannot fail.
ClosingIsLatest == closing # Never /\ lastSeen # Never => lastSeen >= closing

Stops == loop = "sampled" /\ loop' = "stopping"
BeatUnderWay == \E i \in DOMAIN mail : mail[i].kind = "beat"
Present(p) == tab[p] # "closed"

\* The launcher never gives up a page for its silence while the page is open
\* and its timer runs: heartbeats are frequent enough for the idle timeout,
\* the delays and the age of the clock reading taken together. Only a page
\* whose very first heartbeat is under way may lose the race.
IdleStopIsSound ==
  [][Stops /\ closing = Never =>
       \A p \in Page : tab[p] = "open" /\ beating[p] => BeatUnderWay /\ ~renewed[p]]_vars

\* The server stops only after the last browser page is closed (the launcher's
\* help for --shutdown-on-browser-close). A page that has just loaded may
\* still have its first heartbeat under way.
StopsAfterLastPage ==
  [][Stops => BeatUnderWay \/ \A p \in Page : ~Present(p)]_vars

\* When all pages are gone for good, closed or killed, the server stops.
StopsWhenAbandoned ==
  <>[](\A p \in Page : ~Present(p)) => <>(loop = "stopped")
=============================================================================
