------------------------ MODULE BrowserPresence_proofs ------------------------
(***************************************************************************)
(* Theorems of BrowserPresence, for every set of tabs and every timing     *)
(* that satisfies TimingAssumption.                                        *)
(***************************************************************************)
EXTENDS BrowserPresence, TLAPS, SequenceTheorems

Message == [kind: {"beat", "bye"}, age: 0..MaxDelay]

\* The constants that matter to the arithmetic of a leaf.
LEMMA Timing ==
  /\ Interval \in Nat /\ IdleTimeout \in Nat /\ CloseGrace \in Nat /\ StartupTimeout \in Nat
  /\ MaxDelay \in Nat /\ MaxLoad \in Nat
  /\ MaxDelay < Interval /\ Interval + MaxDelay < IdleTimeout
  /\ Never \notin Nat
  BY TimingAssumption

\* Sending appends one message, handling removes one.
LEMMA SendType ==
  ASSUME NEW kind \in {"beat", "bye"}, mail \in Seq(Message), Send(kind)
  PROVE  /\ mail' \in Seq(Message)
         /\ Len(mail') = Len(mail) + 1
         /\ mail'[Len(mail')] = [kind |-> kind, age |-> 0]
         /\ \A i \in 1..Len(mail) : mail'[i] = mail[i]
  BY Timing DEF Send, Message

LEMMA RemoveAtType ==
  ASSUME NEW s \in Seq(Message), NEW i \in DOMAIN s
  PROVE  /\ RemoveAt(s, i) \in Seq(Message)
         /\ Len(RemoveAt(s, i)) = Len(s) - 1
         /\ \A j \in 1..Len(s) - 1 : RemoveAt(s, i)[j] = IF j < i THEN s[j] ELSE s[j + 1]
<1> DEFINE a == SubSeq(s, 1, i - 1)
           b == SubSeq(s, i + 1, Len(s))
<1>1. /\ Len(s) \in Nat /\ DOMAIN s = 1..Len(s) /\ i \in 1..Len(s)
      /\ \A j \in 1..Len(s) : s[j] \in Message
  BY LenProperties, ElementOfSeq
<1>2. /\ a \in Seq(Message) /\ Len(a) = i - 1
      /\ \A j \in 1..i - 1 : a[j] = s[j]
  <2>1. 1 \in Int /\ i - 1 \in Int /\ \A j \in 1..i - 1 : s[j] \in Message
    BY <1>1
  <2>2. /\ a \in Seq(Message)
        /\ Len(a) = IF 1 <= i - 1 THEN (i - 1) - 1 + 1 ELSE 0
        /\ \A j \in 1..(i - 1) - 1 + 1 : a[j] = s[1 + j - 1]
    BY <2>1, SubSeqProperties
  <2> HIDE DEF a
  <2>3. ASSUME NEW j \in 1..i - 1 PROVE a[j] = s[j]
    <3>1. j \in 1..(i - 1) - 1 + 1 /\ 1 + j - 1 = j
      BY <1>1
    <3>2. QED
      BY <2>2, <3>1
  <2>4. QED
    BY <1>1, <2>2, <2>3
<1>3. /\ b \in Seq(Message) /\ Len(b) = Len(s) - i
      /\ \A j \in 1..Len(s) - i : b[j] = s[i + j]
  <2>1. i + 1 \in Int /\ Len(s) \in Int /\ \A j \in i + 1..Len(s) : s[j] \in Message
    BY <1>1
  <2>2. /\ b \in Seq(Message)
        /\ Len(b) = IF i + 1 <= Len(s) THEN Len(s) - (i + 1) + 1 ELSE 0
        /\ \A j \in 1..Len(s) - (i + 1) + 1 : b[j] = s[(i + 1) + j - 1]
    BY <2>1, SubSeqProperties
  <2> HIDE DEF b
  <2>3. ASSUME NEW j \in 1..Len(s) - i PROVE b[j] = s[i + j]
    <3>1. j \in 1..Len(s) - (i + 1) + 1 /\ (i + 1) + j - 1 = i + j
      BY <1>1
    <3>2. QED
      BY <2>2, <3>1
  <2>4. QED
    BY <1>1, <2>2, <2>3
<1> HIDE DEF a, b
<1> DEFINE c == a \o b
<1>4. /\ c \in Seq(Message) /\ Len(c) = (i - 1) + (Len(s) - i)
      /\ \A j \in 1..(i - 1) + (Len(s) - i) : c[j] = IF j <= i - 1 THEN a[j] ELSE b[j - (i - 1)]
  <2>1. /\ c \in Seq(Message) /\ Len(c) = Len(a) + Len(b)
        /\ \A j \in 1..Len(a) + Len(b) : c[j] = IF j <= Len(a) THEN a[j] ELSE b[j - Len(a)]
    BY <1>2, <1>3, ConcatProperties, Zenon
  <2> HIDE DEF c
  <2>2. QED
    BY <1>2, <1>3, <2>1
<1> HIDE DEF c
<1>5. ASSUME NEW j \in 1..Len(s) - 1 PROVE c[j] = IF j < i THEN s[j] ELSE s[j + 1]
  <2>1. j \in 1..(i - 1) + (Len(s) - i)
    BY <1>1
  <2>2. CASE j < i
    <3>1. j \in 1..i - 1 /\ j <= i - 1
      BY <1>1, <2>2
    <3>2. QED
      BY <1>2, <1>4, <2>1, <2>2, <3>1
  <2>3. CASE ~(j < i)
    <3>1. j - (i - 1) \in 1..Len(s) - i /\ i + (j - (i - 1)) = j + 1 /\ ~(j <= i - 1)
      BY <1>1, <2>3
    <3>2. b[j - (i - 1)] = s[i + (j - (i - 1))]
      BY <1>3, <3>1
    <3>3. QED
      BY <1>4, <2>1, <2>3, <3>1, <3>2
  <2>4. QED
    BY <2>2, <2>3
<1>6. Len(c) = Len(s) - 1
  BY <1>1, <1>4
<1>7. QED
  BY <1>4, <1>5, <1>6 DEF RemoveAt, a, b, c

LEMMA MailElements ==
  ASSUME TypeOK
  PROVE  /\ mail \in Seq(Message) /\ DOMAIN mail = 1..Len(mail) /\ Len(mail) \in Nat
         /\ \A i \in DOMAIN mail : /\ mail[i].kind \in {"beat", "bye"}
                                   /\ mail[i].age \in 0..MaxDelay
                                   /\ mail[i] = [kind |-> mail[i].kind, age |-> mail[i].age]
<1>1. mail \in Seq(Message)
  BY DEF TypeOK, Message
<1>2. DOMAIN mail = 1..Len(mail) /\ Len(mail) \in Nat
  BY <1>1, LenProperties
<1>3. \A i \in DOMAIN mail : mail[i] \in Message
  BY <1>1, <1>2, ElementOfSeq
<1>4. \A m \in Message : /\ m.kind \in {"beat", "bye"} /\ m.age \in 0..MaxDelay
                        /\ m = [kind |-> m.kind, age |-> m.age]
  BY DEF Message
<1>5. QED
  BY <1>1, <1>2, <1>3, <1>4

-----------------------------------------------------------------------------
(* Types.                                                                  *)

LEMMA TypeInit == Init => TypeOK
  BY Timing DEF Init, TypeOK, Age, MaxAge, MaxLag

\* The types of what a page changes.
LEMMA SendKeepsType ==
  ASSUME TypeOK, NEW kind \in {"beat", "bye"}, Send(kind)
  PROVE  mail' \in Seq([kind: {"beat", "bye"}, age: 0..MaxDelay])
  BY SendType, MailElements DEF Message

LEMMA StartPageType ==
  ASSUME TypeOK, NEW p \in Page, StartPage(p), UNCHANGED <<tracker, startup, launcher>>
  PROVE  TypeOK'
  BY Timing, SendKeepsType DEF StartPage, TypeOK, tracker, launcher

LEMMA OlderType ==
  ASSUME NEW a \in Age \cup {Never}
  PROVE  /\ Older(a) \in Age \cup {Never}
         /\ a = Never <=> Older(a) = Never
         /\ a # Never => a <= Older(a) /\ Older(a) <= a + 1
<1>1. MaxAge \in Nat /\ Age = 0..MaxAge /\ Never \notin Age
  BY Timing DEF MaxAge, MaxLag, Age
<1>2. CASE a = Never
  BY <1>2 DEF Older
<1>3. CASE a \in Age
  BY <1>1, <1>3 DEF Older
<1>4. QED
  BY <1>2, <1>3

LEMMA TickMail ==
  ASSUME TypeOK, Tick
  PROVE  /\ mail' \in Seq(Message) /\ DOMAIN mail' = DOMAIN mail
         /\ \A i \in DOMAIN mail : mail'[i].kind = mail[i].kind /\ mail'[i].age = mail[i].age + 1
<1>1. \A i \in 1..Len(mail) : /\ [mail[i] EXCEPT !.age = @ + 1] \in Message
                              /\ [mail[i] EXCEPT !.age = @ + 1].kind = mail[i].kind
                              /\ [mail[i] EXCEPT !.age = @ + 1].age = mail[i].age + 1
  <2> SUFFICES ASSUME NEW i \in 1..Len(mail)
               PROVE  /\ [mail[i] EXCEPT !.age = @ + 1] \in Message
                      /\ [mail[i] EXCEPT !.age = @ + 1].kind = mail[i].kind
                      /\ [mail[i] EXCEPT !.age = @ + 1].age = mail[i].age + 1
    OBVIOUS
  <2>1. /\ mail[i] = [kind |-> mail[i].kind, age |-> mail[i].age]
        /\ mail[i].kind \in {"beat", "bye"} /\ mail[i].age \in 0..MaxDelay
        /\ mail[i].age < MaxDelay
    BY MailElements DEF Tick
  <2>2. [mail[i] EXCEPT !.age = @ + 1] = [kind |-> mail[i].kind, age |-> mail[i].age + 1]
    BY <2>1
  <2>3. QED
    BY <2>1, <2>2, Timing DEF Message
<1>2. mail' = [i \in 1..Len(mail) |-> [mail[i] EXCEPT !.age = @ + 1]]
  BY MailElements DEF Tick
<1>3. QED
  BY <1>1, <1>2, MailElements

LEMMA TypeStep == TypeOK /\ [Next]_vars => TypeOK'
<1> SUFFICES ASSUME TypeOK, [Next]_vars PROVE TypeOK'
  OBVIOUS
<1> USE Timing DEF tracker, launcher, browser, Age, MaxAge, MaxLag
<1>1. ASSUME NEW p \in Page, OpenTab(p) \/ Loaded(p) PROVE TypeOK'
  BY <1>1, StartPageType DEF OpenTab, Loaded
<1>2. ASSUME NEW p \in Page, Heartbeat(p) PROVE TypeOK'
  BY <1>2, SendKeepsType DEF Heartbeat, TypeOK
<1>3. ASSUME NEW p \in Page, HandlePageClosing(p)
      PROVE  /\ mail' \in Seq([kind: {"beat", "bye"}, age: 0..MaxDelay])
             /\ beating' = [beating EXCEPT ![p] = FALSE]
  BY <1>3, SendKeepsType DEF HandlePageClosing, TypeOK
<1>4. ASSUME NEW p \in Page, Navigate(p) PROVE TypeOK'
  <2>1. /\ mail' \in Seq([kind: {"beat", "bye"}, age: 0..MaxDelay])
        /\ beating' = [beating EXCEPT ![p] = FALSE]
    BY <1>3, <1>4 DEF Navigate
  <2>2. /\ timer' = [timer EXCEPT ![p] = 0]
        /\ \E s \in {"navigating", "closed"} : tab' = [tab EXCEPT ![p] = s]
        /\ UNCHANGED <<tracker, startup, launcher, renewed>>
    BY <1>4 DEF Navigate
  <2>3. QED
    BY <2>1, <2>2 DEF TypeOK
<1>5. ASSUME NEW p \in Page, Download(p) PROVE TypeOK'
  BY <1>3, <1>5 DEF Download, TypeOK
<1>6. ASSUME NEW p \in Page, CloseTab(p) PROVE TypeOK'
  <2>1. /\ mail' \in Seq([kind: {"beat", "bye"}, age: 0..MaxDelay])
        /\ beating' = [beating EXCEPT ![p] = FALSE]
    BY <1>3, <1>6 DEF CloseTab
  <2>2. /\ timer' = [timer EXCEPT ![p] = 0]
        /\ \E s \in {"navigating", "closed"} : tab' = [tab EXCEPT ![p] = s]
        /\ UNCHANGED <<tracker, startup, launcher, renewed>>
    BY <1>6 DEF CloseTab
  <2>3. QED
    BY <2>1, <2>2 DEF TypeOK
<1>7. ASSUME NEW p \in Page, CrashTab(p) PROVE TypeOK'
  BY <1>7 DEF CrashTab, TypeOK
<1>14. ASSUME NEW p \in Page, Restored(p) PROVE TypeOK'
  <2>1. tab' \in [Page -> {"closed", "open", "navigating"}] /\ beating' = beating
        /\ \A q \in Page : tab[q] = "open" => tab'[q] = "open"
    BY <1>14 DEF Restored, TypeOK
  <2>2. QED
    BY <1>14, <2>1 DEF Restored, TypeOK
<1>8. ASSUME NEW i \in DOMAIN mail, Deliver(i) PROVE TypeOK'
  <2>1. mail' \in Seq([kind: {"beat", "bye"}, age: 0..MaxDelay])
    BY <1>8, MailElements, RemoveAtType DEF Deliver, Message
  <2>2. /\ lastSeen' \in {0, lastSeen} /\ closing' \in {0, Never}
        /\ UNCHANGED <<startup, loop, lag, tab, beating, timer, renewed>>
    BY <1>8 DEF Deliver, RecordHeartbeat, RecordPageClosing
  <2>3. lastSeen' \in Age \cup {Never} /\ closing' \in Age \cup {Never}
    BY <2>2 DEF TypeOK
  <2>4. QED
    BY <2>1, <2>2, <2>3 DEF TypeOK
<1>9. ASSUME ReadClock \/ Decide PROVE TypeOK'
  BY <1>9 DEF ReadClock, Decide, TypeOK
<1>10. ASSUME Shutdown PROVE TypeOK'
  BY <1>10, EmptySeq DEF Shutdown, TypeOK
<1>11. ASSUME Tick PROVE TypeOK'
  <2>1. mail' \in Seq([kind: {"beat", "bye"}, age: 0..MaxDelay])
    BY <1>11, TickMail DEF Message
  <2>2. lastSeen' \in Age \cup {Never} /\ closing' \in Age \cup {Never}
    BY <1>11, OlderType DEF Tick, TypeOK
  <2>3. startup' \in 0..StartupTimeout + MaxLag /\ lag' \in 0..MaxLag
    BY <1>11 DEF Tick, AtMost, TypeOK
  <2>4. timer' \in [Page -> 0..Interval + MaxLoad]
    BY <1>11 DEF Tick, TypeOK
  <2>5. QED
    BY <1>11, <2>1, <2>2, <2>3, <2>4 DEF Tick, TypeOK
<1>12. CASE UNCHANGED vars
  BY <1>12 DEF vars, TypeOK
<1>13. QED
  BY <1>1, <1>2, <1>4, <1>5, <1>6, <1>7, <1>8, <1>9, <1>10, <1>11, <1>12, <1>14 DEF Next

\* The ages, timers and messages stay within their bounds, and only an open
\* page has a running heartbeat timer.
THEOREM TypeCorrect == Spec => []TypeOK
  BY TypeInit, TypeStep, PTL DEF Spec
-----------------------------------------------------------------------------
(* The tracker.                                                            *)

LEMMA ClosingInit == Init => ClosingIsLatest
  BY DEF Init, ClosingIsLatest

LEMMA ClosingStep == TypeOK /\ ClosingIsLatest /\ [Next]_vars => ClosingIsLatest'
<1> SUFFICES ASSUME TypeOK, ClosingIsLatest, [Next]_vars PROVE ClosingIsLatest'
  OBVIOUS
<1>0. lastSeen \in Age \cup {Never} /\ closing \in Age \cup {Never} /\ Never \notin Age
      /\ Age \subseteq Nat
  BY Timing DEF TypeOK, Age, MaxAge, MaxLag
<1>1. CASE UNCHANGED tracker
  BY <1>1 DEF ClosingIsLatest, tracker
<1>2. ASSUME NEW i \in DOMAIN mail, Deliver(i) PROVE ClosingIsLatest'
  <2>1. CASE closing' = Never
    BY <2>1 DEF ClosingIsLatest
  <2>2. CASE closing' = 0 /\ lastSeen' = lastSeen
    BY <1>0, <2>2 DEF ClosingIsLatest
  <2>3. QED
    BY <1>2, <2>1, <2>2 DEF Deliver, RecordHeartbeat, RecordPageClosing
<1>3. CASE Tick
  <2>1. lastSeen' = Older(lastSeen) /\ closing' = Older(closing)
    BY <1>3 DEF Tick
  <2>2. SUFFICES ASSUME closing # Never, lastSeen # Never PROVE Older(lastSeen) >= Older(closing)
    BY <1>0, <2>1, OlderType DEF ClosingIsLatest
  <2>3. lastSeen >= closing /\ lastSeen \in 0..MaxAge /\ closing \in 0..MaxAge /\ MaxAge \in Nat
    BY <1>0, <2>2, Timing DEF ClosingIsLatest, Age, MaxAge, MaxLag
  <2>4. QED
    BY <2>2, <2>3 DEF Older
<1>4. ASSUME NEW p \in Page,
             \/ OpenTab(p) \/ Heartbeat(p) \/ Navigate(p) \/ Loaded(p)
             \/ Restored(p) \/ Download(p) \/ CloseTab(p) \/ CrashTab(p)
      PROVE  UNCHANGED tracker
  BY <1>4 DEF OpenTab, Heartbeat, Navigate, Loaded, Restored, Download, CloseTab, CrashTab
<1>5. ASSUME ReadClock \/ Decide \/ Shutdown \/ UNCHANGED vars
      PROVE  UNCHANGED tracker
  BY <1>5 DEF ReadClock, Decide, Shutdown, vars
<1>6. QED
  BY <1>1, <1>2, <1>3, <1>4, <1>5 DEF Next

\* However heartbeats and closing beacons are reordered, the closing request
\* that should_shutdown finds is the latest event.
THEOREM ClosingWins == Spec => []ClosingIsLatest
  BY TypeInit, TypeStep, ClosingInit, ClosingStep, PTL DEF Spec

-----------------------------------------------------------------------------
(* The idle timeout.                                                       *)

\* A heartbeat sent at least t ago is still under way.
BeatSince(t) == \E i \in DOMAIN mail : mail[i].kind = "beat" /\ mail[i].age >= t

Beating(p) == tab[p] = "open" /\ beating[p]

\* The tracker saw a heartbeat no earlier than the page sent its last one.
Heard(p) == lastSeen # Never /\ lastSeen <= timer[p]

\* The page's last heartbeat is under way, and if it was not its first one
\* the tracker saw one no earlier than one interval before.
Pending(p) ==
  /\ BeatSince(timer[p])
  /\ renewed[p] => lastSeen # Never /\ lastSeen <= Interval + timer[p]

BeatInv ==
  Up => \A p \in Page : Beating(p) => timer[p] <= Interval /\ (Heard(p) \/ Pending(p))

LEMMA BeatInit == Init => BeatInv
  BY DEF Init, BeatInv, Beating

LEMMA SentBeat == ASSUME TypeOK, Send("beat") PROVE BeatSince(0)'
<1>1. mail' \in Seq(Message) /\ Len(mail') \in 1..Len(mail')
      /\ mail'[Len(mail')] = [kind |-> "beat", age |-> 0]
  BY SendType, MailElements
<1>2. DOMAIN mail' = 1..Len(mail')
  BY <1>1, LenProperties
<1>3. QED
  BY <1>1, <1>2 DEF BeatSince

LEMMA SendKeepsBeats ==
  ASSUME TypeOK, NEW kind \in {"beat", "bye"}, Send(kind), NEW t \in Nat, BeatSince(t)
  PROVE  BeatSince(t)'
<1>1. /\ mail' \in Seq(Message) /\ Len(mail') = Len(mail) + 1
      /\ \A i \in 1..Len(mail) : mail'[i] = mail[i]
  BY SendType, MailElements
<1>2. DOMAIN mail' = 1..Len(mail) + 1 /\ DOMAIN mail = 1..Len(mail) /\ Len(mail) \in Nat
  BY <1>1, LenProperties, MailElements
<1>3. QED
  BY <1>1, <1>2 DEF BeatSince

LEMMA ByeKeepsBeats ==
  ASSUME TypeOK, NEW i \in DOMAIN mail, mail[i].kind # "beat", mail' = RemoveAt(mail, i),
         NEW t \in Nat, BeatSince(t)
  PROVE  BeatSince(t)'
<1>1. /\ mail' \in Seq(Message) /\ Len(mail') = Len(mail) - 1
      /\ \A j \in 1..Len(mail) - 1 : mail'[j] = IF j < i THEN mail[j] ELSE mail[j + 1]
  BY RemoveAtType, MailElements
<1>2. DOMAIN mail' = 1..Len(mail) - 1 /\ i \in 1..Len(mail) /\ Len(mail) \in Nat
  BY <1>1, LenProperties, MailElements
<1>3. PICK k \in 1..Len(mail) : mail[k].kind = "beat" /\ mail[k].age >= t
  BY MailElements DEF BeatSince
<1>4. CASE k < i
  <2>1. k \in 1..Len(mail) - 1
    BY <1>2, <1>4
  <2>2. mail'[k] = mail[k]
    BY <1>1, <1>4, <2>1
  <2>3. QED
    BY <1>2, <1>3, <2>1, <2>2 DEF BeatSince
<1>5. CASE k > i
  <2>1. k - 1 \in 1..Len(mail) - 1 /\ ~(k - 1 < i) /\ (k - 1) + 1 = k
    BY <1>2, <1>5
  <2>2. mail'[k - 1] = mail[k]
    BY <1>1, <2>1
  <2>3. QED
    BY <1>2, <1>3, <2>1, <2>2 DEF BeatSince
<1>6. QED
  BY <1>2, <1>3, <1>4, <1>5

LEMMA TickAgesBeats ==
  ASSUME TypeOK, Tick, NEW t \in Nat, BeatSince(t)
  PROVE  BeatSince(t + 1)'
<1>1. PICK i \in DOMAIN mail : mail[i].kind = "beat" /\ mail[i].age >= t
  BY DEF BeatSince
<1>2. /\ i \in DOMAIN mail' /\ mail'[i].kind = "beat"
      /\ mail'[i].age = mail[i].age + 1 /\ mail[i].age \in Nat
  BY <1>1, TickMail, MailElements
<1>3. mail'[i].age >= t + 1
  BY <1>1, <1>2
<1>4. QED
  BY <1>2, <1>3 DEF BeatSince
\* Pages that a step leaves alone keep their part of the invariant when the
\* tracker and the messages under way keep theirs.
LEMMA PageKeepsBeat ==
  ASSUME TypeOK, BeatInv, Up, NEW p \in Page, Beating(p)',
         <<tab[p], beating[p], timer[p], renewed[p], lastSeen>>'
           = <<tab[p], beating[p], timer[p], renewed[p], lastSeen>>,
         \A t \in Nat : BeatSince(t) => BeatSince(t)'
  PROVE  timer'[p] <= Interval /\ (Heard(p)' \/ Pending(p)')
<1>1. Beating(p) /\ timer[p] \in Nat
  BY Timing DEF Beating, TypeOK
<1>2. timer[p] <= Interval /\ (Heard(p) \/ Pending(p))
  BY <1>1 DEF BeatInv
<1>3. Heard(p) => Heard(p)'
  BY DEF Heard
<1>4. ASSUME Pending(p) PROVE Pending(p)'
  <2>1. BeatSince(timer[p])'
    BY <1>1, <1>4 DEF Pending
  <2>2. QED
    BY <1>4, <2>1 DEF Pending
<1>5. QED
  BY <1>2, <1>3, <1>4
\* A step of page p that sends at most one message, and p's own part.
LEMMA PageStepKeepsBeats ==
  ASSUME TypeOK, BeatInv, NEW p \in Page,
         UNCHANGED <<lastSeen, loop>>,
         \A q \in Page : q # p =>
           <<tab[q], beating[q], timer[q], renewed[q]>>'
             = <<tab[q], beating[q], timer[q], renewed[q]>>,
         UNCHANGED mail \/ Send("beat") \/ Send("bye"),
         Up /\ Beating(p)' => timer'[p] <= Interval /\ (Heard(p)' \/ Pending(p)')
  PROVE  BeatInv'
<1> SUFFICES ASSUME Up, NEW q \in Page, Beating(q)'
             PROVE  timer'[q] <= Interval /\ (Heard(q)' \/ Pending(q)')
  BY DEF BeatInv, Up
<1>1. ASSUME NEW t \in Nat, BeatSince(t) PROVE BeatSince(t)'
  <2>1. CASE UNCHANGED mail
    BY <1>1, <2>1 DEF BeatSince
  <2>2. CASE Send("beat") \/ Send("bye")
    BY <1>1, <2>2, SendKeepsBeats
  <2>3. QED
    BY <2>1, <2>2
<1>2. CASE q = p
  BY <1>2
<1>3. CASE q # p
  <2>1. <<tab[q], beating[q], timer[q], renewed[q], lastSeen>>'
          = <<tab[q], beating[q], timer[q], renewed[q], lastSeen>>
    BY <1>3
  <2>2. QED
    BY <1>1, <2>1, PageKeepsBeat
<1>4. QED
  BY <1>2, <1>3

LEMMA BeatStep == TypeOK /\ BeatInv /\ [Next]_vars => BeatInv'
<1> SUFFICES ASSUME TypeOK, BeatInv, [Next]_vars PROVE BeatInv'
  OBVIOUS
<1> USE DEF tracker, launcher, browser
<1>1. ASSUME NEW p \in Page, OpenTab(p) \/ Loaded(p) PROVE BeatInv'
  <2>1. /\ StartPage(p) /\ UNCHANGED <<lastSeen, loop>> /\ Send("beat")
        /\ timer' = [timer EXCEPT ![p] = 0] /\ renewed' = [renewed EXCEPT ![p] = FALSE]
        /\ tab' = [tab EXCEPT ![p] = "open"] /\ beating' = [beating EXCEPT ![p] = TRUE]
    BY <1>1 DEF OpenTab, Loaded, StartPage
  <2>2. timer'[p] = 0 /\ ~renewed'[p] /\ BeatSince(0)'
    BY <2>1, SentBeat DEF TypeOK
  <2>3. timer'[p] <= Interval /\ Pending(p)'
    BY <2>2, Timing DEF Pending, BeatSince
  <2>4. QED
    BY <2>1, <2>3, PageStepKeepsBeats DEF TypeOK
<1>2. ASSUME NEW p \in Page, Heartbeat(p) PROVE BeatInv'
  <2>1. /\ UNCHANGED <<lastSeen, loop, tab, beating>> /\ Send("beat")
        /\ timer' = [timer EXCEPT ![p] = 0] /\ renewed' = [renewed EXCEPT ![p] = TRUE]
        /\ Beating(p) /\ timer[p] = Interval
    BY <1>2 DEF Heartbeat, Beating
  <2>2. timer'[p] = 0 /\ BeatSince(0)'
    BY <2>1, SentBeat DEF TypeOK
  <2>3. ASSUME Up PROVE lastSeen # Never /\ lastSeen <= Interval
    <3>1. ~BeatSince(Interval)
      BY MailElements, Timing DEF BeatSince
    <3>2. Heard(p)
      BY <2>1, <2>3, <3>1 DEF BeatInv, Pending
    <3>3. QED
      BY <2>1, <3>2 DEF Heard
  <2>4. ASSUME Up PROVE timer'[p] <= Interval /\ Pending(p)'
    <3>1. lastSeen' # Never /\ lastSeen' <= Interval + timer'[p]
      BY <2>1, <2>2, <2>3, <2>4, Timing
    <3>2. QED
      BY <2>2, <3>1, Timing DEF Pending, BeatSince
  <2>5. QED
    BY <2>1, <2>4, PageStepKeepsBeats DEF TypeOK
<1>3. ASSUME NEW p \in Page, Navigate(p) \/ Download(p) \/ CloseTab(p) PROVE BeatInv'
  <2>1. /\ UNCHANGED <<lastSeen, loop>> /\ HandlePageClosing(p)
        /\ UNCHANGED tab \/ \E s \in {"navigating", "closed"} : tab' = [tab EXCEPT ![p] = s]
        /\ UNCHANGED timer \/ timer' = [timer EXCEPT ![p] = 0]
        /\ UNCHANGED renewed
    BY <1>3 DEF Navigate, Download, CloseTab
  <2>2. /\ beating' = [beating EXCEPT ![p] = FALSE]
        /\ UNCHANGED mail \/ Send("bye")
    BY <2>1 DEF HandlePageClosing
  <2>3. ~Beating(p)'
    BY <2>2 DEF Beating, TypeOK
  <2>4. QED
    BY <2>1, <2>2, <2>3, PageStepKeepsBeats DEF TypeOK
<1>4. ASSUME NEW p \in Page, CrashTab(p) PROVE BeatInv'
  <2>1. /\ UNCHANGED <<lastSeen, loop, renewed, mail>>
        /\ beating' = [beating EXCEPT ![p] = FALSE]
        /\ tab' = [tab EXCEPT ![p] = "closed"] /\ timer' = [timer EXCEPT ![p] = 0]
    BY <1>4 DEF CrashTab
  <2>2. ~Beating(p)'
    BY <2>1 DEF Beating, TypeOK
  <2>3. QED
    BY <2>1, <2>2, PageStepKeepsBeats DEF TypeOK
<1>10. ASSUME NEW p \in Page, Restored(p) PROVE BeatInv'
  <2>1. /\ UNCHANGED <<lastSeen, loop, beating, timer, renewed, mail>>
        /\ tab' = [tab EXCEPT ![p] = "open"] /\ tab[p] = "navigating"
    BY <1>10 DEF Restored
  <2>2. ~Beating(p)'
    BY <2>1 DEF Beating, TypeOK
  <2>3. QED
    BY <2>1, <2>2, PageStepKeepsBeats DEF TypeOK
<1>5. ASSUME NEW i \in DOMAIN mail, Deliver(i) PROVE BeatInv'
  <2> SUFFICES ASSUME NEW p \in Page, Beating(p)'
               PROVE  timer'[p] <= Interval /\ (Heard(p)' \/ Pending(p)')
    BY DEF BeatInv
  <2>1. Up /\ Beating(p) /\ UNCHANGED browser /\ timer[p] \in Nat
    BY <1>5, Timing DEF Deliver, Beating, TypeOK
  <2>2. CASE mail[i].kind = "beat"
    BY <1>5, <2>1, <2>2, Timing DEF Deliver, RecordHeartbeat, Heard, BeatInv
  <2>3. CASE mail[i].kind # "beat"
    <3>1. mail' = RemoveAt(mail, i) /\ UNCHANGED <<lastSeen, tab, beating, timer, renewed>>
      BY <1>5, <2>3 DEF Deliver, RecordPageClosing
    <3>2. \A t \in Nat : BeatSince(t) => BeatSince(t)'
      BY <2>3, <3>1, ByeKeepsBeats
    <3>3. QED
      BY <2>1, <3>1, <3>2, PageKeepsBeat
  <2>4. QED
    BY <2>2, <2>3
<1>6. ASSUME ReadClock \/ Decide \/ UNCHANGED vars PROVE BeatInv'
  <2>1. UNCHANGED <<lastSeen, tab, beating, timer, renewed, mail>> /\ (Up' => Up)
    BY <1>6 DEF ReadClock, Decide, vars, Up
  <2>2. QED
    BY <2>1 DEF BeatInv, Beating, Heard, Pending, BeatSince
<1>7. ASSUME Shutdown PROVE BeatInv'
  BY <1>7 DEF Shutdown, BeatInv, Up
<1>8. ASSUME Tick PROVE BeatInv'
  <2> SUFFICES ASSUME NEW p \in Page, Beating(p)'
               PROVE  timer'[p] <= Interval /\ (Heard(p)' \/ Pending(p)')
    BY DEF BeatInv
  <2>1. Up /\ Beating(p) /\ UNCHANGED renewed
    BY <1>8 DEF Tick, Beating
  <2>2. timer[p] \in Nat /\ timer[p] < Interval /\ timer'[p] = timer[p] + 1
    BY <1>8, <2>1, Timing DEF Tick, Beating, TypeOK
  <2>3. /\ lastSeen # Never => lastSeen \in Nat /\ lastSeen' \in Nat
        /\ lastSeen # Never => lastSeen' # Never /\ lastSeen' <= lastSeen + 1
    BY <1>8, OlderType, Timing DEF Tick, TypeOK, Age, MaxAge, MaxLag
  <2>4. CASE Heard(p)
    BY <2>2, <2>3, <2>4, Timing DEF Heard
  <2>5. CASE Pending(p)
    <3>1. PICK t \in Nat : t = timer[p] /\ BeatSince(t)
      BY <2>2, <2>5 DEF Pending
    <3>2. BeatSince(timer[p])'
      <4>1. BeatSince(t + 1)' /\ timer'[p] = t + 1
        BY <1>8, <2>2, <3>1, TickAgesBeats
      <4>2. QED
        BY <4>1 DEF BeatSince
    <3>3. renewed'[p] => lastSeen' # Never /\ lastSeen' <= Interval + timer'[p]
      BY <2>1, <2>2, <2>3, <2>5, Timing DEF Pending
    <3>4. QED
      BY <2>2, <3>2, <3>3, Timing DEF Pending
  <2>6. QED
    BY <2>1, <2>4, <2>5 DEF BeatInv
<1>9. QED
  BY <1>1, <1>2, <1>3, <1>4, <1>5, <1>6, <1>7, <1>8, <1>10 DEF Next
\* The body of IdleStopIsSound.
IdleStop ==
  Stops /\ closing = Never =>
    \A p \in Page : tab[p] = "open" /\ beating[p] => BeatUnderWay /\ ~renewed[p]

LEMMA IdleStopStep == TypeOK /\ BeatInv /\ [Next]_vars => IdleStop
<1> SUFFICES ASSUME TypeOK, BeatInv, [Next]_vars, Stops, closing = Never,
                    NEW p \in Page, Beating(p)
             PROVE  BeatUnderWay /\ ~renewed[p]
  BY DEF IdleStop, Beating
<1>1. Up /\ timer[p] \in Nat
  BY Timing DEF Stops, Up, TypeOK
<1>2. Decide
  BY DEF Stops, Next, OpenTab, StartPage, Heartbeat, Navigate, Loaded, Restored, Download,
     CloseTab, CrashTab, Deliver, ReadClock, Shutdown, Tick, launcher, vars
<1>3. lag \in Nat /\ (lastSeen # Never => lastSeen >= IdleTimeout + lag)
  BY <1>2 DEF Stops, Decide, ShouldShutdown, Elapsed, TypeOK, MaxLag
<1>4. timer[p] <= Interval /\ (Heard(p) \/ Pending(p))
  BY <1>1 DEF BeatInv
<1>5. lastSeen # Never => lastSeen \in Nat
  BY Timing DEF TypeOK, Age, MaxAge, MaxLag
<1>6. ~Heard(p)
  BY <1>1, <1>3, <1>4, <1>5, Timing DEF Heard
<1>7. PICK i \in DOMAIN mail : mail[i].kind = "beat" /\ mail[i].age >= timer[p]
  BY <1>4, <1>6 DEF Pending, BeatSince
<1>8. timer[p] <= MaxDelay
  BY <1>1, <1>7, MailElements, Timing
<1>9. ~renewed[p]
  BY <1>1, <1>3, <1>4, <1>5, <1>6, <1>8, Timing DEF Pending
<1>10. QED
  BY <1>7, <1>9 DEF BeatUnderWay

\* The idle timeout never stops the server under an open page that keeps
\* sending heartbeats, for any timing with Interval + MaxDelay < IdleTimeout.
THEOREM IdleTimeoutIsSound == Spec => IdleStopIsSound
<1>1. TypeOK /\ BeatInv /\ [Next]_vars => [IdleStop]_vars
  BY IdleStopStep
<1>2. Spec => [][IdleStop]_vars
  BY TypeInit, TypeStep, BeatInit, BeatStep, <1>1, PTL DEF Spec
<1>3. QED
  BY <1>2 DEF IdleStopIsSound, IdleStop
=============================================================================
