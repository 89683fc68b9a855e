------------------------- MODULE SingleInstanceProofs -------------------------
(***************************************************************************)
(* What holds of SingleInstance for any number of processes, message       *)
(* boxes, kills and refused calls: its types, that one process counts of   *)
(* those that have the mutex, and that no request to a running process is  *)
(* lost on its way while it counts alone.                                  *)
(***************************************************************************)
EXTENDS SingleInstance, FiniteSetTheorems, TLAPS

\* Between CreateMutex and the end, a first process holds the mutex, unless it was
\* refused it, and there is one holder of the mutex among them at most: what makes
\* OneInstance inductive is that those on the way to creating the events are counted
\* too, and that no process has a handle before it starts.
Holders == {p \in Processes : pc[p] \in Counting \cup {"first"}}

OneHolder ==
  /\ pc \in [Processes -> Points]
  /\ mutex \subseteq {p \in Processes : pc[p] # "off"}
  /\ Holders \subseteq mutex \cup refused
  /\ \A p, q \in Holders \cap mutex : p = q

LEMMA InitHolder == Init => OneHolder
  BY DEF Init, OneHolder, Holders, Counting, Points

\* A step that leaves the mutex alone, and takes a process no further than from one
\* place among the holders to another, or from one outside to another.
LEMMA GotoKeepsHolders ==
  ASSUME OneHolder, UNCHANGED mutex, refused \subseteq refused',
         NEW p \in Processes, NEW next \in Points \ {"off"}, Goto(p, next),
         next \in Counting \cup {"first"} => p \in Holders
  PROVE  OneHolder'
<1>1. pc' \in [Processes -> Points]
  BY DEF OneHolder, Goto, Points
<1>2. Holders' \subseteq Holders
  BY DEF OneHolder, Goto, Holders, Counting
<1>3. mutex' \subseteq {q \in Processes : pc'[q] # "off"}
  BY DEF OneHolder, Goto
<1> QED
  BY <1>1, <1>2, <1>3 DEF OneHolder

\* A process that ends gives its handle back.
LEMMA EndKeepsHolders ==
  ASSUME OneHolder, UNCHANGED refused, NEW p \in Processes,
         Goto(p, "closed") \/ Goto(p, "ended"), mutex' = mutex \ {p}
  PROVE  OneHolder'
<1>1. pc' \in [Processes -> Points]
  BY DEF OneHolder, Goto, Points
<1>2. Holders' \subseteq Holders \ {p}
  BY DEF OneHolder, Goto, Holders, Counting
<1>3. mutex' \subseteq {q \in Processes : pc'[q] # "off"}
  BY DEF OneHolder, Goto
<1> QED
  BY <1>1, <1>2, <1>3 DEF OneHolder

\* Only a process that finds no handle of the mutex, or is refused one, becomes a
\* holder.
LEMMA CreateMutexKeepsHolders ==
  ASSUME OneHolder, NEW p \in Processes, NEW c \in Commands, CreateMutex(p, c)
  PROVE  OneHolder'
<1>1. PICK got \in BOOLEAN :
        /\ IF got THEN UNCHANGED refused ELSE refused' = refused \cup {p}
        /\ mutex' = IF got THEN mutex \cup {p} ELSE mutex
        /\ Goto(p, CASE ~First(got)               -> "second"
                     [] First(got) /\ c = "exit"  -> "leaving"
                     [] First(got) /\ c # "exit"  -> "first")
  BY DEF CreateMutex, Refuse
<1>2. PICK next \in {"second", "leaving", "first"} :
        Goto(p, next) /\ (next = "second" <=> ~First(got))
  BY <1>1 DEF Commands
<1>3. pc[p] = "off" /\ p \notin mutex /\ p \notin Holders
  BY DEF CreateMutex, OneHolder, Holders, Counting
<1>4. /\ pc' \in [Processes -> Points]
      /\ mutex' \subseteq {q \in Processes : pc'[q] # "off"}
      /\ Holders' \subseteq Holders \cup IF First(got) THEN {p} ELSE {}
  BY <1>1, <1>2 DEF OneHolder, Goto, Holders, Counting, Points
<1>5. Holders' \subseteq mutex' \cup refused'
  BY <1>1, <1>4 DEF OneHolder
<1>6. \A q, r \in Holders' \cap mutex' : q = r
  <2>1. CASE got /\ First(got)
    <3>1. mutex' = {p}
      BY <1>1, <2>1 DEF First
    <3> QED
      BY <3>1
  <2>2. CASE got /\ ~First(got)
    BY <1>1, <1>3, <1>4, <2>2 DEF OneHolder
  <2>3. CASE ~got
    BY <1>1, <1>3, <1>4, <2>3 DEF OneHolder
  <2> QED
    BY <2>1, <2>2, <2>3
<1> QED
  BY <1>4, <1>5, <1>6 DEF OneHolder

LEMMA UnchangedKeepsHolders ==
  ASSUME OneHolder, UNCHANGED <<pc, mutex>>, refused \subseteq refused'
  PROVE  OneHolder'
  BY DEF OneHolder, Holders

LEMMA StepHolder == OneHolder /\ [Next]_vars => OneHolder'
<1> SUFFICES ASSUME OneHolder, [Next]_vars
             PROVE  OneHolder'
  OBVIOUS
<1> USE DEF mishaps, Refuse
<1>1. CASE UNCHANGED vars
  BY <1>1, UnchangedKeepsHolders DEF vars
<1>2. ASSUME NEW p \in Processes, NEW c \in Commands, CreateMutex(p, c)
      PROVE  OneHolder'
  BY <1>2, CreateMutexKeepsHolders
<1>3. ASSUME NEW p \in Processes, Main(p)
      PROVE  OneHolder'
  <2>1. CASE SignalFirst(p)
    BY <2>1, GotoKeepsHolders DEF SignalFirst, Counting, Points
  <2>2. CASE Leave(p)
    BY <2>2, EndKeepsHolders DEF Leave
  <2>3. CASE CreateEvents(p)
    BY <2>3, GotoKeepsHolders DEF CreateEvents, Holders, Counting, Points
  <2>4. CASE CreateWindow(p)
    BY <2>4, GotoKeepsHolders DEF CreateWindow, Holders, Counting, Points
  <2>5. CASE SetExitEvent(p)
    BY <2>5, GotoKeepsHolders DEF SetExitEvent, Holders, Counting, Points
  <2>6. CASE CloseHandles(p)
    BY <2>6, EndKeepsHolders DEF CloseHandles
  <2>7. CASE End(p)
    BY <2>7, GotoKeepsHolders DEF End, Counting, Points
  <2>8. CASE ShowWindow(p)
    BY <2>8, UnchangedKeepsHolders DEF ShowWindow
  <2>9. CASE ExitRequested(p)
    BY <2>9, GotoKeepsHolders DEF ExitRequested, BeginExit, Holders, Counting, Points
  <2>10. CASE BoxReturns(p)
    <3>1. CASE UNCHANGED pc
      BY <2>10, <3>1, UnchangedKeepsHolders DEF BoxReturns
    <3>2. CASE BeginExit(p) /\ pc[p] = "running"
      BY <2>10, <3>2, GotoKeepsHolders DEF BoxReturns, BeginExit, Holders, Counting, Points
    <3> QED
      BY <2>10, <3>1, <3>2 DEF BoxReturns
  <2>11. CASE DestroyWindow(p)
    BY <2>11, GotoKeepsHolders DEF DestroyWindow, Holders, Counting, Points
  <2>12. CASE Quit(p)
    BY <2>12, GotoKeepsHolders DEF Quit, Holders, Counting, Points
  <2> QED
    BY <1>3, <2>1, <2>2, <2>3, <2>4, <2>5, <2>6, <2>7, <2>8, <2>9, <2>10, <2>11, <2>12
    DEF Main
<1>4. ASSUME NEW p \in Processes, SignalThread(p)
      PROVE  OneHolder'
  BY <1>4, UnchangedKeepsHolders DEF SignalThread, Wake, Post, GiveUp, LeaveLoop
<1>5. ASSUME NEW p \in Processes, AskExit(p) \/ HideWindow(p)
      PROVE  OneHolder'
  BY <1>5, UnchangedKeepsHolders DEF AskExit, HideWindow
<1>6. ASSUME NEW p \in Processes, NEW i \in DOMAIN boxes[p], NEW answer \in {"yes", "no"},
             Answer(p, i, answer)
      PROVE  OneHolder'
  BY <1>6, UnchangedKeepsHolders DEF Answer
<1>7. ASSUME NEW p \in Processes, Kill(p)
      PROVE  OneHolder'
  BY <1>7, EndKeepsHolders DEF Kill
<1> QED
  BY <1>1, <1>2, <1>3, <1>4, <1>5, <1>6, <1>7 DEF Next

\* Of any number of processes, started, killed and refused whatever, at most one that
\* has the mutex counts presses, and one that counts without was refused it.
THEOREM OnlyOneCounts == Spec => []OneInstance
<1>1. OneHolder => OneInstance
  <2> SUFFICES ASSUME OneHolder
               PROVE  OneInstance
    OBVIOUS
  <2> DEFINE both == Owners \cap mutex
  <2>1. Owners \subseteq Holders
    BY DEF Owners, Holders
  <2>2. both = {} \/ \E p \in both : both = {p}
    BY <2>1 DEF OneHolder
  <2>3. Cardinality(both) <= 1
    <3>1. \A p \in both : both = {p} => Cardinality(both) = 1
      BY FS_Singleton
    <3>2. both = {} => Cardinality(both) = 0
      BY FS_EmptySet
    <3> QED
      BY <2>2, <3>1, <3>2
  <2> QED
    BY <2>1, <2>3 DEF OneHolder, OneInstance
<1> QED
  BY <1>1, InitHolder, StepHolder, PTL DEF Spec

-----------------------------------------------------------------------------
LEMMA InitType == Init => TypeOK
<1> SUFFICES ASSUME Init
             PROVE  TypeOK
  OBVIOUS
<1>1. boxes \in [Processes -> Seq({"open", "yes", "no"})]
      /\ \A p \in Processes : Len(boxes[p]) <= asked /\ boxes[p] = << >>
  BY DEF Init
<1> QED
  BY <1>1 DEF Init, TypeOK, Points, Counting, Owners, WithWindow, Commands

\* The events are set, and closed, as a whole.
LEMMA SetFacts ==
  ASSUME TypeOK, NEW p \in Processes, SignalFirst(p) \/ SetExitEvent(p)
  PROVE  /\ show_event' \in BOOLEAN /\ exit_event' \in BOOLEAN
         /\ show_event => show_event'
         /\ exit_event => exit_event'
         /\ UNCHANGED listeners
         /\ show_event' \/ exit_event' => listeners # {}
<1> USE DEF TypeOK
<1>1. CASE SignalFirst(p)
  <2>1. \/ /\ listeners # {}
           /\ show_event' = (show_event \/ Request(p) = "show")
           /\ exit_event' = (exit_event \/ Request(p) = "exit")
        \/ UNCHANGED <<show_event, exit_event>>
    BY <1>1, Zenon DEF SignalFirst
  <2>2. UNCHANGED listeners
    BY <1>1 DEF SignalFirst
  <2>3. CASE /\ listeners # {}
             /\ show_event' = (show_event \/ Request(p) = "show")
             /\ exit_event' = (exit_event \/ Request(p) = "exit")
    BY <2>2, <2>3, Zenon
  <2>4. CASE UNCHANGED <<show_event, exit_event>>
    BY <2>2, <2>4
  <2> QED
    BY <2>1, <2>3, <2>4
<1>2. CASE SetExitEvent(p)
  BY <1>2, Zenon DEF SetExitEvent
<1> QED
  BY <1>1, <1>2

LEMMA CloseFacts ==
  ASSUME TypeOK, NEW p \in Processes, CloseEvents(p)
  PROVE  /\ show_event' \in BOOLEAN /\ exit_event' \in BOOLEAN
         /\ listeners' = listeners \ {p}
         /\ show_event' \/ exit_event' => listeners' # {}
         /\ p \in listeners \/ ((show_event => show_event') /\ (exit_event => exit_event'))
  BY DEF CloseEvents, TypeOK

\* A message is posted to a window there is.
LEMMA PostFacts ==
  ASSUME TypeOK, NEW p \in Processes, Post(p)
  PROVE  /\ posted' \in [Processes -> SUBSET {"show", "exit"}]
         /\ \A q \in Processes : posted[q] \subseteq posted'[q]
         /\ \A q \in Processes : posted'[q] # {} => q \in WithWindow
         /\ refused' \subseteq Processes
<1>1. PICK w \in WithWindow :
        \/ posted' = [posted EXCEPT ![w] = @ \cup {signals[p]}] /\ UNCHANGED refused
        \/ refused' = refused \cup {p} /\ UNCHANGED posted
  BY DEF Post, Refuse
<1>2. /\ posted \in [Processes -> SUBSET {"show", "exit"}] /\ w \in Processes
      /\ \A q \in Processes : posted[q] # {} => q \in WithWindow
      /\ refused \subseteq Processes /\ signals[p] \in {"show", "exit"}
  BY DEF TypeOK, Post, WithWindow
<1> QED
  BY <1>1, <1>2

LEMMA StepType == TypeOK /\ [Next]_vars => TypeOK'
<1> SUFFICES ASSUME TypeOK, [Next]_vars
             PROVE  TypeOK'
  OBVIOUS
<1> USE DEF TypeOK, Points, Counting, Owners, WithWindow, Goto, mishaps, Refuse
<1>1. CASE UNCHANGED vars
  BY <1>1 DEF vars
<1>2. ASSUME NEW p \in Processes, NEW c \in Commands, CreateMutex(p, c)
      PROVE  TypeOK'
  BY <1>2 DEF CreateMutex, questions, events
<1>3. ASSUME NEW p \in Processes, Main(p)
      PROVE  TypeOK'
  <2>1. CASE SignalFirst(p)
    BY <2>1, SetFacts DEF SignalFirst, questions
  <2>2. CASE Leave(p)
    BY <2>2 DEF Leave, questions, events
  <2>3. CASE CreateEvents(p)
    BY <2>3 DEF CreateEvents, questions, events
  <2>4. CASE CreateWindow(p)
    BY <2>4 DEF CreateWindow, questions, events
  <2>5. CASE SetExitEvent(p)
    BY <2>5, SetFacts DEF SetExitEvent, questions
  <2>6. CASE CloseHandles(p)
    <3>1. /\ signals' \in [Processes -> {"none", "waiting", "show", "exit", "failed", "done"}]
          /\ \A q \in Processes : signals'[q] # "none" <=> signals[q] # "none"
      BY <2>6 DEF CloseHandles
    <3>2. /\ pc' = [pc EXCEPT ![p] = "closed"] /\ pc[p] = "joining"
          /\ mutex' = mutex \ {p} /\ CloseEvents(p)
          /\ UNCHANGED <<command, posted, visible, boxes, asked, kills, refused>>
      BY <2>6 DEF CloseHandles, questions
    <3> QED
      BY <3>1, <3>2, CloseFacts
  <2>7. CASE End(p)
    BY <2>7 DEF End, questions, events
  <2>8. CASE ShowWindow(p)
    BY <2>8 DEF ShowWindow, questions, events
  <2>9. CASE ExitRequested(p)
    BY <2>9 DEF ExitRequested, BeginExit, questions, events
  <2>10. CASE BoxReturns(p)
    <3>1. boxes[p] \in Seq({"open", "yes", "no"}) /\ boxes[p] # << >>
      BY <2>10 DEF BoxReturns
    <3>2. /\ Front(boxes[p]) \in Seq({"open", "yes", "no"})
          /\ Len(Front(boxes[p])) <= Len(boxes[p])
      BY <3>1 DEF Front
    <3>3. /\ boxes' \in [Processes -> Seq({"open", "yes", "no"})]
          /\ \A q \in Processes : Len(boxes'[q]) <= asked
          /\ \A q \in Processes : boxes'[q] # << >> => boxes[q] # << >>
      <4>1. boxes' = [boxes EXCEPT ![p] = Front(boxes[p])]
        BY <2>10 DEF BoxReturns
      <4> QED
        BY <3>1, <3>2, <4>1
    <3>4. \/ pc' = [pc EXCEPT ![p] = "closing"] /\ pc[p] = "running"
          \/ pc' = pc
      BY <2>10 DEF BoxReturns, BeginExit
    <3>5. UNCHANGED <<command, mutex, show_event, exit_event, listeners, signals, posted,
                      visible, asked, kills, refused>>
      BY <2>10 DEF BoxReturns, events
    <3>6. CASE pc' = [pc EXCEPT ![p] = "closing"] /\ pc[p] = "running"
      BY <3>3, <3>5, <3>6
    <3>7. CASE pc' = pc
      BY <3>3, <3>5, <3>7
    <3> QED
      BY <3>4, <3>6, <3>7
  <2>11. CASE DestroyWindow(p)
    BY <2>11 DEF DestroyWindow, questions, events
  <2>12. CASE Quit(p)
    BY <2>12 DEF Quit, questions, events
  <2> QED
    BY <1>3, <2>1, <2>2, <2>3, <2>4, <2>5, <2>6, <2>7, <2>8, <2>9, <2>10, <2>11, <2>12
    DEF Main
<1>4. ASSUME NEW p \in Processes, SignalThread(p)
      PROVE  TypeOK'
  <2>1. CASE Wake(p)
    <3>1. /\ \/ signals' = [signals EXCEPT ![p] = "show"]
             \/ signals' = [signals EXCEPT ![p] = "exit"]
          /\ signals[p] = "waiting"
      BY <2>1, Zenon DEF Wake
    <3>2. /\ show_event' \in BOOLEAN /\ exit_event' \in BOOLEAN
          /\ p \in listeners /\ UNCHANGED listeners
      BY <2>1 DEF Wake
    <3>3. UNCHANGED <<pc, command, mutex, posted, visible, boxes, asked, kills, refused>>
      BY <2>1 DEF Wake, questions
    <3>4. /\ signals' \in [Processes -> {"none", "waiting", "show", "exit", "failed", "done"}]
          /\ \A q \in Processes : signals'[q] # "none" <=> signals[q] # "none"
      BY <3>1
    <3>5. listeners' \subseteq Owners' /\ (show_event' \/ exit_event' => listeners' # {})
      BY <3>2, <3>3
    <3> QED
      BY <3>2, <3>3, <3>4, <3>5
  <2>2. CASE Post(p)
    <3>1. /\ posted' \in [Processes -> SUBSET {"show", "exit"}]
          /\ \A q \in Processes : posted'[q] # {} => q \in WithWindow
          /\ refused' \subseteq Processes
      BY <2>2, PostFacts
    <3>2. /\ signals' \in [Processes -> {"none", "waiting", "show", "exit", "failed", "done"}]
          /\ \A q \in Processes : signals'[q] # "none" <=> signals[q] # "none"
      BY <2>2 DEF Post, Again
    <3>3. UNCHANGED <<pc, command, mutex, show_event, exit_event, listeners, visible, boxes,
                      asked, kills>>
      BY <2>2 DEF Post, questions, events
    <3> QED
      BY <3>1, <3>2, <3>3
  <2>3. CASE GiveUp(p)
    BY <2>3 DEF GiveUp, Again, questions, events
  <2>4. CASE LeaveLoop(p)
    BY <2>4 DEF LeaveLoop, questions, events
  <2> QED
    BY <1>4, <2>1, <2>2, <2>3, <2>4 DEF SignalThread
<1>5. ASSUME NEW p \in Processes, AskExit(p)
      PROVE  TypeOK'
  BY <1>5 DEF AskExit, events
<1>6. ASSUME NEW p \in Processes, HideWindow(p)
      PROVE  TypeOK'
  BY <1>6 DEF HideWindow, questions, events
<1>7. ASSUME NEW p \in Processes, NEW i \in DOMAIN boxes[p], NEW answer \in {"yes", "no"},
             Answer(p, i, answer)
      PROVE  TypeOK'
  BY <1>7 DEF Answer, events
<1>8. ASSUME NEW p \in Processes, Kill(p)
      PROVE  TypeOK'
  BY <1>8, CloseFacts DEF Kill
<1> HIDE DEF TypeOK, Points, Counting, Owners, WithWindow, Goto, mishaps, Refuse
<1> QED
  BY <1>1, <1>2, <1>3, <1>4, <1>5, <1>6, <1>7, <1>8 DEF Next

\* For any number of processes: only those that count listen to the events, which are
\* set only while one does, only those with a window have a message waiting, and only
\* those whose window is there, or has just gone, are still in a message box.
THEOREM TypeCorrect == Spec => []TypeOK
  BY InitType, StepType, PTL DEF Spec

-----------------------------------------------------------------------------
(* Requests on their way. *)
\* What a step must leave to a running process that counts alone.
KeepsRequests ==
  \A p \in Processes, r \in {"show", "exit"} :
    pc[p] = "running" /\ Owners = {p} /\ Requested(p, r) =>
      Requested(p, r)' \/ pc'[p] # "running" \/ (r = "show" /\ visible'[p])

\* A step that sets events and posts messages, and takes none away.
LEMMA MoreRequests ==
  ASSUME UNCHANGED signals,
         listeners \subseteq listeners',
         show_event => show_event',
         exit_event => exit_event',
         \A p \in Processes : posted[p] \subseteq posted'[p]
  PROVE  KeepsRequests
  BY DEF KeepsRequests, Requested

\* A step of a process that does not run, on its own handles, thread and messages:
\* when another counts alone, it is none of the listeners.
LEMMA OthersRequests ==
  ASSUME TypeOK, NEW p \in Processes, pc[p] # "running",
         listeners \ {p} \subseteq listeners',
         p \in listeners \/ ((show_event => show_event') /\ (exit_event => exit_event')),
         \A q \in Processes \ {p} : signals'[q] = signals[q] /\ posted'[q] = posted[q]
  PROVE  KeepsRequests
<1> SUFFICES ASSUME NEW q \in Processes, NEW r \in {"show", "exit"},
                    pc[q] = "running", Owners = {q}, Requested(q, r)
             PROVE  Requested(q, r)'
  BY DEF KeepsRequests
<1>1. q # p /\ p \notin listeners
  BY DEF TypeOK
<1> QED
  BY <1>1 DEF Requested

\* The SignalThread takes a request from the event, ...
LEMMA WakeKeepsRequests ==
  ASSUME TypeOK, NEW p \in Processes, Wake(p)
  PROVE  KeepsRequests
<1> SUFFICES ASSUME NEW q \in Processes, NEW r \in {"show", "exit"},
                    pc[q] = "running", Owners = {q}, Requested(q, r)
             PROVE  Requested(q, r)'
  BY DEF KeepsRequests
<1>1. q = p
  BY DEF Wake, TypeOK
<1>2. /\ signals[p] = "waiting" /\ p \in listeners /\ UNCHANGED <<listeners, posted>>
      /\ DOMAIN signals = Processes
  BY DEF Wake, TypeOK
<1>3. CASE show_event' = FALSE /\ signals' = [signals EXCEPT ![p] = "show"]
           /\ UNCHANGED exit_event
  BY <1>1, <1>2, <1>3 DEF Requested
<1>4. CASE exit_event' = FALSE /\ signals' = [signals EXCEPT ![p] = "exit"]
           /\ UNCHANGED show_event
  BY <1>1, <1>2, <1>4 DEF Requested
<1> QED
  BY <1>3, <1>4 DEF Wake

\* ... and posts it to the window it finds: while its process counts alone, that of
\* its own process.
LEMMA PostKeepsRequests ==
  ASSUME TypeOK, NEW p \in Processes, Post(p)
  PROVE  KeepsRequests
<1> SUFFICES ASSUME NEW q \in Processes, NEW r \in {"show", "exit"},
                    pc[q] = "running", Owners = {q}, Requested(q, r)
             PROVE  Requested(q, r)'
  BY DEF KeepsRequests
<1>1. UNCHANGED <<show_event, exit_event, listeners>> /\ DOMAIN signals = Processes
  BY DEF Post, events, TypeOK
<1>2. WithWindow \subseteq {q}
  BY DEF WithWindow, Owners, Counting
<1>3. \A s \in Processes : posted[s] \subseteq posted'[s]
  BY PostFacts
<1>4. CASE q = p
  <2>1. posted' = [posted EXCEPT ![p] = @ \cup {signals[p]}]
    BY <1>2, <1>4 DEF Post
  <2>2. signals[p] \in posted'[p]
    BY <2>1 DEF TypeOK
  <2> QED
    BY <1>1, <1>3, <1>4, <2>2 DEF Requested
<1>5. CASE q # p
  BY <1>1, <1>3, <1>5 DEF Post, Requested
<1> QED
  BY <1>4, <1>5

\* It gives up only where there is no window, so never while its process runs.
LEMMA GiveUpKeepsRequests ==
  ASSUME TypeOK, NEW p \in Processes, GiveUp(p) \/ LeaveLoop(p)
  PROVE  KeepsRequests
<1>1. /\ UNCHANGED <<show_event, exit_event, listeners, posted>>
      /\ \A q \in Processes \ {p} : signals'[q] = signals[q]
  BY DEF GiveUp, LeaveLoop, events, TypeOK
<1>2. CASE GiveUp(p)
  <2>1. pc[p] # "running"
    BY <1>2 DEF GiveUp, WithWindow
  <2> QED
    BY <1>1, <2>1, OthersRequests
<1>3. CASE LeaveLoop(p)
  BY <1>1, <1>3 DEF LeaveLoop, KeepsRequests, Requested
<1> QED
  BY <1>2, <1>3

\* The window shows itself: that request is done, and an exit stays posted.
LEMMA ShowKeepsRequests ==
  ASSUME TypeOK, NEW p \in Processes, ShowWindow(p)
  PROVE  KeepsRequests
<1>1. /\ UNCHANGED <<show_event, exit_event, listeners, signals>>
      /\ posted' = [posted EXCEPT ![p] = posted[p] \ {"show"}]
      /\ visible' = [visible EXCEPT ![p] = TRUE]
      /\ DOMAIN posted = Processes /\ DOMAIN visible = Processes
  BY DEF ShowWindow, events, TypeOK
<1>2. /\ posted'[p] = posted[p] \ {"show"} /\ visible'[p]
      /\ \A q \in Processes \ {p} : posted'[q] = posted[q]
  BY <1>1
<1> QED
  BY <1>1, <1>2 DEF KeepsRequests, Requested

LEMMA StepKeepsRequests == TypeOK /\ [Next]_vars => [KeepsRequests]_vars
<1> SUFFICES ASSUME TypeOK, Next
             PROVE  KeepsRequests
  OBVIOUS
<1> USE DEF events
<1>1. ASSUME NEW p \in Processes, NEW c \in Commands, CreateMutex(p, c)
      PROVE  KeepsRequests
  BY <1>1, MoreRequests DEF CreateMutex
<1>2. ASSUME NEW p \in Processes, Main(p)
      PROVE  KeepsRequests
  <2>1. CASE SignalFirst(p)
    BY <2>1, SetFacts, MoreRequests DEF SignalFirst
  <2>2. CASE Leave(p) \/ CreateWindow(p) \/ ExitRequested(p) \/ BoxReturns(p) \/ Quit(p)
    BY <2>2, MoreRequests DEF Leave, CreateWindow, ExitRequested, BoxReturns, Quit
  <2>3. CASE CreateEvents(p)
    BY <2>3, OthersRequests DEF CreateEvents, TypeOK
  <2>4. CASE SetExitEvent(p)
    BY <2>4, SetFacts, MoreRequests DEF SetExitEvent
  <2>5. CASE CloseHandles(p)
    BY <2>5, OthersRequests, CloseFacts DEF CloseHandles, TypeOK
  <2>6. CASE End(p)
    BY <2>6, OthersRequests DEF End, TypeOK
  <2>7. CASE ShowWindow(p)
    BY <2>7, ShowKeepsRequests
  <2>8. CASE DestroyWindow(p)
    BY <2>8, OthersRequests DEF DestroyWindow, TypeOK
  <2> QED
    BY <1>2, <2>1, <2>2, <2>3, <2>4, <2>5, <2>6, <2>7, <2>8 DEF Main
<1>3. ASSUME NEW p \in Processes, SignalThread(p)
      PROVE  KeepsRequests
  BY <1>3, WakeKeepsRequests, PostKeepsRequests, GiveUpKeepsRequests DEF SignalThread
<1>4. ASSUME NEW p \in Processes, AskExit(p) \/ HideWindow(p)
      PROVE  KeepsRequests
  BY <1>4, MoreRequests DEF AskExit, HideWindow
<1>5. ASSUME NEW p \in Processes, NEW i \in DOMAIN boxes[p], NEW answer \in {"yes", "no"},
             Answer(p, i, answer)
      PROVE  KeepsRequests
  BY <1>5, MoreRequests DEF Answer
<1>6. ASSUME NEW p \in Processes, Kill(p)
      PROVE  KeepsRequests
  <2>1. /\ pc'[p] = "ended"
        /\ \A q \in Processes \ {p} : signals'[q] = signals[q] /\ posted'[q] = posted[q]
        /\ CloseEvents(p)
    BY <1>6 DEF Kill, Goto, TypeOK
  <2>2. CASE pc[p] = "running"
    BY <2>1, <2>2 DEF KeepsRequests, Owners, Counting
  <2>3. CASE pc[p] # "running"
    BY <2>1, <2>3, OthersRequests, CloseFacts
  <2> QED
    BY <2>2, <2>3
<1> QED
  BY <1>1, <1>2, <1>3, <1>4, <1>5, <1>6 DEF Next

\* However many processes come and go, are asked, killed and asked again: a request
\* that has reached a running process which counts alone is not lost before its window
\* has it, because the one window there can be is its own.
THEOREM RequestsAreKept == Spec => RequestsKept
<1>1. [KeepsRequests]_vars
        <=> [\A p \in Processes, r \in {"show", "exit"} :
               pc[p] = "running" /\ Owners = {p} /\ Requested(p, r) =>
                 Requested(p, r)' \/ pc'[p] # "running" \/ (r = "show" /\ visible'[p])]_vars
  BY DEF KeepsRequests
<1> QED
  BY <1>1, InitType, StepType, StepKeepsRequests, PTL DEF Spec, RequestsKept
=============================================================================
