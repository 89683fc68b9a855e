---------------------------- MODULE SingleInstance ----------------------------
(***************************************************************************)
(* The life of the program (src/app/main.cpp): which process becomes the   *)
(* one that counts, how a later one hands its request over, and how the    *)
(* first ends.  Kernel objects live as long as a handle to them is open; a *)
(* process that ends closes its handles.  Processes with other rights may  *)
(* be refused an object that another of them has made, or its window.      *)
(***************************************************************************)
EXTENDS Naturals, FiniteSets, SequencesExt

CONSTANTS
  Processes,  \* processes that may be started, in the order of their calls of CreateMutex
  MaxKills,   \* bound: processes killed
  MaxRefused, \* bound: processes that the system refuses something
  MaxBoxes,   \* bound: message boxes opened, in all
  MaxMishaps  \* bound: all three together

ASSUME InstanceAssumption ==
  Processes \subseteq Nat /\ {MaxKills, MaxRefused, MaxBoxes, MaxMishaps} \subseteq Nat

\* The command lines: none, --background, --exit.
Commands == {"show", "background", "exit"}

VARIABLES
  pc,          \* where each process is
  command,     \* what each was started with
  mutex,       \* processes with a handle of the mutex
  show_event,  \* the two events, shared by name: set or not
  exit_event,
  listeners,   \* processes with a handle of the events
  signals,     \* the SignalThread of each process
  posted,      \* the messages waiting for its window
  visible,     \* its window is shown
  boxes,       \* its open message boxes, one in the other, and their answers
  asked, kills,
  refused      \* processes that the system has refused something

vars == <<pc, command, mutex, show_event, exit_event, listeners, signals, posted, visible,
          boxes, asked, kills, refused>>

\* A process counts, or is about to, or has just ended it; it has a window.
Counting == {"launching", "running", "closing", "quitting", "ending", "joining"}
Points == Counting \cup {"off", "second", "leaving", "first", "closed", "ended"}
WithWindow == {p \in Processes : pc[p] \in {"running", "closing"}}
Owners     == {p \in Processes : pc[p] \in Counting}

Init ==
  /\ pc = [p \in Processes |-> "off"]
  /\ command = [p \in Processes |-> "show"]
  /\ mutex = {}
  /\ show_event = FALSE
  /\ exit_event = FALSE
  /\ listeners = {}
  /\ signals = [p \in Processes |-> "none"]
  /\ posted = [p \in Processes |-> {}]
  /\ visible = [p \in Processes |-> FALSE]
  /\ boxes = [p \in Processes |-> << >>]
  /\ asked = 0
  /\ kills = 0
  /\ refused = {}

Goto(p, next) == pc' = [pc EXCEPT ![p] = next]

events    == <<show_event, exit_event, listeners>>
questions == <<boxes, asked>>
mishaps   == <<kills, refused>>

\* The bound of boxes, kills and refusals together.
Mishap == asked + kills + Cardinality(refused) < MaxMishaps

\* A call of p fails: access is denied, now and again.
Refuse(p) ==
  /\ p \in refused \/ (Mishap /\ Cardinality(refused) < MaxRefused)
  /\ refused' = refused \cup {p}

-----------------------------------------------------------------------------
\* wWinMain.

\* Mutant: a process looks for the window of another instead.
NoWindow(got) == ~got \/ WithWindow = {}

\* GetLastError() != ERROR_ALREADY_EXISTS: nobody has the mutex open, or this
\* process did not get a handle of it, for whatever reason.
First(got) == ~got \/ mutex = {}

\* A process starts with a command line; until it opens the mutex nobody notices it.
CreateMutex(p, c) ==
  /\ pc[p] = "off"
  /\ \A q \in Processes : q < p => pc[q] # "off"
  /\ command' = [command EXCEPT ![p] = c]
  /\ \E got \in BOOLEAN :
       /\ IF got THEN UNCHANGED refused ELSE Refuse(p)
       /\ mutex' = IF got THEN mutex \cup {p} ELSE mutex
       /\ Goto(p, CASE ~First(got)               -> "second"
                    [] First(got) /\ c = "exit"  -> "leaving"
                    [] First(got) /\ c # "exit"  -> "first")
  /\ UNCHANGED <<events, signals, posted, visible, questions, kills>>

Request(p) == command[p]

\* Mutant: only --exit is handed over.
HandsOverExit(p) == command[p] = "exit"

\* !(background && !request_exit)
HandsOver(p) == command[p] # "background"

\* A later process sets the event it opened, if there is one, and it may.
SignalFirst(p) ==
  /\ pc[p] = "second"
  /\ Goto(p, "leaving")
  /\ \/ /\ listeners # {} /\ HandsOver(p)
        /\ show_event' = (show_event \/ Request(p) = "show")
        /\ exit_event' = (exit_event \/ Request(p) = "exit")
        /\ UNCHANGED refused
     \/ (listeners = {} \/ ~HandsOver(p)) /\ UNCHANGED <<show_event, exit_event, refused>>
     \/ Refuse(p) /\ UNCHANGED <<show_event, exit_event>>
  /\ UNCHANGED <<command, mutex, listeners, signals, posted, visible, questions, kills>>

\* CloseHandle(mutex); return.
Leave(p) ==
  /\ pc[p] = "leaving"
  /\ mutex' = mutex \ {p}
  /\ Goto(p, "ended")
  /\ UNCHANGED <<command, events, signals, posted, visible, questions, mishaps>>

\* Mutant: nobody waits for the events.
CreateEventsOnly(p) ==
  /\ pc[p] = "first"
  /\ Goto(p, "launching")
  /\ UNCHANGED <<command, mutex, events, signals, posted, visible, questions, mishaps>>

\* The first process creates the events, or opens those there are, and creates the
\* SignalThread; it may be refused the handles ...
CreateEvents(p) ==
  /\ pc[p] = "first"
  /\ Goto(p, "launching")
  /\ \/ /\ listeners' = listeners \cup {p}
        /\ signals' = [signals EXCEPT ![p] = "waiting"]
        /\ UNCHANGED refused
     \/ /\ Refuse(p)
        /\ signals' = [signals EXCEPT ![p] = "failed"]
        /\ UNCHANGED listeners
  /\ UNCHANGED <<command, mutex, show_event, exit_event, posted, visible, questions, kills>>

\* ... and its window, in RunApplication.
CreateWindow(p) ==
  /\ pc[p] = "launching"
  /\ Goto(p, "running")
  /\ visible' = [visible EXCEPT ![p] = command[p] # "background"]
  /\ UNCHANGED <<command, mutex, events, signals, posted, questions, mishaps>>

\* After RunApplication: wake the SignalThread ...
SetExitEvent(p) ==
  /\ pc[p] = "ending"
  /\ Goto(p, "joining")
  /\ exit_event' = (exit_event \/ p \in listeners)
  /\ UNCHANGED <<command, mutex, show_event, listeners, signals, posted, visible, questions,
                 mishaps>>

\* The events are gone with the last handle, whether set or not.
CloseEvents(p) ==
  /\ listeners' = listeners \ {p}
  /\ show_event' = (show_event /\ listeners' # {})
  /\ exit_event' = (exit_event /\ listeners' # {})

\* ... wait for it, two seconds at most, and close the handles.  A thread that was on
\* its way to wait finds closed handles; one that waits goes on waiting.
CloseHandles(p) ==
  /\ pc[p] = "joining"
  /\ Goto(p, "closed")
  /\ mutex' = mutex \ {p}
  /\ CloseEvents(p)
  /\ \/ /\ signals[p] = "waiting"
        /\ signals' = [signals EXCEPT ![p] = "failed"]
     \/ /\ signals[p] = "waiting" => ~show_event /\ ~exit_event
        /\ UNCHANGED signals
  /\ UNCHANGED <<command, posted, visible, questions, mishaps>>

\* The process ends, and with it its SignalThread, wherever that is.
End(p) ==
  /\ pc[p] = "closed"
  /\ Goto(p, "ended")
  /\ signals' = [signals EXCEPT ![p] = "none"]
  /\ UNCHANGED <<command, mutex, events, posted, visible, questions, mishaps>>

-----------------------------------------------------------------------------
\* SignalThread.

\* WaitForMultipleObjects takes the first event that is set, and resets it.
Wake(p) ==
  /\ signals[p] = "waiting" /\ p \in listeners
  /\ \/ /\ show_event
        /\ show_event' = FALSE
        /\ signals' = [signals EXCEPT ![p] = "show"]
        /\ UNCHANGED exit_event
     \/ /\ ~show_event /\ exit_event
        /\ exit_event' = FALSE
        /\ signals' = [signals EXCEPT ![p] = "exit"]
        /\ UNCHANGED show_event
  /\ UNCHANGED <<pc, command, mutex, listeners, posted, visible, questions, mishaps>>

\* The thread waits again; without handles that fails at once.
Again(p) == IF p \in listeners THEN "waiting" ELSE "failed"

\* FindWindow finds the window, of whatever process, and the message is posted; to
\* that of another process it may be refused.
Post(p) ==
  /\ signals[p] \in {"show", "exit"}
  /\ \E q \in WithWindow :
       \/ posted' = [posted EXCEPT ![q] = @ \cup {signals[p]}] /\ UNCHANGED refused
       \/ q # p /\ Refuse(p) /\ UNCHANGED posted
  /\ signals' = [signals EXCEPT ![p] = IF @ = "exit" THEN "done" ELSE Again(p)]
  /\ UNCHANGED <<pc, command, mutex, events, visible, questions, kills>>

\* There is none: the request is dropped, after a hundred attempts.
GiveUp(p) ==
  /\ signals[p] \in {"show", "exit"}
  /\ WithWindow = {}
  /\ signals' = [signals EXCEPT ![p] = Again(p)]
  /\ UNCHANGED <<pc, command, mutex, events, posted, visible, questions, mishaps>>

\* A wait that failed ends the thread when it finds a window, and is tried again when
\* it finds none.
LeaveLoop(p) ==
  /\ signals[p] = "failed"
  /\ WithWindow # {}
  /\ signals' = [signals EXCEPT ![p] = "done"]
  /\ UNCHANGED <<pc, command, mutex, events, posted, visible, questions, mishaps>>

-----------------------------------------------------------------------------
\* The window.

\* Mutant: what else is posted goes with the message.
ShowOnly(p) ==
  /\ pc[p] = "running"
  /\ "show" \in posted[p]
  /\ posted' = [posted EXCEPT ![p] = {}]
  /\ visible' = [visible EXCEPT ![p] = TRUE]
  /\ UNCHANGED <<pc, command, mutex, events, signals, questions, mishaps>>

\* WM_APP + 18: ShowFromTray.
ShowWindow(p) ==
  /\ pc[p] = "running"
  /\ "show" \in posted[p]
  /\ posted' = [posted EXCEPT ![p] = @ \ {"show"}]
  /\ visible' = [visible EXCEPT ![p] = TRUE]
  /\ UNCHANGED <<pc, command, mutex, events, signals, questions, mishaps>>

\* ExitApplication when it asks nothing, or has asked: the recorder's flush makes
\* it last, and what is posted meanwhile is not looked at any more.
BeginExit(p) == Goto(p, "closing")

\* Mutant: a request waits until the user has answered.
RequestUnlessAsking(p) == "exit" \in posted[p] /\ boxes[p] = << >>

\* WM_APP + 19 is waiting.
IsExitRequested(p) == "exit" \in posted[p]

\* ExitApplication(false), also from the message loop of a box.
ExitRequested(p) ==
  /\ pc[p] = "running"
  /\ IsExitRequested(p)
  /\ BeginExit(p)
  /\ UNCHANGED <<command, mutex, events, signals, posted, visible, questions, mishaps>>

\* ExitApplication(true), of the tray menu: a box asks, and its message loop takes
\* over.  The menu still works, and may open another box in that loop.
AskExit(p) ==
  /\ pc[p] = "running"
  /\ Mishap /\ asked < MaxBoxes
  /\ asked' = asked + 1
  /\ boxes' = [boxes EXCEPT ![p] = Append(@, "open")]
  /\ UNCHANGED <<pc, command, mutex, events, signals, posted, visible, mishaps>>

\* The user answers any of the boxes ...
Answer(p, i, answer) ==
  /\ pc[p] = "running"
  /\ boxes[p][i] = "open"
  /\ boxes' = [boxes EXCEPT ![p][i] = answer]
  /\ UNCHANGED <<pc, command, mutex, events, signals, posted, visible, asked, mishaps>>

\* ... and the innermost returns, answered or ended by WM_QUIT.  ExitApplication
\* does not ask again whether the program is closing: a second yes tears down
\* what is gone already.
BoxReturns(p) ==
  /\ boxes[p] # << >>
  /\ LET answer == Last(boxes[p]) IN
     \/ /\ pc[p] = "running"
        /\ answer # "open"
        /\ IF answer = "yes" THEN BeginExit(p) ELSE UNCHANGED pc
     \/ pc[p] = "quitting" /\ UNCHANGED pc
  /\ boxes' = [boxes EXCEPT ![p] = Front(@)]
  /\ UNCHANGED <<command, mutex, events, signals, posted, visible, asked, mishaps>>

\* DestroyWindow and PostQuitMessage.
DestroyWindow(p) ==
  /\ pc[p] = "closing"
  /\ Goto(p, "quitting")
  /\ visible' = [visible EXCEPT ![p] = FALSE]
  /\ posted' = [posted EXCEPT ![p] = {}]
  /\ UNCHANGED <<command, mutex, events, signals, questions, mishaps>>

\* The message loop of RunApplication sees WM_QUIT, once every box has returned.
Quit(p) ==
  /\ pc[p] = "quitting"
  /\ boxes[p] = << >>
  /\ Goto(p, "ending")
  /\ UNCHANGED <<command, mutex, events, signals, posted, visible, questions, mishaps>>

\* WM_CLOSE, from the user or another program, hides the window.
HideWindow(p) ==
  /\ pc[p] = "running"
  /\ visible[p]
  /\ visible' = [visible EXCEPT ![p] = FALSE]
  /\ UNCHANGED <<pc, command, mutex, events, signals, posted, questions, mishaps>>

-----------------------------------------------------------------------------
\* The process is killed.
Kill(p) ==
  /\ pc[p] \notin {"off", "ended"}
  /\ Mishap /\ kills < MaxKills
  /\ kills' = kills + 1
  /\ Goto(p, "ended")
  /\ mutex' = mutex \ {p}
  /\ CloseEvents(p)
  /\ signals' = [signals EXCEPT ![p] = "none"]
  /\ posted' = [posted EXCEPT ![p] = {}]
  /\ visible' = [visible EXCEPT ![p] = FALSE]
  /\ boxes' = [boxes EXCEPT ![p] = << >>]
  /\ UNCHANGED <<command, asked, refused>>

Main(p) ==
  \/ SignalFirst(p) \/ Leave(p)
  \/ CreateEvents(p) \/ CreateWindow(p)
  \/ SetExitEvent(p) \/ CloseHandles(p) \/ End(p)
  \/ ShowWindow(p) \/ ExitRequested(p)
  \/ BoxReturns(p) \/ DestroyWindow(p) \/ Quit(p)

SignalThread(p) == Wake(p) \/ Post(p) \/ GiveUp(p) \/ LeaveLoop(p)

Next ==
  \E p \in Processes :
    \/ \E c \in Commands : CreateMutex(p, c)
    \/ Main(p)
    \/ SignalThread(p)
    \/ AskExit(p)
    \/ \E i \in DOMAIN boxes[p], answer \in {"yes", "no"} : Answer(p, i, answer)
    \/ HideWindow(p)
    \/ Kill(p)

\* Both threads of a process go on, and the message loop works its messages off.
Fairness ==
  \A p \in Processes :
    /\ WF_vars(Main(p))
    /\ WF_vars(SignalThread(p))
    /\ WF_vars(ShowWindow(p))
    /\ WF_vars(ExitRequested(p))

Spec == Init /\ [][Next]_vars /\ Fairness

-----------------------------------------------------------------------------
\* The events are set only while a process has them open, only a process that counts
\* has, or one between its last calls has a SignalThread; only a process with a window
\* shows one or has a message, and only one whose window is there or has just gone
\* has boxes.
TypeOK ==
  /\ pc \in [Processes -> Points]
  /\ command \in [Processes -> Commands]
  /\ mutex \subseteq Processes /\ refused \subseteq Processes
  /\ show_event \in BOOLEAN /\ exit_event \in BOOLEAN
  /\ listeners \subseteq Owners
  /\ show_event \/ exit_event => listeners # {}
  /\ signals \in [Processes -> {"none", "waiting", "show", "exit", "failed", "done"}]
  /\ posted \in [Processes -> SUBSET {"show", "exit"}]
  /\ visible \in [Processes -> BOOLEAN]
  /\ boxes \in [Processes -> Seq({"open", "yes", "no"})]
  /\ asked \in Nat
  /\ \A p \in Processes :
       /\ signals[p] # "none" <=> p \in Owners \/ pc[p] = "closed"
       /\ visible[p] \/ posted[p] # {} => p \in WithWindow
       /\ Len(boxes[p]) <= asked
       /\ boxes[p] # << >> => pc[p] \in {"running", "closing", "quitting"}

\* No two processes that have the mutex count at once, each overwriting the minutes
\* of the other; one that counts without it is one the system has refused it.
OneInstance == Cardinality(Owners \cap mutex) <= 1 /\ Owners \subseteq mutex \cup refused

\* The request r has reached p and is on its way to the window: the event is set, the
\* SignalThread has it, or the message is posted.
Requested(p, r) ==
  \/ p \in listeners /\ IF r = "show" THEN show_event ELSE exit_event
  \/ signals[p] = r
  \/ r \in posted[p]

\* What has been asked of a running process that counts alone is not lost on the way
\* from the event through the SignalThread to the window, which FindWindow looks for
\* by its class, not by its process: it stays on its way until it is done, the process
\* exits, or another counts beside it.
RequestsKept ==
  [][\A p \in Processes, r \in {"show", "exit"} :
       pc[p] = "running" /\ Owners = {p} /\ Requested(p, r) =>
         Requested(p, r)' \/ pc'[p] # "running" \/ (r = "show" /\ visible'[p])]_vars

\* A later process is about to hand its request over.
Handing(c) == \E p \in Processes : pc[p] = "second" /\ command[p] = c

\* A process started with --exit while another runs makes it end, even if the user
\* has been asked whether to end it and does not answer, where nothing is refused.
ExitHonoured ==
  \A q \in Processes :
    pc[q] = "running" /\ Handing("exit") ~> pc[q] # "running" \/ kills > 0 \/ refused # {}

\* A process started by hand while another runs makes it show its window, where
\* nothing is refused.
ShowHonoured ==
  \A q \in Processes :
    pc[q] = "running" /\ Handing("show") ~> visible[q] \/ pc[q] # "running" \/ kills > 0 \/ refused # {}
=============================================================================
