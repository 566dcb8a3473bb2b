----------------------------- MODULE Dashboard -----------------------------
(***************************************************************************)
(* ocitop (crates/ocitop/src/main.rs): a single task that drains the live  *)
(* events, polls the daemon when that is due, draws, and reads one key.    *)
(*                                                                         *)
(* A key carries the screen that was drawn when it was pressed (`seen`):   *)
(* it may be read after a poll has changed the list.  Layout and wording   *)
(* are left out; of the policy only the pins are kept, as the file and the *)
(* copy of ocitop are the subject of PolicyStore.                          *)
(***************************************************************************)
EXTENDS EventStream, FiniteSets

CONSTANTS
  Release,   \* releases, numbers in the order of the daemon's list
  Mine,      \* those of this node
  Key,       \* the keys that are pressed
  MaxTyped,  \* bound: keys pressed and not read
  LogCap,    \* LOG_CAP (200)
  None

ASSUME DashboardAssumption ==
  /\ Release \subseteq Nat \ {0} /\ IsFiniteSet(Release) /\ Mine \subseteq Release
  /\ MaxTyped \in Nat /\ LogCap \in Nat \ {0}
  /\ None \notin {"rm", "gc", "sync", "seed", "pin", "unpin", "follow"}

VARIABLES
  stored,    \* what the daemon has
  pins,      \* the pins of policy.toml
  releases,  \* App.releases
  images,    \* App.images: the selected row, 0 without one
  tab,       \* App.tab
  modal,     \* App.modal
  log,       \* App.log, newest first: events, and 0 for a report
  due,       \* the poll is due
  aged,      \* the notice is older than NOTICE
  quit,      \* App.quit
  typed,     \* keys pressed and not read, each with the screen of that time
  screen,    \* what was drawn last
  pc,        \* "loop", "draw", "read", or "await": the answer of the daemon
  sent       \* the command of the key that was read in this round of the loop,
             \* with the screens it was pressed and read at

appVars == <<releases, images, tab, modal, log, due, aged, quit>>
vars == <<streamVars, appVars, stored, pins, typed, screen, pc, sent>>

NoModal == [kind |-> "none", ref |-> None]
Modal(kind, ref) == [kind |-> kind, ref |-> ref]
NoCommand == [op |-> None, ref |-> None, seen |-> None, shown |-> None]

\* The list of the daemon, in its order.
List(S) ==
  [i \in 1 .. Cardinality(S) |-> CHOOSE r \in S : Cardinality({q \in S : q <= r}) = i]

\* Tab::next.
NextTab(t) == CASE t = "images" -> "peers" [] t = "peers" -> "events" [] OTHER -> "images"

\* selected.
Selected(rows, i) == IF i \in DOMAIN rows THEN rows[i] ELSE None

\* Mutant of Clamp: the index stays.
ClampNot(i, n) == IF n = 0 THEN 0 ELSE IF i = 0 THEN 1 ELSE i

\* clamp.
Clamp(i, n) == IF n = 0 THEN 0 ELSE IF i = 0 THEN 1 ELSE IF i > n THEN n ELSE i

\* move_selection on the images.
Moved(i, n, delta) ==
  LET cur == IF i = 0 THEN 0 ELSE i - 1 IN IF n = 0 THEN i ELSE ((cur + delta) % n) + 1

\* log: the oldest entry leaves a full log.
Logged(entries, e) ==
  <<e>> \o (IF Len(entries) >= LogCap THEN Front(entries) ELSE entries)

-----------------------------------------------------------------------------
\* Nothing was asked of the daemon.
NoPoll == UNCHANGED <<releases, images, due>>
NoReport == UNCHANGED <<log, aged>>

\* poll: each list that can be read replaces the old one.
Poll(have) ==
  /\ \E rows \in {List(have), releases} :
       /\ releases' = rows
       /\ images' = Clamp(images, Len(rows))
  /\ due' = FALSE

\* report: a log entry and a notice.
Report ==
  /\ modal' = Modal("notice", None)
  /\ log' = Logged(log, 0)
  /\ aged' = FALSE

Command(op, ref, key) ==
  sent' = [op |-> op, ref |-> ref, seen |-> key.seen, shown |-> screen]

\* ui: what the user sees of it.
Screen ==
  [tab |-> tab,
   row |-> IF tab = "images" THEN Selected(releases, images) ELSE None,
   modal |-> modal]

\* The loop of run: on_event for everything in the channel.
OnEvent ==
  /\ pc = "loop" /\ ~quit /\ pipe # <<>>
  /\ log' = Logged(log, Head(pipe))
  /\ pipe' = Tail(pipe)
  /\ UNCHANGED <<emitted, lost, up, ring, wire, buf, left,
                 releases, images, tab, modal, due, aged, quit,
                 stored, pins, typed, screen, pc, sent>>

\* The poll, if it is due.
PollDue ==
  /\ pc = "loop" /\ ~quit /\ pipe = <<>>
  /\ IF due THEN Poll(stored) ELSE NoPoll
  /\ pc' = "draw" /\ sent' = NoCommand
  /\ UNCHANGED <<streamVars, tab, modal, log, aged, quit, stored, pins, typed, screen>>

\* Mutant of Draw: the screen is drawn first, then the poll is done.
DrawThenPoll ==
  /\ pc = "draw"
  /\ modal' = IF modal.kind = "notice" /\ aged THEN NoModal ELSE modal
  /\ screen' = [Screen EXCEPT !.modal = modal']
  /\ Poll(stored)
  /\ pc' = "read"
  /\ UNCHANGED <<streamVars, tab, log, aged, quit, stored, pins, typed, sent>>

\* An old notice goes, the screen is drawn.
Draw ==
  /\ pc = "draw"
  /\ modal' = IF modal.kind = "notice" /\ aged THEN NoModal ELSE modal
  /\ screen' = [Screen EXCEPT !.modal = modal']
  /\ pc' = "read"
  /\ UNCHANGED <<streamVars, releases, images, tab, log, due, aged, quit, stored, pins, typed>>
  /\ UNCHANGED sent

\* event::poll runs into its timeout.
NoKey ==
  /\ pc = "read" /\ typed = <<>>
  /\ pc' = "loop"
  /\ UNCHANGED <<streamVars, appVars, stored, pins, typed, screen, sent>>

-----------------------------------------------------------------------------
\* Keys of on_key.

\* Mutant of ConfirmDelete: what is selected by now is deleted.
ConfirmDeleteSelected(key) ==
  /\ modal.kind = "delete"
  /\ modal' = NoModal
  /\ IF key.code = "y"
     THEN Command("rm", Selected(releases, images), key) /\ pc' = "await"
     ELSE pc' = "loop" /\ sent' = NoCommand
  /\ NoPoll /\ NoReport /\ UNCHANGED <<pins, tab, quit>>

ConfirmDelete(key) ==
  /\ modal.kind = "delete"
  /\ modal' = NoModal
  /\ IF key.code = "y"
     THEN Command("rm", modal.ref, key) /\ pc' = "await"
     ELSE pc' = "loop" /\ sent' = NoCommand
  /\ NoPoll /\ NoReport /\ UNCHANGED <<pins, tab, quit>>

ConfirmGc(key) ==
  /\ modal.kind = "gc"
  /\ modal' = NoModal
  /\ IF key.code = "y" THEN Command("gc", modal.ref, key) /\ pc' = "await"
     ELSE pc' = "loop" /\ sent' = NoCommand
  /\ NoPoll /\ NoReport /\ UNCHANGED <<pins, tab, quit>>

\* SeedPrompt: typing, cancelling, and seed, which fails on a mode that does
\* not parse and otherwise reports and polls.
SeedPrompt(key) ==
  /\ modal.kind = "seed"
  /\ pc' = "loop"
  /\ \/ /\ key.code \in {"esc", "ctrl_c"}
        /\ modal' = NoModal /\ NoPoll /\ NoReport /\ sent' = NoCommand
     \/ /\ key.code = "enter"
        /\ Report
        /\ \/ Command("seed", modal.ref, key) /\ Poll(stored)
           \/ NoPoll /\ sent' = NoCommand
     \/ /\ key.code \notin {"esc", "ctrl_c", "enter"}
        /\ UNCHANGED modal /\ NoPoll /\ NoReport /\ sent' = NoCommand
  /\ UNCHANGED <<pins, tab, quit>>

\* A key that closes the notice does nothing else.
CloseNotice ==
  /\ modal.kind = "notice"
  /\ modal' = NoModal /\ pc' = "loop"
  /\ NoPoll /\ NoReport /\ UNCHANGED <<pins, tab, quit>> /\ sent' = NoCommand

\* q, Ctrl-C, the tabs and the selection.
Move(key) ==
  /\ modal = NoModal
  /\ \/ /\ key.code \in {"q", "ctrl_c"}
        /\ quit' = TRUE /\ UNCHANGED <<tab, images>>
     \/ /\ key.code \in {"tab", "1", "2", "3"}
        /\ tab' = CASE key.code = "tab" -> NextTab(tab) [] key.code = "1" -> "images"
                     [] key.code = "2" -> "peers" [] key.code = "3" -> "events"
        /\ UNCHANGED <<quit, images>>
     \/ /\ key.code \in {"j", "k"}
        /\ images' = IF tab = "images"
                     THEN Moved(images, Len(releases), IF key.code = "j" THEN 1 ELSE -1)
                     ELSE images
        /\ UNCHANGED <<quit, tab>>
  /\ pc' = "loop"
  /\ sent' = NoCommand
  /\ UNCHANGED <<releases, due, modal, log, aged, pins>>

\* r: a poll.  y: sync.
Refresh(key) ==
  /\ modal = NoModal /\ key.code \in {"r", "y"}
  /\ IF key.code = "r"
     THEN Poll(stored) /\ pc' = "loop" /\ sent' = NoCommand
     ELSE Command("sync", None, key) /\ pc' = "await" /\ NoPoll
  /\ NoReport /\ UNCHANGED <<modal, pins, tab, quit>>

\* g, G, and d for the selected release: a question.
Ask(key) ==
  /\ modal = NoModal /\ key.code \in {"g", "d"}
  /\ LET ref == Selected(releases, images)
     IN  modal' = IF key.code = "g" THEN Modal("gc", None)
                  ELSE IF ref = None THEN NoModal ELSE Modal("delete", ref)
  /\ pc' = "loop"
  /\ NoPoll /\ NoReport /\ UNCHANGED <<pins, tab, quit>> /\ sent' = NoCommand

\* p, f and s, through selected_foreign: nothing without a selection, a
\* notice for an own release.  p and f write the policy, report and poll.
Policy(key) ==
  LET ref == Selected(releases, images)
      op == IF key.code = "f" THEN "follow" ELSE IF ref \in pins THEN "unpin" ELSE "pin"
  IN  /\ modal = NoModal /\ key.code \in {"p", "f", "s"}
      /\ pc' = "loop"
      /\ \/ /\ ref = None
            /\ NoPoll /\ NoReport /\ UNCHANGED <<modal, pins>> /\ sent' = NoCommand
         \/ /\ ref \in Mine
            /\ Report /\ NoPoll /\ UNCHANGED pins /\ sent' = NoCommand
         \/ /\ ref \in Release \ Mine /\ key.code = "s"
            /\ modal' = Modal("seed", ref)
            /\ NoPoll /\ NoReport /\ UNCHANGED pins /\ sent' = NoCommand
         \/ /\ ref \in Release \ Mine /\ key.code # "s"
            /\ Command(op, ref, key)
            /\ pins' = IF op = "pin" THEN pins \cup {ref} ELSE
                       IF op = "unpin" THEN pins \ {ref} ELSE pins
            /\ Report /\ Poll(stored)
      /\ UNCHANGED <<tab, quit>>

\* on_key.
OnKey ==
  /\ pc = "read" /\ typed # <<>>
  /\ typed' = Tail(typed)
  /\ LET key == Head(typed)
     IN  \/ ConfirmDelete(key) \/ ConfirmGc(key) \/ SeedPrompt(key) \/ CloseNotice
         \/ Move(key) \/ Refresh(key) \/ Ask(key) \/ Policy(key)
         \/ /\ modal = NoModal /\ key.code \in {"esc", "enter"}
            /\ pc' = "loop" /\ UNCHANGED <<appVars, pins>> /\ sent' = NoCommand
  /\ UNCHANGED <<streamVars, stored, screen>>

\* delete, gc and sync: the daemon does it or fails, the outcome is reported
\* and the lists are polled.
Answered ==
  /\ pc = "await"
  /\ \/ stored' = IF sent.op = "rm" THEN stored \ {sent.ref} ELSE stored
     \/ UNCHANGED stored
  /\ Report /\ Poll(stored')
  /\ pc' = "loop"
  /\ UNCHANGED <<streamVars, tab, quit, pins, typed, screen, sent>>

-----------------------------------------------------------------------------
\* The user presses a key.
Press(code) ==
  /\ ~quit /\ Len(typed) < MaxTyped
  /\ Spend
  /\ typed' = Append(typed, [code |-> code, seen |-> screen])
  /\ UNCHANGED <<emitted, lost, up, ring, wire, buf, pipe,
                 appVars, stored, pins, screen, pc, sent>>

\* Replication, gc or a client changes what the daemon has.
Change(r) ==
  /\ ~quit
  /\ Spend
  /\ stored' = IF r \in stored THEN stored \ {r} ELSE stored \cup {r}
  /\ UNCHANGED <<emitted, lost, up, ring, wire, buf, pipe,
                 appVars, pins, typed, screen, pc, sent>>

\* POLL and NOTICE go by.
Elapse ==
  /\ ~quit
  /\ ~due \/ (modal.kind = "notice" /\ ~aged)
  /\ due' = TRUE /\ aged' = (modal.kind = "notice")
  /\ UNCHANGED <<streamVars, releases, images, tab, modal, log, quit,
                 stored, pins, typed, screen, pc, sent>>

\* The stream goes on while ocitop runs.
Stream == ~quit /\ StreamNext /\ UNCHANGED <<appVars, stored, pins, typed, screen, pc, sent>>

\* App::new with its first poll.
Init ==
  /\ StreamInit
  /\ stored = Release /\ releases = List(stored)
  /\ images = Clamp(0, Len(releases))
  /\ tab = "images" /\ modal = NoModal /\ log = <<>> /\ pins = {}
  /\ due = FALSE /\ aged = FALSE /\ quit = FALSE
  /\ typed = <<>> /\ screen = Screen /\ pc = "loop" /\ sent = NoCommand

Loop == OnEvent \/ PollDue \/ Draw \/ NoKey \/ OnKey \/ Answered

Next == Loop \/ Stream \/ Elapse \/ (\E k \in Key : Press(k)) \/ (\E r \in Release : Change(r))

Fairness ==
  /\ WF_vars(Loop) /\ WF_vars(Elapse)
  /\ WF_vars(~quit /\ StreamStep /\ UNCHANGED <<appVars, stored, pins, typed, screen, pc, sent>>)

Spec == Init /\ [][Next]_vars
FairSpec == Spec /\ Fairness
-----------------------------------------------------------------------------
\* The selection is a row of the list, if the list has one.
TypeOK ==
  /\ StreamTypeOK
  /\ stored \subseteq Release /\ pins \subseteq Release \ Mine
  /\ ToSet(releases) \subseteq Release
  /\ images \in IF releases = <<>> THEN {0} ELSE DOMAIN releases
  /\ tab \in {"images", "peers", "events"}
  /\ modal \in [kind : {"none", "notice", "gc", "delete", "seed"}, ref : Release \cup {None}]
  /\ Len(log) <= LogCap /\ ToSet(log) \subseteq 0 .. emitted
  /\ {due, aged, quit} \subseteq BOOLEAN
  /\ Len(typed) <= MaxTyped /\ pc \in {"loop", "draw", "read", "await"}

\* A release is deleted only by a y that was read with the question about it
\* on the screen, and if a question was there when y was pressed it was the
\* same one, whatever the polls did to the list meanwhile.
DeletesWhatWasConfirmed ==
  sent.op = "rm" => /\ sent.shown.modal = Modal("delete", sent.ref)
                    /\ sent.seen.modal.kind = "delete" => sent.seen.modal = sent.shown.modal

\* p and f act on the row that was drawn last before the key was read, and
\* Enter on the release that the prompt names.
ActsOnTheRow ==
  /\ sent.op \in {"pin", "unpin", "follow"} /\ sent.shown.tab = "images" =>
       sent.shown.row = sent.ref
  /\ sent.op = "seed" => sent.shown.modal = Modal("seed", sent.ref)

\* What is in the log, on the way to it, and still in the channel is a run
\* of events in the order of emit.  Only events that the subscriber missed
\* are left out, however the stream was cut into chunks.
EventsInOrder ==
  LET s == Reverse(log) \o (pipe \o (buf \o wire \o ring))
  IN  \A i \in DOMAIN s : s[i] > 0 =>
        LET behind == {s[j] : j \in i + 1 .. Len(s)}
        IN  /\ \A e \in behind : e > 0 => s[i] < e
            /\ s[i] + 1 .. emitted \subseteq lost \cup behind

\* Nothing stays on the way, full as the channels may be: with EventsInOrder,
\* it gets into the log.
EventsReachTheLog == LET underway == ring \o wire \o buf \o pipe
                     IN  underway # <<>> ~> underway = <<>> \/ quit

\* The key acts on what was drawn when it was pressed.
ActsOnWhatWasSeen == sent.op \in {"pin", "unpin", "follow"} => sent.seen.row = sent.ref

\* A release that p or f acts on is drawn.
RowIsDrawn == sent.op \in {"pin", "unpin", "follow"} => sent.shown.row = sent.ref
=============================================================================
