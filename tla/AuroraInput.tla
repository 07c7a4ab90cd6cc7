---------------------------- MODULE AuroraInput ----------------------------
(***************************************************************************)
(* Input of a frame: the native pads feed virtual SDL gamepads, whose      *)
(* rumble comes back to the motors, and SDL's device events become         *)
(* controllers of Aurora (aurora_input.cpp, virtual_pad.cpp).  One thread  *)
(* polls; users sign in and out at any time, and SDL may call the rumble   *)
(* callback of any attached pad whenever a pad is updated.                 *)
(***************************************************************************)
EXTENDS NativePads, PadAutopilot

CONSTANTS Scripts, \* what the pilot's file may hold
          MaxTime  \* when time stops; it runs only for a pilot

VARIABLES
    n,           \* the native pads
    initialized,
    at,          \* the pad poll() is at; 0 outside of it
    failed,      \* a poll ended in an exception
    pads,        \* virtual pads: attached, what SDL shows, the user it was attached for
    targets,     \* whom a pad's rumble is for
    come, gone,  \* SDL device events not yet polled
    controllers, \* pads Aurora has a controller of
    pilot, now,
    asked        \* history: the users listed to the last poll, and whether there was one

vars == <<n, initialized, at, failed, pads, targets, come, gone, controllers, pilot, now, asked>>

NoPad == [attached |-> FALSE, shows |-> {}, for |-> NoUser]

NoTarget == [user |-> NoUser, handle |-> NoHandle]

NothingAsked == [users |-> {}, polled |-> FALSE]

Init ==
    /\ n = InitialPads
    /\ initialized = FALSE /\ at = 0 /\ failed = FALSE
    /\ pads = [i \in Slots |-> NoPad]
    /\ targets = [i \in Slots |-> NoTarget]
    /\ come = {} /\ gone = {} /\ controllers = {}
    /\ pilot = Loaded(<<>>)
    /\ now = 0
    /\ asked = NothingAsked

-----------------------------------------------------------------------------
\* Only the handle: the driver may have given it to another user since.
IsTargetHandle(m, i, targ) == m.slots[i].handle = targ.handle

IsTarget(m, i, targ) == m.slots[i].user = targ.user /\ m.slots[i].handle = targ.handle

\* The rumble callback of pad i.
Rumble(m, i, on) ==
    LET slot == m.slots[i]
    IN  IF \/ ~IsTarget(m, i, targets[i]) \/ ~slot.signedIn
           \/ on /\ (~slot.sample.connected \/ slot.sample.intercepted)
        THEN {m}
        ELSE {r.n : r \in Vibrate(m, i, on)}

\* The state a pad's turn of poll() works on.
Turn == [n |-> n, pad |-> pads[at], target |-> targets[at], come |-> at \in come, gone |-> at \in gone]

\* VirtualPad::close: the motors first, while the target is still valid; an
\* added event that was not polled comes to nothing.
Detach(t) ==
    IF ~t.pad.attached THEN {t}
    ELSE {[t EXCEPT !.n = m, !.pad = NoPad, !.come = FALSE, !.gone = TRUE] : m \in Rumble(t.n, at, FALSE)}

\* Detaching may report a failure: [t, ok].
Detached(t) == {[t |-> d, ok |-> ok] : d \in Detach(t), ok \in IF t.pad.attached THEN BOOLEAN ELSE {TRUE}}

Retarget(t) ==
    IF IsTarget(t.n, at, t.target) THEN {[t |-> t, ok |-> TRUE]}
    ELSE {IF d.ok THEN [d EXCEPT !.t.target = [user |-> t.n.slots[at].user, handle |-> t.n.slots[at].handle]] ELSE d :
          d \in Detached(t)}

Attach(t) ==
    IF t.pad.attached THEN {[t |-> t, ok |-> TRUE]}
    ELSE LET new == [t EXCEPT !.pad = [attached |-> TRUE, shows |-> {}, for |-> t.target.user], !.come = TRUE]
         IN  {[t |-> new, ok |-> TRUE], [t |-> t, ok |-> FALSE]} \cup {[t |-> d, ok |-> FALSE] : d \in Detach(new)}

\* VirtualPad::update: an axis or button that SDL refuses leaves the rest.
Update(t, sample) ==
    IF ~sample.connected THEN Detached(t)
    ELSE UNION {IF ~a.ok THEN {a}
                ELSE {[a EXCEPT !.t.pad.shows = IF sample.intercepted THEN {} ELSE sample.buttons],
                      [a EXCEPT !.ok = FALSE]} :
                a \in Attach(t)}

PilotFlies == at = 1 /\ Enabled(pilot)

Sample(m) ==
    IF PilotFlies THEN Merged(m.slots[at].sample, pilot, now) ELSE m.slots[at].sample

\* An exception of a turn leaves poll().
PadTurn ==
    /\ at \in Slots
    /\ \E r \in Retarget(Turn) :
       \E u \in IF r.ok THEN Update(r.t, Sample(r.t.n)) ELSE {r} :
          /\ n' = u.t.n
          /\ pads' = [pads EXCEPT ![at] = u.t.pad]
          /\ targets' = [targets EXCEPT ![at] = u.t.target]
          /\ come' = IF u.t.come THEN come \cup {at} ELSE come \ {at}
          /\ gone' = IF u.t.gone THEN gone \cup {at} ELSE gone \ {at}
          /\ pilot' = IF r.ok /\ PilotFlies THEN Applied(pilot, now) ELSE pilot
          /\ failed' = ~u.ok
          /\ at' = IF u.ok THEN at + 1 ELSE 0
    /\ UNCHANGED <<initialized, controllers, now, asked>>

\* The users signed in, as the service lists them.
Lists == {l \in UNION {[1..k -> Users] : k \in 0..NumSlots} : \A j, k \in DOMAIN l : j # k => l[j] # l[k]}

\* The runtime does not catch what poll() throws, so input neither polls nor
\* starts again after it.  Time, which a poll reads once and only for the
\* pilot, runs between polls.
BeginPoll ==
    /\ initialized /\ at = 0 /\ ~failed
    /\ \/ /\ \E refreshed \in RefreshFailed(n) :
             \E read \in Read(refreshed.n) : n' = read.n
          /\ asked' = [users |-> {}, polled |-> TRUE]
       \/ \E list \in Lists :
             /\ \E refreshed \in RefreshListed(n, list) :
                \E read \in Read(refreshed.n) : n' = read.n
             /\ asked' = [users |-> ToSet(list), polled |-> TRUE]
    /\ now' \in IF Enabled(pilot) THEN now..MaxTime ELSE {now}
    /\ at' = 1
    /\ UNCHANGED <<initialized, failed, pads, targets, come, gone, controllers, pilot>>

\* The device events; Aurora may fail to open what was added.
EndPoll ==
    /\ at = NumSlots + 1
    /\ \E added \in SUBSET come : controllers' = (controllers \ gone) \cup added
    /\ come' = {} /\ gone' = {} /\ at' = 0
    /\ UNCHANGED <<n, initialized, failed, pads, targets, pilot, now, asked>>

\* SDL calls back, within poll() or when the game sets a motor.
Callback(i, on) ==
    /\ initialized /\ pads[i].attached
    /\ n' \in Rumble(n, i, on)
    /\ UNCHANGED <<initialized, at, failed, pads, targets, come, gone, controllers, pilot, now, asked>>

Start ==
    /\ ~initialized /\ ~n.ready /\ ~failed
    /\ \E list \in Lists : \E r \in Initialize(n, list) :
          /\ n' = r.n /\ initialized' = r.ok
          /\ IF r.ok THEN \E script \in Scripts : pilot' = Loaded(script) ELSE UNCHANGED pilot
    /\ UNCHANGED <<at, failed, pads, targets, come, gone, controllers, now, asked>>

\* The pads of NativePads after every attached pad stopped its motors.
Stopped(m) ==
    FoldLeft(LAMBDA ms, i : UNION {IF pads[i].attached THEN Rumble(one, i, FALSE) ELSE {one} : one \in ms},
             {m}, [i \in Slots |-> i])

Shutdown ==
    /\ at = 0 /\ (initialized \/ n.ready)
    /\ \E stopped \in IF initialized THEN Stopped(n) ELSE {n} :
       \E r \in Close(stopped) : n' = r.n
    /\ IF initialized
       THEN /\ pads' = [i \in Slots |-> NoPad]
            /\ come' = {} /\ gone' = {}
            /\ controllers' = controllers \ {i \in Slots : pads[i].attached}
       ELSE UNCHANGED <<pads, come, gone, controllers>>
    /\ initialized' = FALSE
    /\ asked' = NothingAsked
    /\ UNCHANGED <<at, failed, targets, pilot, now>>

-----------------------------------------------------------------------------
\* Somebody else in the process opens a user's pad, which we then
\* borrow; only a refresh would notice.
Lend(h, user) ==
    /\ at = 0
    /\ \A g \in Handles : n.open[g].user # user
    /\ n.open[h].user = NoUser
    /\ n' = [n EXCEPT !.open[h] = [user |-> user, ours |-> FALSE]]
    /\ UNCHANGED <<initialized, at, failed, pads, targets, come, gone, controllers, pilot, now, asked>>

Next ==
    \/ Start \/ BeginPoll \/ PadTurn \/ EndPoll \/ Shutdown
    \/ \E i \in Slots, on \in BOOLEAN : Callback(i, on)
    \/ \E h \in Handles, user \in Users : Lend(h, user)

Spec == Init /\ [][Next]_vars

-----------------------------------------------------------------------------
\* A motor that runs for us and a handle that is ours are in a slot that knows
\* it, whatever call failed; no user and no handle is in two slots; and pads
\* that are closed keep neither (native_pad.cpp:24-41, 73-94, 116-125).
MotorsAccounted ==
    /\ \A h \in n.motor : \E i \in Slots : n.slots[i].handle = h /\ n.slots[i].vibrating
    /\ \A h \in Handles : n.open[h].ours <=> \E i \in Slots : n.slots[i].handle = h /\ n.slots[i].owned
    /\ \A i, j \in Slots :
          i # j /\ n.slots[i].handle # NoHandle =>
             n.slots[i].user # n.slots[j].user /\ n.slots[i].handle # n.slots[j].handle
    /\ ~n.ready => \A i \in Slots : n.slots[i] = EmptySlot

\* What a game reads after a poll that returned is of users the service listed
\* to that poll and of the reading made in it, with the presses the script
\* holds at its time; a pad with nothing to show is gone, for Aurora too
\* (native_pad.cpp:64-69, aurora_input.cpp:71-118, pad_autopilot.cpp:127-152).
Polled == initialized /\ at = 0 /\ ~failed /\ asked.polled

Flown(i) == i = 1 /\ Enabled(pilot)

ShownIsCurrent ==
    Polled =>
       /\ \A i \in Slots :
             LET slot == n.slots[i]
             IN  /\ slot.signedIn => slot.user \in asked.users
                 /\ slot.sample.connected => slot.signedIn
                 /\ pads[i].attached <=> slot.sample.connected \/ Flown(i)
                 /\ pads[i].shows = slot.sample.buttons
                       \cup IF Flown(i) THEN ButtonsAt(pilot, now - pilot.origin) ELSE {}
       /\ \A i \in controllers : pads[i].attached

\* A motor starts only in the hands of the user whose virtual pad asked, even
\* when slots and handles have passed to others since that pad was attached
\* (aurora_input.cpp:56-60).
RumbleOwnPad ==
    [][\A h \in n'.motor \ n.motor :
          \E i \in Slots : n'.slots[i].handle = h /\ pads[i].attached /\ pads[i].for = n.open[h].user]_vars

=============================================================================
