----------------------------- MODULE NativePads -----------------------------
(***************************************************************************)
(* The native pads of the signed-in users in their slots (native_pad.cpp), *)
(* over a driver whose calls may fail.  Operations take the pads n and     *)
(* return the set of what may come of them, [n, ok].                       *)
(***************************************************************************)
EXTENDS Integers, Sequences, FiniteSets, SequencesExt

CONSTANTS NumSlots,    \* four
          Users,       \* sceUserService ids
          InitialUser,
          Handles,     \* what scePadOpen returns; one closed may be returned again
          Buttons

NoUser == -1
NoHandle == -1

Slots == 1..NumSlots

NoSample == [connected |-> FALSE, intercepted |-> FALSE, buttons |-> {}]

EmptySlot == [user |-> NoUser, handle |-> NoHandle, owned |-> FALSE, signedIn |-> FALSE,
              vibrating |-> FALSE, sample |-> NoSample]

\* What scePadReadState may decode to.
Readings ==
    {NoSample, [NoSample EXCEPT !.connected = TRUE, !.intercepted = TRUE]}
    \cup {[NoSample EXCEPT !.connected = TRUE, !.buttons = held] : held \in SUBSET Buttons}

InitialPads ==
    [ready |-> FALSE,                                            \* initialized_
     slots |-> [i \in Slots |-> EmptySlot],
     open |-> [h \in Handles |-> [user |-> NoUser, ours |-> FALSE]], \* the driver's handles
     motor |-> {}]                                               \* handles whose motor runs for us

Result(n, ok) == [n |-> n, ok |-> ok]

\* An operation on every slot in order; ok when all of them are.
ForAllSlots(n, Op(_, _)) ==
    FoldLeft(LAMBDA results, i :
                UNION {{Result(r.n, r.ok /\ last.ok) : r \in Op(last.n, i)} : last \in results},
             {Result(n, TRUE)}, [i \in Slots |-> i])

StopSlot(n, i) ==
    LET slot == n.slots[i]
    IN  IF ~slot.vibrating \/ slot.handle = NoHandle THEN {Result(n, TRUE)}
        ELSE {Result(n, FALSE),
              Result([n EXCEPT !.motor = @ \ {slot.handle}, !.slots[i].vibrating = FALSE], TRUE)}

Hidden(n, i) == [n EXCEPT !.slots[i].sample = NoSample, !.slots[i].signedIn = FALSE]

ClosedHandle(n, i) ==
    IF ~n.slots[i].owned THEN n
    ELSE [n EXCEPT !.open[n.slots[i].handle] = [user |-> NoUser, ours |-> FALSE]]

\* The slot is given up whether or not its motor stopped.
CloseSlotRunning(n, i) ==
    UNION {(IF stopped.n.slots[i].owned THEN {Result(stopped.n, FALSE)} ELSE {})
           \cup {Result([ClosedHandle(stopped.n, i) EXCEPT !.slots[i] = EmptySlot], TRUE)} :
           stopped \in StopSlot(Hidden(n, i), i)}

\* A motor that does not stop, or a handle that does not close, keeps the slot.
CloseSlot(n, i) ==
    UNION {IF ~stopped.ok THEN {stopped}
           ELSE (IF stopped.n.slots[i].owned THEN {Result(stopped.n, FALSE)} ELSE {})
                \cup {Result([ClosedHandle(stopped.n, i) EXCEPT !.slots[i] = EmptySlot], TRUE)} :
           stopped \in StopSlot(Hidden(n, i), i)}

-----------------------------------------------------------------------------
InitialFirst(list) ==
    IF \E k \in DOMAIN list : list[k] = InitialUser
    THEN LET k == CHOOSE j \in DOMAIN list : list[j] = InitialUser
         IN  [j \in DOMAIN list |-> IF j = 1 THEN InitialUser ELSE IF j = k THEN list[1] ELSE list[j]]
    ELSE list

SignedIn(list, user) == \E k \in DOMAIN list : list[k] = user

\* Who is gone leaves; a slot that could not be closed may sign in again.
RefreshSlot(n, i, list) ==
    LET slot == n.slots[i]
        here == slot.handle # NoHandle /\ SignedIn(list, slot.user)
        marked == [n EXCEPT !.slots[i].signedIn = here]
    IN  IF slot.handle = NoHandle \/ here THEN {Result(marked, TRUE)} ELSE CloseSlot(marked, i)

FreeSlots(n) == {i \in Slots : n.slots[i].handle = NoHandle}

\* The pad is opened, or is open for somebody else and borrowed.
Placed(n, i, user, handle, owned) ==
    [n EXCEPT !.slots[i] = [EmptySlot EXCEPT !.user = user, !.handle = handle, !.owned = owned, !.signedIn = TRUE],
              !.open[handle] = IF owned THEN [user |-> user, ours |-> TRUE] ELSE @]

OpenPad(n, user) ==
    LET free == FreeSlots(n)
        i == CHOOSE j \in free : \A k \in free : j <= k
        opened == {h \in Handles : n.open[h].user = user}
    IN  IF free = {} \/ \E j \in Slots : n.slots[j].user = user THEN {n}
        ELSE {n} \cup (IF opened = {} THEN {Placed(n, i, user, h, TRUE) : h \in {g \in Handles : n.open[g].user = NoUser}}
                       ELSE {Placed(n, i, user, h, FALSE) : h \in opened})

OpenPads(n, list) ==
    FoldLeft(LAMBDA ns, user : UNION {OpenPad(one, user) : one \in ns}, {n}, InitialFirst(list))

\* Without a list of users nobody is shown, whoever keeps a slot.
NobodyKnown(n) ==
    {[r EXCEPT !.ok = FALSE] : r \in ForAllSlots(n, LAMBDA m, i : {Result(Hidden(s.n, i), TRUE) : s \in StopSlot(m, i)})}

RefreshFailed(n) == NobodyKnown(n)

RefreshListed(n, list) ==
    UNION {{Result(m, closed.ok) : m \in OpenPads(closed.n, list)} :
           closed \in ForAllSlots(n, LAMBDA m, i : RefreshSlot(m, i, list))}

Refresh(n, list) == RefreshFailed(n) \cup RefreshListed(n, list)

ReadSlot(n, i) ==
    LET slot == n.slots[i]
    IN  IF ~n.ready \/ slot.handle = NoHandle \/ ~slot.signedIn
        THEN {Result([n EXCEPT !.slots[i].sample = NoSample], TRUE)}
        ELSE UNION {LET m == [n EXCEPT !.slots[i].sample = reading]
                    IN  IF ~reading.connected \/ reading.intercepted
                        THEN {Result(s.n, TRUE) : s \in StopSlot(m, i)} ELSE {Result(m, TRUE)} :
                    reading \in Readings}

Read(n) == ForAllSlots(n, ReadSlot)

Vibrate(n, i, on) ==
    LET slot == n.slots[i]
    IN  IF ~n.ready \/ slot.handle = NoHandle \/ ~slot.signedIn THEN {Result(n, FALSE)}
        ELSE {Result(n, FALSE),
              Result([n EXCEPT !.motor = IF on THEN @ \cup {slot.handle} ELSE @ \ {slot.handle},
                               !.slots[i].vibrating = on], TRUE)}

Close(n) == {IF r.ok THEN [r EXCEPT !.n.ready = FALSE] ELSE r : r \in ForAllSlots(n, CloseSlot)}

\* A first refresh that fails closes the pads again.
Initialize(n, list) ==
    IF n.ready THEN {Result(n, TRUE)}
    ELSE {Result(n, FALSE)}
         \cup UNION {IF r.ok THEN {r} ELSE {Result(c.n, FALSE) : c \in Close(r.n)} :
                     r \in Refresh([n EXCEPT !.ready = TRUE], list)}

=============================================================================
