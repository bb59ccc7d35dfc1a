---------------------------- MODULE ReplayService ----------------------------
(***************************************************************************)
(* What the duplicate-request cache promises, without capacity, bytes,     *)
(* time, generations or queues.  Each request (client, export and XID) has *)
(* a slot that names the fingerprint and the call whose execution is       *)
(* current, and whether that execution has answered.  An answered slot may *)
(* be forgotten at any moment the cache is used; a running one may not.    *)
(***************************************************************************)
CONSTANTS Calls, Requests, Fingerprints, Empty, NoCall

VARIABLES
    slot,   \* the current execution of each request
    stage,  \* what each call is doing
    source  \* the call whose execution answers this one

vars == <<slot, stage, source>>

Slots == [fingerprint : Fingerprints, leader : Calls, answered : BOOLEAN]
Stages == {"idle", "executing", "awaiting", "answered", "failed"}

Init ==
    /\ slot = [r \in Requests |-> Empty]
    /\ stage = [c \in Calls |-> "idle"]
    /\ source = [c \in Calls |-> NoCall]

Answered == {r \in Requests : slot[r] # Empty /\ slot[r].answered}

\* The slots after the answered requests of S have been forgotten
Forget(S) == [r \in Requests |-> IF r \in S THEN Empty ELSE slot[r]]

Matches(s, f) == s # Empty /\ s.fingerprint = f

\* No current execution of (r, f) is known: the call executes and takes the slot.
Execute(c, r, f) ==
    /\ stage[c] = "idle"
    /\ \E S \in SUBSET Answered :
          /\ ~Matches(Forget(S)[r], f)
          /\ slot' = [Forget(S) EXCEPT ![r] =
                         [fingerprint |-> f, leader |-> c, answered |-> FALSE]]
    /\ stage' = [stage EXCEPT ![c] = "executing"]
    /\ source' = [source EXCEPT ![c] = c]

\* The execution of (r, f) is running: the call awaits it.
Join(c, r, f) ==
    /\ stage[c] = "idle"
    /\ Matches(slot[r], f) /\ ~slot[r].answered
    /\ \E S \in SUBSET Answered : slot' = Forget(S)
    /\ stage' = [stage EXCEPT ![c] = "awaiting"]
    /\ source' = [source EXCEPT ![c] = slot[r].leader]

\* The execution of (r, f) has answered: the call gets the same answer.
Replay(c, r, f) ==
    /\ stage[c] = "idle"
    /\ Matches(slot[r], f) /\ slot[r].answered
    /\ \E S \in SUBSET (Answered \ {r}) : slot' = Forget(S)
    /\ stage' = [stage EXCEPT ![c] = "answered"]
    /\ source' = [source EXCEPT ![c] = slot[r].leader]

\* The call is refused: it neither executes nor learns anything.
Refuse(c) ==
    /\ stage[c] = "idle"
    /\ \E S \in SUBSET Answered : slot' = Forget(S)
    /\ stage' = [stage EXCEPT ![c] = "failed"]
    /\ UNCHANGED source

\* The calls that await c, and c itself
Audience(c) == {d \in Calls : stage[d] = "awaiting" /\ source[d] = c} \cup {c}
IsCurrent(c, r) == slot[r] # Empty /\ slot[r].leader = c

\* c answers itself and every call that awaits it.  A current execution is
\* remembered or dropped; other answers may be forgotten to make room.
Finish(c) ==
    /\ stage[c] = "executing"
    /\ \E S \in SUBSET Answered, keep \in BOOLEAN :
          slot' = [r \in Requests |->
                      IF ~IsCurrent(c, r) THEN Forget(S)[r]
                      ELSE IF keep
                           THEN [fingerprint |-> slot[r].fingerprint, leader |-> c, answered |-> TRUE]
                           ELSE Empty]
    /\ stage' = [d \in Calls |-> IF d \in Audience(c) THEN "answered" ELSE stage[d]]
    /\ UNCHANGED source

\* c gives up, and with it every call that awaits it.
Fail(c) ==
    /\ stage[c] = "executing"
    /\ slot' = [r \in Requests |-> IF IsCurrent(c, r) THEN Empty ELSE slot[r]]
    /\ stage' = [d \in Calls |-> IF d \in Audience(c) THEN "failed" ELSE stage[d]]
    /\ UNCHANGED source

\* An awaiting call stops waiting.
Leave(c) ==
    /\ stage[c] = "awaiting"
    /\ stage' = [stage EXCEPT ![c] = "failed"]
    /\ UNCHANGED <<slot, source>>

Next ==
    \E c \in Calls :
        \/ \E r \in Requests, f \in Fingerprints :
              Execute(c, r, f) \/ Join(c, r, f) \/ Replay(c, r, f)
        \/ Refuse(c) \/ Finish(c) \/ Fail(c) \/ Leave(c)

Spec == Init /\ [][Next]_vars
=============================================================================
