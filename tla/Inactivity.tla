----------------------------- MODULE Inactivity -----------------------------
(***************************************************************************)
(* The inactivity check of a game, with its clock. Each message of a       *)
(* player is stamped with the system clock, an unsigned number of          *)
(* milliseconds, and then either player whose stamp is too far behind is   *)
(* disconnected. Module Game abstracts from this to "a stamp may expire    *)
(* at any moment"; here time passes, and the system clock is the time plus *)
(* an offset that whoever administers the machine can change.              *)
(*                                                                         *)
(* The stamp belongs to the slot and not to the client: a player who takes *)
(* the slot of one who has left begins with the stamp of the other.        *)
(***************************************************************************)
EXTENDS Integers

CONSTANTS
    MaxInactivity,  \* MAX_INACTIVITY_MS
    ClockRange,     \* the stamps are unsigned numbers below this, 2^64 in the code
    StartOffset,    \* what the clock shows at time 0
    Steps,          \* by how much the clock can be set forward or back
    MaxTime         \* bound: when the behaviour ends

ASSUME InactivityAssumption ==
    /\ MaxInactivity \in Nat /\ ClockRange \in Nat /\ MaxTime \in Nat
    /\ StartOffset \in Int /\ Steps \subseteq Int

\* The clock never shows 0, which is "never", and does not overflow: it counts
\* milliseconds since 1970 in 64 bits.
ASSUME ClockAssumption ==
    \A d \in Steps \cup {0} :
        0 < StartOffset + d /\ StartOffset + d + MaxTime < ClockRange

VARIABLES
    time,      \* the time that has passed
    offset,    \* of the system clock
    lastSeen,  \* per slot: the stamp; 0 is never
    online,    \* per slot: whether its player is connected
    seenAt,    \* per slot: when its player sent his last message, or both were seated
    expired,   \* the slots whose players the last step has found inactive
    defined    \* FALSE once the game has used the client of an empty slot

vars == <<time, offset, lastSeen, online, seenAt, expired, defined>>

Player == {1, 2}
Stamp == 0 .. ClockRange - 1

\* A player takes part in the check once both are there.
Seated == lastSeen[2] # 0

TypeOK ==
    /\ time \in 0 .. MaxTime
    /\ offset \in Int
    /\ lastSeen \in [Player -> Stamp]
    /\ online \in [Player -> BOOLEAN]
    /\ seenAt \in [Player -> 0 .. MaxTime]
    /\ expired \subseteq Player /\ defined \in BOOLEAN
    /\ Seated => lastSeen[1] # 0

\* The first player is seated and waits for the second.
Init ==
    /\ time = 0
    /\ offset = StartOffset
    /\ lastSeen = [i \in Player |-> 0]
    /\ online = [i \in Player |-> i = 1]
    /\ seenAt = [i \in Player |-> 0]
    /\ expired = {} /\ defined = TRUE

Now == (time + offset) % ClockRange

\* Mutant: the second player alone is stamped.
StampSecond == [lastSeen EXCEPT ![2] = Now]

StampBoth == [i \in Player |-> Now]

\* Mutant: the limit itself is too long.
ExpiredAtLimit(stamp, other) ==
    other # 0 /\ (stamp - other) % ClockRange >= MaxInactivity

\* Mutant: a player may be silent for twice as long.
ExpiredLate(stamp, other) ==
    other # 0 /\ (stamp - other) % ClockRange > 2 * MaxInactivity

\* The difference is unsigned.
Expired(stamp, other) ==
    other # 0 /\ (stamp - other) % ClockRange > MaxInactivity

\* The game is over once both players have left.
Running == defined /\ \E i \in Player : online[i]

\* A client takes the empty slot, and the game goes on. The first player is stamped,
\* which may find the second one inactive; the second is stamped then. If the check has
\* disconnected him, what is stamped is a client that is not there.
OnNewClientConnect ==
    /\ Running /\ \E i \in Player : ~online[i]
    /\ \/ /\ ~Expired(Now, lastSeen[2])
          /\ lastSeen' = StampBoth
          /\ online' = [i \in Player |-> TRUE]
          /\ seenAt' = [i \in Player |-> time]
          /\ expired' = {}
          /\ UNCHANGED defined
       \/ /\ Expired(Now, lastSeen[2])
          /\ lastSeen' = [lastSeen EXCEPT ![1] = Now]
          /\ online' = [i \in Player |-> i = 1]
          /\ seenAt' = [i \in Player |-> IF i = 1 \/ ~online[i] THEN time ELSE seenAt[i]]
          /\ expired' = {2}
          /\ defined' = FALSE
    /\ UNCHANGED <<time, offset>>

\* A message of player i.
UpdateClientLastSeen(i) ==
    /\ Running /\ online[i]
    /\ lastSeen' = [lastSeen EXCEPT ![i] = Now]
    /\ expired' = {j \in Player : online[j] /\ Expired(Now, lastSeen'[j])}
    /\ online' = [j \in Player |-> online[j] /\ j \notin expired']
    /\ seenAt' = [seenAt EXCEPT ![i] = time]
    /\ UNCHANGED <<time, offset, defined>>

\* Player i hangs up, or is disconnected for another reason than his silence.
OnClientDisconnect(i) ==
    /\ Running /\ online[i]
    /\ online' = [online EXCEPT ![i] = FALSE]
    /\ expired' = {}
    /\ UNCHANGED <<time, offset, lastSeen, seenAt, defined>>

Tick ==
    /\ Running /\ time < MaxTime
    /\ time' = time + 1
    /\ expired' = {}
    /\ UNCHANGED <<offset, lastSeen, online, seenAt, defined>>

SetClock(d) ==
    /\ Running /\ offset = StartOffset
    /\ offset' = offset + d
    /\ expired' = {}
    /\ UNCHANGED <<time, lastSeen, online, seenAt, defined>>

Next ==
    \/ OnNewClientConnect
    \/ \E i \in Player : UpdateClientLastSeen(i) \/ OnClientDisconnect(i)
    \/ Tick
    \/ \E d \in Steps : SetClock(d)

Spec == Init /\ [][Next]_vars

-----------------------------------------------------------------------------
(* Properties *)

\* While nobody sets the clock, a player who is found inactive has sent nothing for
\* longer than the time allowed. This is false of a client who is found inactive in the
\* step that seats him.
OnlySilentExpire ==
    offset = StartOffset => \A j \in expired : time - seenAt[j] > MaxInactivity

\* It is true of everyone who had a seat before the step, also while players leave and
\* others take their slots with the stamps that are in them.
ActivePlayersStay ==
    [][offset = StartOffset =>
           \A j \in expired' : online[j] => time - seenAt[j] > MaxInactivity]_vars

\* A player who is silent for longer is gone with the first message of the other,
\* also if the clock has been set forward.
SilentPlayersGo ==
    Seated /\ online[1] /\ online[2] /\ offset >= StartOffset =>
        \A i, j \in Player : seenAt[i] - seenAt[j] <= MaxInactivity
=============================================================================
