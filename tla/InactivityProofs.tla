-------------------------- MODULE InactivityProofs --------------------------
(***************************************************************************)
(* The inactivity check is right while the clock is not set back: who had  *)
(* a seat and is found inactive has been silent for too long, and who has  *)
(* been silent for too long is disconnected.                               *)
(*                                                                         *)
(* A stamp is the time of the message plus the offset the clock had then.  *)
(* The unsigned difference of the clock and a stamp is then the time that  *)
(* has passed, or more if the clock has been set forward in between.       *)
(***************************************************************************)
EXTENDS Inactivity, TLAPS

\* The clock is set at most once. A player who is connected in the second slot
\* has been stamped, and a stamp is the time of the slot's last message on the clock
\* of before or on that of now, until a client is seated and expires at once.
StampInv ==
    /\ \E d \in Steps \cup {0} : offset = StartOffset + d
    /\ online[2] => Seated
    /\ \A j \in Player :
          /\ seenAt[j] <= time
          /\ defined /\ lastSeen[j] # 0 =>
                lastSeen[j] - seenAt[j] \in {StartOffset, offset}

IInv == TypeOK /\ StampInv

\* What the clock shows is neither 0 nor cut to the width of a stamp.
LEMMA ClockShows ==
    ASSUME IInv PROVE Now = time + offset /\ Now \in Stamp /\ Now # 0
<1>1. PICK d \in Steps \cup {0} : offset = StartOffset + d
  BY DEF IInv, StampInv
<1>2. 0 < time + offset /\ time + offset < ClockRange /\ time + offset \in Int
  BY <1>1, ClockAssumption, InactivityAssumption DEF IInv, TypeOK
<1>3. (time + offset) % ClockRange = time + offset
  BY <1>2, InactivityAssumption
<1> QED
  BY <1>2, <1>3, InactivityAssumption DEF Now, Stamp

\* Where the clock has not gone back, the unsigned difference is the difference.
LEMMA ExpiredMeans ==
    ASSUME NEW stamp \in Stamp, NEW other \in Stamp, other <= stamp
    PROVE  Expired(stamp, other) <=> other # 0 /\ stamp - other > MaxInactivity
<1>1. (stamp - other) % ClockRange = stamp - other
  BY InactivityAssumption DEF Stamp
<1> QED
  BY <1>1 DEF Expired

LEMMA InitInv == Init => IInv
<1> SUFFICES ASSUME Init PROVE IInv
  OBVIOUS
<1>1. 0 < StartOffset /\ StartOffset < ClockRange
  BY ClockAssumption, InactivityAssumption
<1>2. 0 \in Stamp /\ 0 \in 0 .. MaxTime
  BY <1>1, InactivityAssumption DEF Stamp
<1>3. TypeOK
  <2>1. \A i \in Player : (i = 1) \in BOOLEAN
    OBVIOUS
  <2>2. /\ lastSeen \in [Player -> Stamp] /\ online \in [Player -> BOOLEAN]
        /\ seenAt \in [Player -> 0 .. MaxTime]
    BY <1>2, <2>1 DEF Init
  <2>3. time = 0 /\ offset = StartOffset /\ lastSeen = [i \in Player |-> 0]
    BY DEF Init
  <2>4. /\ time \in 0 .. MaxTime /\ offset \in Int /\ ~Seated
        /\ expired \subseteq Player /\ defined \in BOOLEAN
    BY <1>2, <2>3, InactivityAssumption DEF Init, Seated, Player
  <2> QED
    BY <2>2, <2>4 DEF TypeOK
<1>4. offset = StartOffset + 0
  BY InactivityAssumption DEF Init
<1>5. StampInv
  <2>1. time = 0 /\ lastSeen = [i \in Player |-> 0] /\ seenAt = [i \in Player |-> 0]
    BY DEF Init
  <2>2. ~online[2]
    <3>1. 2 \in Player /\ ~(2 = 1)
      BY DEF Player
    <3> QED
      BY <3>1, Zenon DEF Init
  <2> QED
    BY <1>4, <2>1, <2>2 DEF StampInv
<1> QED
  BY <1>3, <1>5 DEF IInv

LEMMA NextInv == IInv /\ [Next]_vars => IInv'
<1> SUFFICES ASSUME IInv, [Next]_vars PROVE IInv'
  OBVIOUS
<1>0. /\ Now = time + offset /\ Now \in Stamp /\ Now # 0 /\ 0 \in Stamp
      /\ time \in 0 .. MaxTime /\ offset \in Int
      /\ lastSeen \in [Player -> Stamp] /\ seenAt \in [Player -> 0 .. MaxTime]
      /\ online \in [Player -> BOOLEAN] /\ expired \subseteq Player
      /\ defined \in BOOLEAN
  BY ClockShows, InactivityAssumption DEF IInv, TypeOK, Stamp
<1>1. CASE OnNewClientConnect
  <2>0. UNCHANGED <<time, offset>> /\ expired' \subseteq Player
    BY <1>1 DEF OnNewClientConnect, Player
  <2>1. CASE /\ lastSeen' = StampBoth /\ online' = [i \in Player |-> TRUE]
             /\ seenAt' = [i \in Player |-> time] /\ UNCHANGED defined
    <3>1. TypeOK'
      BY <1>0, <2>0, <2>1 DEF TypeOK, Player, Seated, StampBoth
    <3>2. StampInv'
      BY <1>0, <2>0, <2>1 DEF IInv, StampInv, Player, Seated, StampBoth
    <3> QED
      BY <3>1, <3>2 DEF IInv
  <2>2. CASE /\ lastSeen' = [lastSeen EXCEPT ![1] = Now]
             /\ online' = [i \in Player |-> i = 1]
             /\ seenAt' = [i \in Player |-> IF i = 1 \/ ~online[i] THEN time ELSE seenAt[i]]
             /\ defined' = FALSE
    <3>1. lastSeen' \in [Player -> Stamp] /\ lastSeen'[1] # 0
      BY <1>0, <2>2 DEF Player
    <3>2. seenAt' \in [Player -> 0 .. MaxTime] /\ \A j \in Player : seenAt'[j] <= time
      BY <1>0, <2>2 DEF IInv, StampInv
    <3>3. online' \in [Player -> BOOLEAN] /\ ~online'[2]
      <4>1. 2 \in Player /\ ~(2 = 1) /\ \A i \in Player : (i = 1) \in BOOLEAN
        BY DEF Player
      <4> QED
        BY <2>2, <4>1
    <3>4. TypeOK'
      BY <1>0, <2>0, <2>2, <3>1, <3>2, <3>3 DEF TypeOK
    <3>5. StampInv'
      BY <2>0, <2>2, <3>2, <3>3 DEF IInv, StampInv
    <3> QED
      BY <3>4, <3>5 DEF IInv
  <2> QED
    BY <1>1, <2>1, <2>2 DEF OnNewClientConnect
<1>2. ASSUME NEW i \in Player, UpdateClientLastSeen(i) PROVE IInv'
  <2>1. /\ lastSeen' = [lastSeen EXCEPT ![i] = Now] /\ seenAt' = [seenAt EXCEPT ![i] = time]
        /\ online[i] /\ \A j \in Player : online'[j] => online[j]
        /\ online' \in [Player -> BOOLEAN] /\ expired' \subseteq Player
        /\ UNCHANGED <<time, offset, defined>>
    <3>1. online' = [j \in Player |-> online[j] /\ j \notin expired']
      BY <1>2 DEF UpdateClientLastSeen
    <3>2. \A j \in Player : (online[j] /\ j \notin expired') \in BOOLEAN
      BY <1>0
    <3>3. online' \in [Player -> BOOLEAN] /\ \A j \in Player : online'[j] => online[j]
      BY <3>1, <3>2
    <3> QED
      BY <1>2, <3>3 DEF UpdateClientLastSeen
  <2>2. /\ lastSeen'[i] = Now /\ seenAt'[i] = time
        /\ \A j \in Player \ {i} : lastSeen'[j] = lastSeen[j] /\ seenAt'[j] = seenAt[j]
    BY <1>0, <2>1
  <2>3. TypeOK'
    BY <1>0, <2>1, <2>2 DEF IInv, TypeOK, StampInv, Player, Seated
  <2>4. StampInv'
    BY <1>0, <2>1, <2>2 DEF IInv, StampInv, Player, Seated
  <2> QED
    BY <2>3, <2>4 DEF IInv
<1>3. CASE Tick
  BY <1>0, <1>3, InactivityAssumption DEF Tick, IInv, TypeOK, StampInv, Seated
<1>4. ASSUME NEW d \in Steps, SetClock(d) PROVE IInv'
  <2>1. /\ offset = StartOffset /\ offset' = StartOffset + d
        /\ expired' = {} /\ UNCHANGED <<time, lastSeen, online, seenAt, defined>>
    BY <1>4 DEF SetClock
  <2> QED
    BY <2>1, InactivityAssumption DEF IInv, TypeOK, StampInv, Seated
<1>5. CASE UNCHANGED vars
  BY <1>5 DEF vars, IInv, TypeOK, StampInv, Seated
<1>6. ASSUME NEW i \in Player, OnClientDisconnect(i) PROVE IInv'
  <2>1. /\ online' = [online EXCEPT ![i] = FALSE] /\ expired' = {}
        /\ UNCHANGED <<time, offset, lastSeen, seenAt, defined>>
    BY <1>6 DEF OnClientDisconnect
  <2>2. online' \in [Player -> BOOLEAN] /\ (online'[2] => online[2])
    BY <1>0, <2>1 DEF Player
  <2> QED
    BY <1>0, <2>1, <2>2 DEF IInv, TypeOK, StampInv, Seated
<1> QED
  BY <1>1, <1>2, <1>3, <1>4, <1>5, <1>6 DEF Next

\* How far the clock is ahead of another player's stamp, if it has not been set back.
LEMMA ClockAhead ==
    ASSUME IInv, defined, NEW j \in Player, lastSeen[j] # 0, offset >= StartOffset
    PROVE  /\ lastSeen[j] \in Stamp /\ lastSeen[j] <= Now
           /\ Now - lastSeen[j] >= time - seenAt[j]
           /\ offset = StartOffset => Now - lastSeen[j] = time - seenAt[j]
<1>1. /\ lastSeen[j] \in Stamp /\ seenAt[j] \in 0 .. MaxTime /\ time \in 0 .. MaxTime
      /\ offset \in Int /\ seenAt[j] <= time
      /\ lastSeen[j] - seenAt[j] \in {StartOffset, offset}
  BY DEF IInv, TypeOK, StampInv
<1> QED
  BY <1>1, ClockShows, InactivityAssumption DEF Stamp

LEMMA NextStay == IInv /\ Next => (offset = StartOffset =>
    \A j \in expired' : online[j] => time - seenAt[j] > MaxInactivity)
<1> SUFFICES ASSUME IInv, Next, offset = StartOffset, NEW j \in expired', online[j]
             PROVE  time - seenAt[j] > MaxInactivity
  OBVIOUS
<1>0. Now \in Stamp /\ Now \in Int /\ lastSeen \in [Player -> Stamp]
  BY ClockShows, InactivityAssumption DEF Stamp, IInv, TypeOK
<1>1. j \in Player /\ defined /\ Expired(Now, lastSeen[j])
  <2>1. CASE OnNewClientConnect
    BY <2>1 DEF OnNewClientConnect, Running, Player
  <2>2. ASSUME NEW i \in Player, UpdateClientLastSeen(i)
        PROVE  j \in Player /\ defined /\ Expired(Now, lastSeen[j])
    <3>1. /\ j \in Player /\ defined /\ Expired(Now, lastSeen'[j])
          /\ lastSeen' = [lastSeen EXCEPT ![i] = Now]
      BY <2>2 DEF UpdateClientLastSeen, Running
    <3>2. CASE j = i
      <4>1. lastSeen'[j] = Now
        BY <1>0, <3>1, <3>2
      <4> QED
        BY <1>0, <3>1, <4>1, ExpiredMeans, InactivityAssumption
    <3>3. CASE j # i
      BY <1>0, <3>1, <3>3
    <3> QED
      BY <3>2, <3>3
  <2> QED
    BY <2>1, <2>2 DEF Next, OnClientDisconnect, Tick, SetClock
<1>2. lastSeen[j] # 0
  BY <1>1 DEF Expired
<1>3. /\ lastSeen[j] \in Stamp /\ lastSeen[j] <= Now
      /\ Now - lastSeen[j] = time - seenAt[j]
  BY <1>1, <1>2, ClockAhead, InactivityAssumption
<1> QED
  BY <1>0, <1>1, <1>3, ExpiredMeans

LEMMA NextGo == IInv /\ SilentPlayersGo /\ [Next]_vars => SilentPlayersGo'
<1> SUFFICES ASSUME IInv, SilentPlayersGo, [Next]_vars,
                    Seated', online'[1], online'[2], offset' >= StartOffset,
                    NEW i \in Player, NEW j \in Player
             PROVE  seenAt'[i] - seenAt'[j] <= MaxInactivity
  BY DEF SilentPlayersGo
<1>0. /\ time \in 0 .. MaxTime /\ offset \in Int /\ seenAt \in [Player -> 0 .. MaxTime]
      /\ lastSeen \in [Player -> Stamp] /\ online \in [Player -> BOOLEAN]
      /\ \A k \in Player : seenAt[k] <= time
  BY DEF IInv, TypeOK, StampInv
<1>1. CASE OnNewClientConnect
  <2>1. seenAt' = [k \in Player |-> time]
    <3>1. ~(2 = 1) /\ 2 \in Player
      BY DEF Player
    <3>2. online' # [k \in Player |-> k = 1]
      BY <3>1
    <3> QED
      BY <1>1, <3>2 DEF OnNewClientConnect
  <2> QED
    BY <1>0, <2>1, InactivityAssumption
<1>2. ASSUME NEW k \in Player, UpdateClientLastSeen(k)
      PROVE  seenAt'[i] - seenAt'[j] <= MaxInactivity
  <2> DEFINE other == 3 - k
  <2>1. /\ other \in Player /\ other # k /\ Player = {k, other}
    BY DEF Player
  <2>2. /\ defined /\ online[1] /\ online[2] /\ ~Expired(Now, lastSeen'[other])
        /\ lastSeen' = [lastSeen EXCEPT ![k] = Now] /\ seenAt' = [seenAt EXCEPT ![k] = time]
        /\ UNCHANGED <<time, offset>>
    BY <1>2, <2>1 DEF UpdateClientLastSeen, Running, Player
  <2>3. Seated /\ lastSeen[other] # 0
    BY <2>1, <2>2 DEF IInv, TypeOK, StampInv, Player, Seated
  <2>4. lastSeen'[other] = lastSeen[other] /\ seenAt'[other] = seenAt[other] /\ seenAt'[k] = time
    BY <1>0, <2>1, <2>2
  <2>5. /\ lastSeen[other] \in Stamp /\ lastSeen[other] <= Now
        /\ Now - lastSeen[other] >= time - seenAt[other] /\ Now \in Stamp
    BY <2>1, <2>2, <2>3, ClockAhead, ClockShows
  <2>6. ~(Now - lastSeen[other] > MaxInactivity)
    BY <2>2, <2>3, <2>4, <2>5, ExpiredMeans
  <2>7. time - seenAt[other] <= MaxInactivity /\ seenAt[other] <= time
    BY <1>0, <2>1, <2>5, <2>6, InactivityAssumption DEF Stamp
  <2> HIDE DEF other
  <2> QED
    BY <1>0, <2>1, <2>4, <2>7, InactivityAssumption
<1>3. CASE Tick
  BY <1>3 DEF Tick, SilentPlayersGo, Seated
<1>4. ASSUME NEW d \in Steps, SetClock(d) PROVE seenAt'[i] - seenAt'[j] <= MaxInactivity
  BY <1>4, InactivityAssumption DEF SetClock, SilentPlayersGo, Seated
<1>5. CASE UNCHANGED vars
  BY <1>5 DEF vars, SilentPlayersGo, Seated
<1>6. ASSUME NEW k \in Player, OnClientDisconnect(k) PROVE FALSE
  <2>1. online' = [online EXCEPT ![k] = FALSE] /\ k \in {1, 2}
    BY <1>6 DEF OnClientDisconnect, Player
  <2> QED
    BY <1>0, <2>1 DEF Player
<1> QED
  BY <1>1, <1>2, <1>3, <1>4, <1>5, <1>6 DEF Next

\* Stamps stay within their width and the first player is stamped with the second.
THEOREM InactivityTypes == Spec => []TypeOK
<1>1. IInv => TypeOK
  BY DEF IInv
<1> QED
  BY InitInv, NextInv, <1>1, PTL DEF Spec

\* While nobody sets the clock, whoever has a seat and is found inactive has been
\* silent for longer than allowed: the unsigned difference of two stamps never wraps,
\* and the stamp a slot has kept from a player who left is either replaced when the
\* next one is seated, or expires in that very step.
THEOREM ActivePlayersAreKept == Spec => ActivePlayersStay
<1>1. IInv /\ [Next]_vars => [offset = StartOffset =>
          \A j \in expired' : online[j] => time - seenAt[j] > MaxInactivity]_vars
  BY NextStay
<1> QED
  BY InitInv, NextInv, <1>1, PTL DEF Spec, ActivePlayersStay

\* Two players who are both still connected have been heard of within the limit of
\* each other, also after the clock has been set forward.
THEOREM SilentPlayersAreGone == Spec => []SilentPlayersGo
<1>1. Init => SilentPlayersGo
  BY DEF Init, SilentPlayersGo, Player, Seated
<1> QED
  BY InitInv, NextInv, NextGo, <1>1, PTL DEF Spec
=============================================================================
