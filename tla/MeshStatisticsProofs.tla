------------------------- MODULE MeshStatisticsProofs -------------------------
(***************************************************************************)
(* Proofs about MeshStatistics, for any number of other stones and any     *)
(* lengths of sessions, elections and timeouts: a stone sends what others  *)
(* assume that it sends, and counts no ping twice.                         *)
(***************************************************************************)
EXTENDS MeshStatistics, TLAPS

(* A session lasts from its first delay to the last: as long loop() does   *)
(* not look at newState, and no message changes state.                     *)
InSession(a) == a.at \in {"starting", "pinging", "ending", "ended"}

(* What holds of the globals whenever loop() waits.                        *)
Consistent(a) ==
    /\ a \in App
    /\ a.timeoutCounter <= TIMEOUT_TICKS + 1
    /\ InSession(a) => a.state = "SESSION_LEADER" /\ a.electionCounter = 0
    /\ a.at \in {"starting", "pinging"} => a.sessionPingsSent <= PINGS_PER_SESSION
    /\ a.at = "ending" => a.sessionPingsSent \in {0, PINGS_PER_SESSION + 1}
    /\ a.newState = "ELECTION_LEADER" \/ a.at = "updated" => a.electionCounter <= ELECTION_TICKS
    /\ a.newState = "WAITING_FOR_LEADER_ACCEPTANCE" => a.currentBestCandidate \in Others
    /\ a.newState = "SESSION_COUNTER" => a.sessionPingsReceived <= a.sessionPingsSent

Sendable ==
    {NoMessage} \cup MessagesOf(ownId) \cup {Message("SESSION_RESULT", ownId, n) : n \in 0 .. UINT8 - 1}

IInv == Consistent(app) /\ sent \in Sendable
------------------------------------------------------------------------------
(* The count of pings wraps at the width of its type, and never grows by   *)
(* that.                                                                   *)
LEMMA WrappedCount ==
    ASSUME NEW n \in Nat
    PROVE  n % UINT8 \in 0 .. UINT8 - 1 /\ n % UINT8 <= n
<1>1. UINT8 \in Nat \ {0}
    BY MeshStatisticsAssumption
<1> QED
    BY <1>1, SMT

(* Zero is in every range.                                                 *)
LEMMA Zeros ==
    /\ 0 \in 0 .. MaxSessions
    /\ 0 \in 0 .. UINT8 - 1
    /\ 0 \in 0 .. PINGS_PER_SESSION + 1
    /\ 0 \in 0 .. ELECTION_TICKS + 1
    /\ 0 \in 0 .. TIMEOUT_TICKS + 2
BY MeshStatisticsAssumption

LEMMA InitConsistent == Init => IInv
BY MeshStatisticsAssumption
   DEF Init, IInv, setup, Consistent, App, InSession, States, Stones, Nobody, Sendable

------------------------------------------------------------------------------
(* onMeshMessage, by type of the message: b is what the stone makes of it. *)

LEMMA SessionStartHeard ==
    ASSUME NEW a, Consistent(a), NEW m, m.stoneId \in Others
    PROVE  Consistent(OnSessionStart(a, m))
<1> DEFINE b == OnSessionStart(a, m)
<1>1. a \in App
    BY DEF Consistent
<1>2. m.stoneId \in Stones /\ "SESSION_COUNTER" \in States
    BY DEF Stones, States
<1>3. b \in App
    BY <1>1, <1>2, Zeros DEF OnSessionStart, App
<1>4. /\ b.at = a.at /\ b.state = a.state /\ b.newState = "SESSION_COUNTER"
      /\ b.timeoutCounter = 0 /\ b.electionCounter = 0
      /\ b.sessionPingsReceived = 0 /\ b.sessionPingsSent = 0
      /\ b.currentBestCandidate = Nobody
    BY <1>1 DEF OnSessionStart, App
<1> HIDE DEF b
<1>5. Consistent(b)
    BY <1>3, <1>4, MeshStatisticsAssumption DEF Consistent, InSession
<1> QED
    BY <1>5 DEF b

(* A ping that counts has a higher number than the count so far.           *)
LEMMA PingHeard ==
    ASSUME NEW a, Consistent(a), NEW m, m.value \in 1 .. PINGS_PER_SESSION
    PROVE  Consistent(OnPing(a, m))
<1> DEFINE b == OnPing(a, m)
           count == (a.sessionPingsReceived + 1) % UINT8
<1>1. a \in App
    BY DEF Consistent
<1>2. count \in 0 .. UINT8 - 1 /\ count <= a.sessionPingsReceived + 1
    BY <1>1, WrappedCount, MeshStatisticsAssumption DEF App
<1>3. m.value \in 0 .. PINGS_PER_SESSION + 1
    BY MeshStatisticsAssumption
<1>4. b \in App
    BY <1>1, <1>2, <1>3, Zeros DEF OnPing, App
<1>5. /\ b.at = a.at /\ b.state = a.state /\ b.newState = a.newState
      /\ b.timeoutCounter = 0 /\ b.electionCounter = a.electionCounter
      /\ b.currentBestCandidate = a.currentBestCandidate
    BY <1>1 DEF OnPing, App
<1>6. \/ /\ b.sessionPingsReceived = a.sessionPingsReceived
         /\ b.sessionPingsSent = a.sessionPingsSent
      \/ /\ a.state = "SESSION_COUNTER" /\ m.value > a.sessionPingsSent
         /\ b.sessionPingsReceived = count
         /\ b.sessionPingsSent = m.value
    BY <1>1 DEF OnPing, FromLeader, App
<1> HIDE DEF b, count
<1>7. Consistent(b)
    BY <1>1, <1>2, <1>4, <1>5, <1>6, MeshStatisticsAssumption DEF Consistent, InSession, App
<1> QED
    BY <1>7 DEF b

(* A leader in its session does not take the number of another one.        *)
LEMMA SessionEndHeard ==
    ASSUME NEW a, Consistent(a), NEW m, m.value \in {0, PINGS_PER_SESSION + 1}
    PROVE  Consistent(OnSessionEnd(a, m))
<1> DEFINE b == OnSessionEnd(a, m)
<1>1. a \in App
    BY DEF Consistent
<1>2. m.value \in 0 .. PINGS_PER_SESSION + 1 /\ "ELECTION_APPLICANT" \in States
    BY MeshStatisticsAssumption DEF States
<1>3. b \in App
    <2>1. FromLeader(a, m) \in BOOLEAN
        BY DEF FromLeader
    <2> QED
        BY <1>1, <1>2, <2>1, Zeros DEF OnSessionEnd, App
<1>4. /\ b.at = a.at /\ b.state = a.state /\ b.newState = "ELECTION_APPLICANT"
      /\ b.timeoutCounter = 0 /\ b.electionCounter = a.electionCounter
      /\ b.currentBestCandidate = a.currentBestCandidate
      /\ a.state = "SESSION_COUNTER" \/ b.sessionPingsSent = a.sessionPingsSent
    BY <1>1 DEF OnSessionEnd, FromLeader, App
<1> HIDE DEF b
<1>5. Consistent(b)
    BY <1>1, <1>3, <1>4, MeshStatisticsAssumption DEF Consistent, InSession, App
<1> QED
    BY <1>5 DEF b

LEMMA ApplicationHeard ==
    ASSUME NEW a, Consistent(a), NEW m, m.stoneId \in Others, m.value \in 0 .. MaxSessions
    PROVE  Consistent(OnApplication(a, m))
<1> DEFINE b == OnApplication(a, m)
<1>1. a \in App
    BY DEF Consistent
<1>2. m.stoneId \in Stones
    BY DEF Stones
<1>3. b \in App
    BY <1>1, <1>2 DEF OnApplication, App
<1>4. /\ b.at = a.at /\ b.state = a.state /\ b.newState = a.newState
      /\ b.timeoutCounter = a.timeoutCounter /\ b.electionCounter = a.electionCounter
      /\ b.sessionPingsReceived = a.sessionPingsReceived
      /\ b.sessionPingsSent = a.sessionPingsSent
      /\ b.currentBestCandidate \in {a.currentBestCandidate, m.stoneId}
    BY <1>1 DEF OnApplication, App
<1> HIDE DEF b
<1>5. Consistent(b)
    BY <1>3, <1>4 DEF Consistent, InSession
<1> QED
    BY <1>5 DEF b

LEMMA UpdateHeard ==
    ASSUME NEW a, Consistent(a), NEW m, m.value \in 0 .. MaxSessions
    PROVE  Consistent(OnUpdate(a, m))
BY MeshStatisticsAssumption
   DEF OnUpdate, Consistent, App, InSession, States, Stones, Nobody

LEMMA ResultHeard ==
    ASSUME NEW a, Consistent(a), NEW m, m.value \in Stones
    PROVE  Consistent(OnResult(a, m))
<1> DEFINE b == OnResult(a, m)
<1>1. a \in App
    BY DEF Consistent
<1>2. /\ ownId \in Stones
      /\ "SESSION_LEADER" \in States /\ "WAITING_FOR_SESSION_START" \in States
    BY DEF Stones, States
<1>3. a.sessionsSinceLastLeadership < MaxSessions
          => a.sessionsSinceLastLeadership + 1 \in 0 .. MaxSessions
    BY <1>1, MeshStatisticsAssumption DEF App
<1>4. b \in App
    BY <1>1, <1>2, <1>3, Zeros DEF OnResult, App
<1>5. /\ b.at = a.at /\ b.state = a.state
      /\ b.newState \in {a.newState, "SESSION_LEADER", "WAITING_FOR_SESSION_START"}
      /\ b.timeoutCounter = 0 /\ b.electionCounter = a.electionCounter
      /\ b.sessionPingsReceived = a.sessionPingsReceived
      /\ b.sessionPingsSent = a.sessionPingsSent
      /\ b.currentBestCandidate = a.currentBestCandidate
    BY <1>1 DEF OnResult, App
<1> HIDE DEF b
<1>6. Consistent(b)
    BY <1>4, <1>5, MeshStatisticsAssumption DEF Consistent, InSession
<1> QED
    BY <1>6 DEF b

(* Whatever other stones send.                                             *)
LEMMA ArrivesConsistent ==
    ASSUME IInv, Arrives
    PROVE  IInv'
<1>1. PICK m \in Heard : onMeshMessage(m)
    BY DEF Arrives
<1>2. PICK s \in Others : m \in MessagesOf(s)
    BY <1>1 DEF Heard
<1>3. Consistent(app')
    <2>1. CASE m.type = "SESSION_START" /\ app' = OnSessionStart(app, m)
        <3>1. m.stoneId \in Others
            BY <1>2, <2>1 DEF MessagesOf, Message
        <3> QED
            BY <2>1, <3>1, SessionStartHeard DEF IInv
    <2>2. CASE m.type = "SESSION_PING" /\ app' = OnPing(app, m)
        <3>1. m.value \in 1 .. PINGS_PER_SESSION
            BY <1>2, <2>2 DEF MessagesOf, Message
        <3> QED
            BY <2>2, <3>1, PingHeard DEF IInv
    <2>3. CASE m.type = "SESSION_END_ELECTION_START" /\ app' = OnSessionEnd(app, m)
        <3>1. m.value \in {0, PINGS_PER_SESSION + 1}
            BY <1>2, <2>3 DEF MessagesOf, Message
        <3> QED
            BY <2>3, <3>1, SessionEndHeard DEF IInv
    <2>4. CASE m.type = "ELECTION_APPLICATION" /\ app' = OnApplication(app, m)
        <3>1. m.stoneId \in Others /\ m.value \in 0 .. MaxSessions
            BY <1>2, <2>4 DEF MessagesOf, Message
        <3> QED
            BY <2>4, <3>1, ApplicationHeard DEF IInv
    <2>5. CASE m.type = "ELECTION_UPDATE" /\ app' = OnUpdate(app, m)
        <3>1. m.value \in 0 .. MaxSessions
            BY <1>2, <2>5 DEF MessagesOf, Message
        <3> QED
            BY <2>5, <3>1, UpdateHeard DEF IInv
    <2>6. CASE m.type = "ELECTION_RESULT" /\ app' = OnResult(app, m)
        <3>1. m.value \in Stones
            BY <1>2, <2>6 DEF MessagesOf, Message
        <3> QED
            BY <2>6, <3>1, ResultHeard DEF IInv
    <2> QED
        BY <1>1, <2>1, <2>2, <2>3, <2>4, <2>5, <2>6 DEF onMeshMessage
<1> QED
    BY <1>1, <1>3 DEF IInv, onMeshMessage, Sendable

------------------------------------------------------------------------------
(* loop().  Its first lines may only leave the bound on timeoutCounter     *)
(* when a session begins, which resets it.                                 *)
LEMMA NextStateConsistent ==
    ASSUME NEW a, Consistent(a), a.at = "loop"
    PROVE  /\ NextState(a) \in App
           /\ NextState(a).at = "loop" /\ NextState(a).newState = NextState(a).state
           /\ NextState(a).state # "SESSION_LEADER" => Consistent(NextState(a))
<1> DEFINE b == NextState(a)
<1>1. a \in App
    BY DEF Consistent
<1>2. a.timeoutCounter + 1 \in 0 .. TIMEOUT_TICKS + 2 /\ "SESSION_LEADER" \in States
    BY <1>1, MeshStatisticsAssumption DEF Consistent, App, States
<1>3. b \in App
    BY <1>1, <1>2 DEF NextState, App
<1>4. /\ b.at = a.at /\ b.newState = b.state
      /\ b.timeoutCounter = a.timeoutCounter + 1
      /\ \/ b.state = "SESSION_LEADER"
         \/ b.state = a.newState /\ ~(a.timeoutCounter > TIMEOUT_TICKS)
      /\ b.electionCounter = a.electionCounter
      /\ b.sessionPingsReceived = a.sessionPingsReceived
      /\ b.sessionPingsSent = a.sessionPingsSent
      /\ b.currentBestCandidate = a.currentBestCandidate
    BY <1>1 DEF NextState, App
<1> HIDE DEF b
<1>5. b.state # "SESSION_LEADER" => Consistent(b)
    BY <1>1, <1>3, <1>4, MeshStatisticsAssumption DEF Consistent, InSession, App
<1> QED
    BY <1>3, <1>4, <1>5 DEF b

LEMMA BeginSessionConsistent ==
    ASSUME NEW a \in App, a.newState = a.state, sent \in Sendable, beginSession(a)
    PROVE  IInv'
<1> DEFINE b == [a EXCEPT !.sessionPingsReceived = 0, !.sessionPingsSent = 0,
                          !.electionCounter = 0, !.timeoutCounter = 0, !.at = "starting"]
<1>1. b \in App
    BY Zeros DEF App
<1>2. /\ b.at = "starting" /\ b.state = "SESSION_LEADER" /\ b.newState = "SESSION_LEADER"
      /\ b.electionCounter = 0 /\ b.timeoutCounter = 0 /\ b.sessionPingsSent = 0
    BY DEF beginSession, App
<1> HIDE DEF b
<1>3. Consistent(b)
    BY <1>1, <1>2, MeshStatisticsAssumption DEF Consistent, InSession
<1>4. app' = b /\ sent' = sent
    BY DEF beginSession, b
<1> QED
    BY <1>3, <1>4 DEF IInv, Sendable

(* An election that is over is left, so that its counter goes no further.  *)
LEMMA ElectConsistent ==
    ASSUME NEW a, Consistent(a), ~InSession(a), a.electionCounter <= ELECTION_TICKS
    PROVE  Consistent(Elect(a))
<1> DEFINE b == Elect(a)
<1>1. a \in App
    BY DEF Consistent
<1>2. /\ a.electionCounter + 1 \in 0 .. ELECTION_TICKS + 1
      /\ "SESSION_LEADER" \in States /\ "WAITING_FOR_LEADER_ACCEPTANCE" \in States
    BY <1>1, MeshStatisticsAssumption DEF App, States
<1>3. b \in App
    BY <1>1, <1>2 DEF Elect, App
<1>4. /\ b.at = "loop" /\ b.state = a.state
      /\ b.timeoutCounter = a.timeoutCounter /\ b.electionCounter = a.electionCounter + 1
      /\ b.sessionPingsReceived = a.sessionPingsReceived
      /\ b.sessionPingsSent = a.sessionPingsSent
      /\ b.currentBestCandidate = a.currentBestCandidate
      /\ \/ a.electionCounter < ELECTION_TICKS /\ b.newState = a.newState
         \/ b.newState = "SESSION_LEADER"
         \/ b.newState = "WAITING_FOR_LEADER_ACCEPTANCE" /\ a.currentBestCandidate # Nobody
    BY <1>1 DEF Elect, App
<1> HIDE DEF b
<1>5. Consistent(b)
    BY <1>1, <1>3, <1>4, MeshStatisticsAssumption DEF Consistent, InSession, App
<1> QED
    BY <1>5 DEF b

(* Messages the stone may send.                                            *)
LEMMA MaySend ==
    /\ Message("SESSION_START", ownId, Nobody) \in Sendable
    /\ \A n \in 1 .. PINGS_PER_SESSION : Message("SESSION_PING", ownId, n) \in Sendable
    /\ \A n \in {0, PINGS_PER_SESSION + 1} :
          Message("SESSION_END_ELECTION_START", ownId, n) \in Sendable
    /\ \A n \in 0 .. MaxSessions :
          /\ Message("ELECTION_APPLICATION", ownId, n) \in Sendable
          /\ Message("ELECTION_UPDATE", ownId, n) \in Sendable
    /\ \A s \in Others : Message("ELECTION_RESULT", ownId, s) \in Sendable
    /\ \A n \in 0 .. UINT8 - 1 : Message("SESSION_RESULT", ownId, n) \in Sendable
<1>1. Message("SESSION_START", ownId, Nobody) \in Sendable
    BY DEF Sendable, MessagesOf
<1>2. \A n \in 1 .. PINGS_PER_SESSION : Message("SESSION_PING", ownId, n) \in Sendable
    BY DEF Sendable, MessagesOf
<1>3. \A n \in {0, PINGS_PER_SESSION + 1} :
         Message("SESSION_END_ELECTION_START", ownId, n) \in Sendable
    BY DEF Sendable, MessagesOf
<1>4. \A n \in 0 .. MaxSessions :
         /\ Message("ELECTION_APPLICATION", ownId, n) \in Sendable
         /\ Message("ELECTION_UPDATE", ownId, n) \in Sendable
    BY DEF Sendable, MessagesOf
<1>5. \A s \in Others : Message("ELECTION_RESULT", ownId, s) \in Sendable
    BY MeshStatisticsAssumption DEF Sendable, MessagesOf, Stones
<1>6. \A n \in 0 .. UINT8 - 1 : Message("SESSION_RESULT", ownId, n) \in Sendable
    BY DEF Sendable
<1> QED
    BY <1>1, <1>2, <1>3, <1>4, <1>5, <1>6

LEMMA SessionResultConsistent ==
    ASSUME NEW a, Consistent(a), ~InSession(a), sent \in Sendable, sendSessionResult(a)
    PROVE  IInv'
<1> DEFINE b == [a EXCEPT !.sendSessionResult = FALSE, !.at = "loop"]
<1>1. a \in App
    BY DEF Consistent
<1>2. b \in App
    BY <1>1 DEF App
<1>3. /\ b.at = "loop" /\ b.state = a.state /\ b.newState = a.newState
      /\ b.timeoutCounter = a.timeoutCounter /\ b.electionCounter = a.electionCounter
      /\ b.sessionPingsReceived = a.sessionPingsReceived
      /\ b.sessionPingsSent = a.sessionPingsSent
      /\ b.currentBestCandidate = a.currentBestCandidate
    BY <1>1 DEF App
<1>4. app' = b /\ (sent' = sent \/ sent' = Message("SESSION_RESULT", ownId, a.sessionPingsReceived))
    BY DEF sendSessionResult, Send
<1> HIDE DEF b
<1>5. Consistent(b)
    BY <1>2, <1>3 DEF Consistent, InSession
<1>6. sent' \in Sendable
    BY <1>1, <1>4, MaySend DEF App
<1> QED
    BY <1>4, <1>5, <1>6 DEF IInv, Sendable

(* The rest of loop(), when no session begins.                             *)
LEMMA LoopConsistent ==
    ASSUME NEW a, Consistent(a), a.at = "loop", a.newState = a.state, sent \in Sendable,
           \/ sendLeadershipApplication(a)
           \/ sendSessionResult(a)
           \/ sendElectionUpdate(a)
           \/ sendElectionResult(a)
           \/ waitOrCount(a)
    PROVE  IInv'
<1>1. a \in App /\ ~InSession(a)
    BY DEF Consistent, InSession
<1>2. CASE sendLeadershipApplication(a)
    <2> DEFINE b == [a EXCEPT !.at = "applied"]
    <2>1. b \in App
        BY <1>1 DEF App
    <2>2. /\ b.at = "applied" /\ b.state = a.state /\ b.newState = a.newState
          /\ b.timeoutCounter = a.timeoutCounter /\ b.electionCounter = a.electionCounter
          /\ b.sessionPingsReceived = a.sessionPingsReceived
          /\ b.sessionPingsSent = a.sessionPingsSent
          /\ b.currentBestCandidate = a.currentBestCandidate
        BY <1>1 DEF App
    <2>3. /\ app' = b
          /\ sent' = Message("ELECTION_APPLICATION", ownId, a.sessionsSinceLastLeadership)
        BY <1>2 DEF sendLeadershipApplication, Send
    <2> HIDE DEF b
    <2>4. Consistent(b)
        BY <2>1, <2>2 DEF Consistent, InSession
    <2>5. sent' \in Sendable
        BY <1>1, <2>3, MaySend DEF App
    <2> QED
        BY <2>3, <2>4, <2>5 DEF IInv, Sendable
<1>3. CASE sendSessionResult(a)
    BY <1>1, <1>3, SessionResultConsistent
<1>4. CASE sendElectionUpdate(a)
    <2>1. a.electionCounter <= ELECTION_TICKS
        BY <1>4 DEF sendElectionUpdate, Consistent
    <2>2. CASE app' = Elect(a) /\ UNCHANGED sent
        BY <1>1, <2>1, <2>2, ElectConsistent DEF IInv, Sendable
    <2>3. CASE app' = [a EXCEPT !.at = "updated"] /\ Send("ELECTION_UPDATE", a.currentBestCandidateScore)
        <3> DEFINE b == [a EXCEPT !.at = "updated"]
        <3>1. b \in App
            BY <1>1 DEF App
        <3>2. /\ b.at = "updated" /\ b.state = a.state /\ b.newState = a.newState
              /\ b.timeoutCounter = a.timeoutCounter /\ b.electionCounter = a.electionCounter
              /\ b.sessionPingsReceived = a.sessionPingsReceived
              /\ b.sessionPingsSent = a.sessionPingsSent
              /\ b.currentBestCandidate = a.currentBestCandidate
            BY <1>1 DEF App
        <3> HIDE DEF b
        <3>3. Consistent(b)
            BY <2>1, <3>1, <3>2 DEF Consistent, InSession
        <3>4. sent' \in Sendable
            BY <1>1, <2>3, MaySend DEF App, Send
        <3> QED
            BY <2>3, <3>3, <3>4 DEF b, IInv, Sendable
    <2> QED
        BY <1>4, <2>2, <2>3 DEF sendElectionUpdate
<1>5. CASE sendElectionResult(a)
    <2>1. a.currentBestCandidate \in Others
        BY <1>5 DEF sendElectionResult, Consistent
    <2> QED
        BY <1>5, <2>1, MaySend DEF sendElectionResult, Send, IInv, Sendable
<1>6. CASE waitOrCount(a)
    BY <1>6 DEF waitOrCount, IInv, Sendable
<1> QED
    BY <1>2, <1>3, <1>4, <1>5, <1>6

LEMMA loopConsistent ==
    ASSUME IInv, loop
    PROVE  IInv'
<1>1. CASE app.at = "loop"
    <2> DEFINE a == NextState(app)
    <2>1. /\ a \in App /\ a.at = "loop" /\ a.newState = a.state
          /\ a.state # "SESSION_LEADER" => Consistent(a)
        BY <1>1, NextStateConsistent DEF IInv
    <2>2. \/ beginSession(a)
          \/ sendLeadershipApplication(a)
          \/ sendSessionResult(a)
          \/ sendElectionUpdate(a)
          \/ sendElectionResult(a)
          \/ waitOrCount(a)
        BY <1>1 DEF loop
    <2>3. sent \in Sendable
        BY DEF IInv
    <2> HIDE DEF a
    <2>4. CASE beginSession(a)
        BY <2>1, <2>3, <2>4, BeginSessionConsistent
    <2>5. CASE ~beginSession(a)
        <3>1. a.state # "SESSION_LEADER"
            BY <2>2, <2>5 DEF sendLeadershipApplication, sendSessionResult, sendElectionUpdate,
                              sendElectionResult, waitOrCount
        <3> QED
            BY <2>1, <2>2, <2>3, <2>5, <3>1, LoopConsistent
    <2> QED
        BY <2>4, <2>5
<1>2. CASE app.at = "applied" /\ sendSessionResult(app)
    BY <1>2, SessionResultConsistent DEF IInv, InSession
<1>3. CASE app.at = "updated" /\ app' = Elect([app EXCEPT !.sendElectionUpdate = FALSE])
                              /\ UNCHANGED sent
    <2> DEFINE b == [app EXCEPT !.sendElectionUpdate = FALSE]
    <2>1. app \in App
        BY DEF IInv, Consistent
    <2>2. b \in App
        BY <2>1 DEF App
    <2>3. /\ b.at = "updated" /\ b.state = app.state /\ b.newState = app.newState
          /\ b.timeoutCounter = app.timeoutCounter /\ b.electionCounter = app.electionCounter
          /\ b.sessionPingsReceived = app.sessionPingsReceived
          /\ b.sessionPingsSent = app.sessionPingsSent
          /\ b.currentBestCandidate = app.currentBestCandidate
        BY <1>3, <2>1 DEF App
    <2> HIDE DEF b
    <2>4. Consistent(b) /\ ~InSession(b) /\ b.electionCounter <= ELECTION_TICKS
        BY <1>3, <2>2, <2>3 DEF IInv, Consistent, InSession
    <2> QED
        BY <1>3, <2>4, ElectConsistent DEF b, IInv, Sendable
<1> QED
    BY <1>1, <1>2, <1>3 DEF loop

(* leaderSession, in its delays.                                           *)
LEMMA SessionConsistent ==
    ASSUME IInv, leaderSession
    PROVE  IInv'
<1>1. app \in App /\ Consistent(app) /\ sent \in Sendable
    BY DEF IInv, Consistent
<1>2. CASE sendSessionStart
    <2> DEFINE b == [app EXCEPT !.at = "pinging"]
    <2>1. b \in App
        BY <1>1 DEF App
    <2>2. /\ b.at = "pinging" /\ b.state = app.state /\ b.newState = app.newState
          /\ b.timeoutCounter = app.timeoutCounter /\ b.electionCounter = app.electionCounter
          /\ b.sessionPingsReceived = app.sessionPingsReceived
          /\ b.sessionPingsSent = app.sessionPingsSent
          /\ b.currentBestCandidate = app.currentBestCandidate
        BY <1>1 DEF App
    <2>3. app.at = "starting" /\ app' = b /\ sent' \in Sendable
        BY <1>2, MaySend DEF sendSessionStart, Send
    <2> HIDE DEF b
    <2> QED
        BY <1>1, <2>1, <2>2, <2>3 DEF IInv, Consistent, InSession, Sendable
<1>3. CASE sendPing
    <2> DEFINE n == app.sessionPingsSent + 1
               b == [app EXCEPT !.sessionPingsSent = n]
               c == [app EXCEPT !.sessionPingsSent = n, !.at = "ending"]
    <2>1. /\ app.at = "pinging"
          /\ n \in 1 .. PINGS_PER_SESSION + 1 /\ n \in 0 .. PINGS_PER_SESSION + 1
        BY <1>1, <1>3, MeshStatisticsAssumption DEF sendPing, Consistent, App
    <2>2. CASE n <= PINGS_PER_SESSION /\ app' = b /\ Send("SESSION_PING", n)
        <3>1. b \in App
            BY <1>1, <2>1 DEF App
        <3>2. /\ b.at = app.at /\ b.state = app.state /\ b.newState = app.newState
              /\ b.timeoutCounter = app.timeoutCounter /\ b.electionCounter = app.electionCounter
              /\ b.sessionPingsReceived = app.sessionPingsReceived
              /\ b.sessionPingsSent = n
              /\ b.currentBestCandidate = app.currentBestCandidate
            BY <1>1 DEF App
        <3>3. n \in 1 .. PINGS_PER_SESSION
            BY <2>1, <2>2, MeshStatisticsAssumption
        <3> HIDE DEF b
        <3>4. Consistent(b)
            BY <1>1, <2>1, <2>2, <3>1, <3>2, MeshStatisticsAssumption
               DEF Consistent, InSession, App
        <3>5. sent' \in Sendable
            BY <2>2, <3>3, MaySend DEF Send
        <3> QED
            BY <2>2, <3>4, <3>5 DEF IInv, Sendable
    <2>3. CASE n > PINGS_PER_SESSION /\ app' = c /\ UNCHANGED sent
        <3>1. c \in App
            BY <1>1, <2>1 DEF App
        <3>2. /\ c.at = "ending" /\ c.state = app.state /\ c.newState = app.newState
              /\ c.timeoutCounter = app.timeoutCounter /\ c.electionCounter = app.electionCounter
              /\ c.sessionPingsReceived = app.sessionPingsReceived
              /\ c.sessionPingsSent = n
              /\ c.currentBestCandidate = app.currentBestCandidate
            BY <1>1 DEF App
        <3>3. n = PINGS_PER_SESSION + 1
            BY <2>1, <2>3, MeshStatisticsAssumption
        <3> HIDE DEF c
        <3>4. Consistent(c)
            BY <1>1, <2>1, <3>1, <3>2, <3>3, MeshStatisticsAssumption
               DEF Consistent, InSession, App
        <3> QED
            BY <1>1, <2>3, <3>4 DEF IInv, Sendable
    <2> QED
        BY <1>3, <2>2, <2>3 DEF sendPing
<1>4. CASE sendSessionEndElectionStart
    <2> DEFINE b == [app EXCEPT !.at = "ended"]
    <2>1. b \in App
        BY <1>1 DEF App
    <2>2. /\ b.at = "ended" /\ b.state = app.state /\ b.newState = app.newState
          /\ b.timeoutCounter = app.timeoutCounter /\ b.electionCounter = app.electionCounter
          /\ b.sessionPingsReceived = app.sessionPingsReceived
          /\ b.sessionPingsSent = app.sessionPingsSent
          /\ b.currentBestCandidate = app.currentBestCandidate
        BY <1>1 DEF App
    <2>3. app.at = "ending" /\ app' = b
        BY <1>4 DEF sendSessionEndElectionStart
    <2>4. sent' \in Sendable
        BY <1>1, <1>4, MaySend DEF sendSessionEndElectionStart, Send, Consistent
    <2> HIDE DEF b
    <2> QED
        BY <1>1, <2>1, <2>2, <2>3, <2>4 DEF IInv, Consistent, InSession, Sendable
<1>5. CASE becomeElectionLeader
    <2> DEFINE b == [app EXCEPT !.at = "loop", !.sessionsSinceLastLeadership = 1,
                                !.newState = "ELECTION_LEADER"]
    <2>1. 1 \in 0 .. MaxSessions /\ "ELECTION_LEADER" \in States
        BY MeshStatisticsAssumption DEF States
    <2>2. b \in App
        BY <1>1, <2>1 DEF App
    <2>3. /\ b.at = "loop" /\ b.state = app.state /\ b.newState = "ELECTION_LEADER"
          /\ b.timeoutCounter = app.timeoutCounter /\ b.electionCounter = app.electionCounter
        BY <1>1 DEF App
    <2>4. app.at = "ended" /\ app' = b /\ sent' = sent
        BY <1>5 DEF becomeElectionLeader
    <2> HIDE DEF b
    <2> QED
        BY <1>1, <2>2, <2>3, <2>4, MeshStatisticsAssumption DEF IInv, Consistent, InSession, Sendable
<1> QED
    BY <1>2, <1>3, <1>4, <1>5 DEF leaderSession

LEMMA StepConsistent == IInv /\ [Next]_vars => IInv'
<1> SUFFICES ASSUME IInv, [Next]_vars
             PROVE  IInv'
    OBVIOUS
<1>1. CASE loop
    BY <1>1, loopConsistent
<1>2. CASE leaderSession
    BY <1>2, SessionConsistent
<1>3. CASE Arrives
    BY <1>3, ArrivesConsistent
<1>4. CASE UNCHANGED vars
    BY <1>4 DEF vars, IInv, Consistent, InSession, Sendable
<1> QED
    BY <1>1, <1>2, <1>3, <1>4 DEF Next, Run

LEMMA InvariantHolds == Spec => []IInv
<1>1. Init => IInv
    BY InitConsistent
<1>2. IInv /\ [Next]_vars => IInv'
    BY StepConsistent
<1> QED
    BY <1>1, <1>2, PTL DEF Spec
------------------------------------------------------------------------------
(* Whatever it hears, a stone sends only what the others are assumed to    *)
(* send: so the assumption about them holds when all run this microapp.    *)
THEOREM SendsOnlyAsHeard == Spec => []SendsAsHeard
<1>1. IInv => SendsAsHeard
    <2> SUFFICES ASSUME IInv
                 PROVE  SendsAsHeard
        OBVIOUS
    <2>1. app \in App /\ sent \in Sendable
        BY DEF IInv, Consistent
    <2>2. sent.stoneId = ownId
        BY <2>1 DEF Sendable, MessagesOf, NoMessage, Message
    <2> QED
        BY <2>1, <2>2 DEF SendsAsHeard, TypeOK, Sendable
<1> QED
    BY <1>1, InvariantHolds, PTL

(* No ping is counted twice, whatever the mesh repeats, delays or          *)
(* reorders, for any number of stones and pings.                           *)
THEOREM PingsCountedOnce == Spec => []CountedOnce
<1>1. IInv => CountedOnce
    BY DEF IInv, Consistent, CountedOnce
<1> QED
    BY <1>1, InvariantHolds, PTL
=============================================================================
