--------------------------- MODULE MeshStatistics ---------------------------
(***************************************************************************)
(* The mesh statistics microapp                                            *)
(* (examples/martijn_apps/mesh_statistics.ino), as it runs on several      *)
(* stones at once: one stone leads a session and sends pings, the others   *)
(* count them; then the leader elects the next one among the stones that   *)
(* apply, of which the one that led longest ago has the highest score.     *)
(*                                                                         *)
(* This is one of those stones.  It handles messages whenever its loop()   *)
(* waits: between two calls of it, in the delays of a session, and while   *)
(* it sends.  loop() goes on where it was.                                 *)
(*                                                                         *)
(* The mesh is external: it loses, repeats, delays and reorders messages,  *)
(* and any number of other stones lead, count or apply as they see fit.    *)
(* So a stone may get any message at any time that a stone may send, and   *)
(* SendsAsHeard says that this one sends no other.                         *)
(***************************************************************************)
EXTENDS Integers

CONSTANTS
    ownId,              \* the id of this stone
    Others,             \* the ids of the other stones
    PINGS_PER_SESSION,  \* 100 in the code
    ELECTION_TICKS,     \* 100 in the code
    TIMEOUT_TICKS,      \* 200 in the code
    UINT8,              \* 256: what the count of pings wraps at
    MaxSessions         \* bound of the model: sessions counted since the last leadership

ASSUME MeshStatisticsAssumption ==
    /\ Others \cup {ownId} \subseteq Nat \ {0}
    /\ ownId \notin Others
    /\ {PINGS_PER_SESSION, ELECTION_TICKS, MaxSessions, UINT8} \subseteq Nat \ {0}
    /\ TIMEOUT_TICKS \in Nat

Nobody == 0
Stones == Others \cup {ownId}

States == {"WAITING_FOR_SESSION_START", "SESSION_COUNTER", "SESSION_LEADER",
           "ELECTION_APPLICANT", "ELECTION_LEADER", "WAITING_FOR_LEADER_ACCEPTANCE"}

VARIABLES
    app,    \* the globals of the microapp, and where loop() is
    sent    \* the message the stone sent last

vars == <<app, sent>>

(* at: where loop() waits.  "loop": before the next call; "starting",      *)
(* "pinging", "ending": in the delays of leaderSession; "ended",           *)
(* "updated", "applied": in a send that something follows.                 *)
App ==
    [at : {"loop", "starting", "pinging", "ending", "ended", "updated", "applied"},
     state : States, newState : States,
     sessionsSinceLastLeadership : 0 .. MaxSessions,
     sessionPingsReceived : 0 .. UINT8 - 1,
     sessionPingsSent : 0 .. PINGS_PER_SESSION + 1,
     sessionLeader : Stones \cup {Nobody},
     completedSession : BOOLEAN, sendSessionResult : BOOLEAN,
     sendElectionUpdate : BOOLEAN, sendApplication : BOOLEAN,
     electionCounter : 0 .. ELECTION_TICKS + 1,
     currentBestCandidate : Others \cup {Nobody},
     currentBestCandidateScore : 0 .. MaxSessions,
     timeoutCounter : 0 .. TIMEOUT_TICKS + 2]

(* What stones send.  value: the ping's number, the number of pings, a     *)
(* score or a stone.  A leader that hears of another session start after   *)
(* its last ping says that it sent none.                                   *)
Message(type, s, value) == [type |-> type, stoneId |-> s, value |-> value]

MessagesOf(s) ==
    {Message("SESSION_START", s, Nobody)}
        \cup {Message("SESSION_PING", s, n) : n \in 1 .. PINGS_PER_SESSION}
        \cup {Message("SESSION_END_ELECTION_START", s, n) : n \in {0, PINGS_PER_SESSION + 1}}
        \cup {Message(type, s, score) : type \in {"ELECTION_APPLICATION", "ELECTION_UPDATE"},
                                       score \in 0 .. MaxSessions}
        \cup {Message("ELECTION_RESULT", s, t) : t \in Stones \ {s}}

NoMessage == Message("none", ownId, Nobody)

setup ==
    [at |-> "loop", state |-> "WAITING_FOR_SESSION_START",
     newState |-> "WAITING_FOR_SESSION_START",
     sessionsSinceLastLeadership |-> 1, sessionPingsReceived |-> 0, sessionPingsSent |-> 0,
     sessionLeader |-> Nobody, completedSession |-> FALSE, sendSessionResult |-> FALSE,
     sendElectionUpdate |-> FALSE, sendApplication |-> FALSE, electionCounter |-> 0,
     currentBestCandidate |-> Nobody, currentBestCandidateScore |-> 0, timeoutCounter |-> 0]

Init == app = setup /\ sent = NoMessage

Send(type, value) == sent' = Message(type, ownId, value)

------------------------------------------------------------------------------
(* onMeshMessage, by type: what a stone with the globals a makes of m.     *)

OnSessionStart(a, m) ==
    [a EXCEPT
        !.newState = "SESSION_COUNTER", !.timeoutCounter = 0, !.sessionLeader = m.stoneId,
        !.sessionPingsReceived = 0, !.sessionPingsSent = 0, !.electionCounter = 0,
        !.currentBestCandidate = Nobody, !.currentBestCandidateScore = 0,
        !.completedSession = FALSE, !.sendSessionResult = FALSE,
        !.sendElectionUpdate = FALSE, !.sendApplication = FALSE]

FromLeader(a, m) == a.state = "SESSION_COUNTER" /\ m.stoneId = a.sessionLeader

(* Mutant: a ping that came before counts again.                           *)
OnPingRepeated(a, m) ==
    IF FromLeader(a, m) /\ m.value >= a.sessionPingsSent
    THEN [a EXCEPT !.timeoutCounter = 0, !.sessionPingsReceived = (@ + 1) % UINT8,
                   !.sessionPingsSent = m.value]
    ELSE [a EXCEPT !.timeoutCounter = 0]

OnPing(a, m) ==
    IF FromLeader(a, m) /\ m.value > a.sessionPingsSent
    THEN [a EXCEPT !.timeoutCounter = 0, !.sessionPingsReceived = (@ + 1) % UINT8,
                   !.sessionPingsSent = m.value]
    ELSE [a EXCEPT !.timeoutCounter = 0]

OnSessionEnd(a, m) ==
    [a EXCEPT
        !.newState = "ELECTION_APPLICANT", !.timeoutCounter = 0,
        !.sessionPingsSent = IF FromLeader(a, m) THEN m.value ELSE @,
        !.completedSession = @ \/ FromLeader(a, m),
        !.sendSessionResult = @ \/ FromLeader(a, m),
        !.sendApplication = TRUE]

OnApplication(a, m) ==
    IF a.state # "ELECTION_LEADER" THEN a
    ELSE [a EXCEPT !.sendElectionUpdate = TRUE,
                   !.currentBestCandidate =
                      IF m.value > a.currentBestCandidateScore THEN m.stoneId ELSE @,
                   !.currentBestCandidateScore = IF m.value > @ THEN m.value ELSE @]

OnUpdate(a, m) ==
    [a EXCEPT !.sendApplication = @ /\ m.value < a.sessionsSinceLastLeadership]

OnResult(a, m) ==
    IF m.value = ownId
    THEN [a EXCEPT
            !.newState = "SESSION_LEADER", !.timeoutCounter = 0, !.sessionsSinceLastLeadership = 0, !.sessionLeader = ownId]
    ELSE [a EXCEPT
            !.newState = IF m.value = a.sessionLeader THEN @ ELSE "WAITING_FOR_SESSION_START",
            !.timeoutCounter = 0, !.sessionLeader = m.value,
            !.sessionsSinceLastLeadership =
                IF a.completedSession /\ @ < MaxSessions THEN @ + 1 ELSE @,
            !.completedSession = FALSE]

onMeshMessage(m) ==
    /\ \/ m.type = "SESSION_START"              /\ app' = OnSessionStart(app, m)
       \/ m.type = "SESSION_PING"               /\ app' = OnPing(app, m)
       \/ m.type = "SESSION_END_ELECTION_START" /\ app' = OnSessionEnd(app, m)
       \/ m.type = "ELECTION_APPLICATION"       /\ app' = OnApplication(app, m)
       \/ m.type = "ELECTION_UPDATE"            /\ app' = OnUpdate(app, m)
       \/ m.type = "ELECTION_RESULT"            /\ app' = OnResult(app, m)
    /\ UNCHANGED sent

------------------------------------------------------------------------------
(* loop().                                                                 *)

(* The globals after the first lines of loop().                            *)
(* Mutant: the time is only counted when the stone waits for a session.    *)
NextStateWaiting(a) ==
    LET newState == IF a.timeoutCounter > TIMEOUT_TICKS THEN "SESSION_LEADER" ELSE a.newState IN
    [a EXCEPT !.timeoutCounter = IF a.state = "WAITING_FOR_SESSION_START" THEN @ + 1 ELSE @,
              !.newState = newState, !.state = newState]

NextState(a) ==
    LET newState == IF a.timeoutCounter > TIMEOUT_TICKS THEN "SESSION_LEADER" ELSE a.newState IN
    [a EXCEPT !.timeoutCounter = @ + 1, !.newState = newState, !.state = newState]

beginSession(a) ==
    /\ a.state = "SESSION_LEADER"
    /\ app' = [a EXCEPT !.sessionPingsReceived = 0, !.sessionPingsSent = 0,
                        !.electionCounter = 0, !.timeoutCounter = 0, !.at = "starting"]
    /\ UNCHANGED sent

sendLeadershipApplication(a) ==
    /\ a.state = "ELECTION_APPLICANT"
    /\ a.sendApplication
    /\ app' = [a EXCEPT !.at = "applied"]
    /\ Send("ELECTION_APPLICATION", a.sessionsSinceLastLeadership)

(* The result goes to the hub, which knows how many pings were sent.       *)
sendSessionResult(a) ==
    /\ a.state = "ELECTION_APPLICANT"
    /\ app' = [a EXCEPT !.sendSessionResult = FALSE, !.at = "loop"]
    /\ IF a.sendSessionResult THEN Send("SESSION_RESULT", a.sessionPingsReceived)
       ELSE UNCHANGED sent

(* One tick of the election.  Mutant: the leader announces also when       *)
(* nobody applied.                                                         *)
ElectAnyway(a) ==
    [a EXCEPT !.at = "loop", !.electionCounter = @ + 1,
              !.newState = IF a.electionCounter < ELECTION_TICKS THEN @
                           ELSE "WAITING_FOR_LEADER_ACCEPTANCE"]

Elect(a) ==
    [a EXCEPT !.at = "loop", !.electionCounter = @ + 1,
              !.newState = IF a.electionCounter < ELECTION_TICKS THEN @
                           ELSE IF a.currentBestCandidate = Nobody THEN "SESSION_LEADER"
                           ELSE "WAITING_FOR_LEADER_ACCEPTANCE"]

sendElectionUpdate(a) ==
    /\ a.state = "ELECTION_LEADER"
    /\ IF a.sendElectionUpdate
       THEN app' = [a EXCEPT !.at = "updated"] /\ Send("ELECTION_UPDATE", a.currentBestCandidateScore)
       ELSE app' = Elect(a) /\ UNCHANGED sent

sendElectionResult(a) ==
    /\ a.state = "WAITING_FOR_LEADER_ACCEPTANCE"
    /\ app' = a
    /\ Send("ELECTION_RESULT", a.currentBestCandidate)

waitOrCount(a) ==
    /\ a.state \in {"WAITING_FOR_SESSION_START", "SESSION_COUNTER"}
    /\ app' = a
    /\ UNCHANGED sent

loop ==
    \/ /\ app.at = "loop"
       /\ LET a == NextState(app) IN
          \/ beginSession(a)
          \/ sendLeadershipApplication(a)
          \/ ~a.sendApplication /\ sendSessionResult(a)
          \/ sendElectionUpdate(a)
          \/ sendElectionResult(a)
          \/ waitOrCount(a)
    \/ app.at = "applied" /\ sendSessionResult(app)
    \/ /\ app.at = "updated"
       /\ app' = Elect([app EXCEPT !.sendElectionUpdate = FALSE])
       /\ UNCHANGED sent

(* leaderSession, in its delays.                                           *)

sendSessionStart ==
    /\ app.at = "starting"
    /\ app' = [app EXCEPT !.at = "pinging"]
    /\ Send("SESSION_START", Nobody)

(* The last count finds that all pings are sent.                           *)
sendPing ==
    /\ app.at = "pinging"
    /\ LET n == app.sessionPingsSent + 1 IN
       \/ /\ n <= PINGS_PER_SESSION
          /\ app' = [app EXCEPT !.sessionPingsSent = n]
          /\ Send("SESSION_PING", n)
       \/ /\ n > PINGS_PER_SESSION
          /\ app' = [app EXCEPT !.sessionPingsSent = n, !.at = "ending"]
          /\ UNCHANGED sent

sendSessionEndElectionStart ==
    /\ app.at = "ending"
    /\ app' = [app EXCEPT !.at = "ended"]
    /\ Send("SESSION_END_ELECTION_START", app.sessionPingsSent)

(* What a message told the leader meanwhile, it forgets.                   *)
becomeElectionLeader ==
    /\ app.at = "ended"
    /\ app' = [app EXCEPT !.at = "loop", !.sessionsSinceLastLeadership = 1,
                          !.newState = "ELECTION_LEADER"]
    /\ UNCHANGED sent

leaderSession ==
    sendSessionStart \/ sendPing \/ sendSessionEndElectionStart \/ becomeElectionLeader

------------------------------------------------------------------------------
Run == loop \/ leaderSession

Heard == UNION {MessagesOf(s) : s \in Others}

Arrives == \E m \in Heard : onMeshMessage(m)

Next == Run \/ Arrives

Spec == Init /\ [][Next]_vars

(* Bluenet calls loop() again and again; nothing has to arrive.            *)
FairSpec == Spec /\ WF_vars(Run)
------------------------------------------------------------------------------
(* Properties.                                                             *)

TypeOK ==
    /\ app \in App
    /\ sent.stoneId = ownId

(* What other stones are assumed to send is what this one sends, whatever  *)
(* comes in while it leads: pings up to the number there are, the number   *)
(* sent at the end of a session (the code says one more, or none), and as  *)
(* the result of an election another stone, never itself or nobody,        *)
(* although a session start that comes in during the election takes its    *)
(* candidate away (leaderSession, loop, onMeshMessage).                    *)
SendsAsHeard ==
    /\ TypeOK
    /\ sent \in {NoMessage} \cup MessagesOf(ownId)
           \cup {Message("SESSION_RESULT", ownId, n) : n \in 0 .. UINT8 - 1}

(* While a stone counts a session, it has not counted more pings than the  *)
(* leader sent, whatever the mesh repeats, delays or reorders and whoever  *)
(* else leads (onMeshMessage, SESSION_PING).                               *)
CountedOnce ==
    app.newState = "SESSION_COUNTER" => app.sessionPingsReceived <= app.sessionPingsSent

(* "if we don't get a directive mesh message for this application, let's   *)
(* force ourselves to be session leader" (loop): a stone that only gets    *)
(* applications and updates any more leads a session again and again.      *)
Directed ==
    \E m \in Heard :
        /\ m.type \notin {"ELECTION_APPLICATION", "ELECTION_UPDATE"}
        /\ onMeshMessage(m)

SilenceMakesLeader ==
    <>[][~Directed]_vars => []<>(app.state = "SESSION_LEADER")

(* "listen to session starts in any state" and "regardless of state, new   *)
(* state will be election applicant" (onMeshMessage): what a message told  *)
(* the stone to be next, while loop() waited, is what it is next.          *)
GoesWhereTold ==
    [][Run /\ app.at # "loop" /\ app.newState # app.state => app'.newState = app.newState]_vars
=============================================================================
