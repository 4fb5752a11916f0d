----------------------------- MODULE BleAsyncProofs -----------------------------
(***************************************************************************)
(* Proofs about BleAsync, for any timeouts, any width of the number of     *)
(* tries and any nesting of handlers.                                      *)
(***************************************************************************)
EXTENDS BleAsync, TLAPS

(* Only a request in progress is waited for, and only connect and          *)
(* discoverService wait before theirs.                                     *)
PollsRequest(c) ==
    /\ c.polling => c.ack = "IN_PROGRESS" /\ c.op # "delay"
    /\ c.ack = None => c.op \in {"connect", "discoverService", "delay"}
    /\ c.op = "delay" => c.ack = None

(* The calls that _value and bluenet refer to are of the kind they are     *)
(* taken for, and what waits on top of the first call is of a handler.     *)
Placed ==
    /\ TypeOK
    /\ bluenet.owner # 0 => /\ calls[bluenet.owner].op = bluenet.busy
                           /\ calls[bluenet.owner].ack = "IN_PROGRESS"
    /\ reader > 0 => calls[reader].op = "readValue"
    /\ \A i \in DOMAIN calls : PollsRequest(calls[i])
    /\ \A i \in DOMAIN calls : i > 1 => calls[i].op \in HandlerOps \cup {"delay"}

------------------------------------------------------------------------------
(* Sequences.                                                              *)

LEMMA AppendTo ==
    ASSUME NEW T, NEW s \in Seq(T), NEW e \in T
    PROVE  /\ Append(s, e) \in Seq(T)
           /\ Len(Append(s, e)) = Len(s) + 1
           /\ \A i \in 1 .. Len(s) : Append(s, e)[i] = s[i]
           /\ Append(s, e)[Len(s) + 1] = e
OBVIOUS

LEMMA FrontOf ==
    ASSUME NEW T, NEW s \in Seq(T), s # <<>>
    PROVE  /\ Len(s) \in Nat \ {0}
           /\ s[Len(s)] \in T
           /\ SubSeq(s, 1, Len(s) - 1) \in Seq(T)
           /\ Len(SubSeq(s, 1, Len(s) - 1)) = Len(s) - 1
           /\ \A i \in 1 .. Len(s) - 1 : SubSeq(s, 1, Len(s) - 1)[i] = s[i]
OBVIOUS

LEMMA ReplaceIn ==
    ASSUME NEW T, NEW s \in Seq(T), NEW k \in 1 .. Len(s), NEW e \in T
    PROVE  /\ [s EXCEPT ![k] = e] \in Seq(T)
           /\ Len([s EXCEPT ![k] = e]) = Len(s)
           /\ \A i \in 1 .. Len(s) : i # k => [s EXCEPT ![k] = e][i] = s[i]
           /\ [s EXCEPT ![k] = e][k] = e
OBVIOUS

------------------------------------------------------------------------------
(* What the steps do to the calls that wait.                               *)

Added(c) ==
    /\ c \in Call
    /\ calls' \in Seq(Call)
    /\ Len(calls') = Len(calls) + 1
    /\ \A i \in 1 .. Len(calls) : calls'[i] = calls[i]
    /\ calls'[Len(calls) + 1] = c

Removed ==
    /\ Len(calls) \in Nat \ {0}
    /\ Innermost \in Call
    /\ calls' \in Seq(Call)
    /\ Len(calls') = Len(calls) - 1
    /\ \A i \in 1 .. Len(calls) - 1 : calls'[i] = calls[i]

Replaced(k, c) ==
    /\ k \in 1 .. Len(calls)
    /\ calls[k] \in Call
    /\ c \in Call
    /\ calls' \in Seq(Call)
    /\ Len(calls') = Len(calls)
    /\ \A i \in 1 .. Len(calls) : i # k => calls'[i] = calls[i]
    /\ calls'[k] = c

(* The call c at place k, whose request bluenet just answered.             *)
AnswerIs(op, c, k) ==
    /\ c.op = op /\ c.waited = 0 /\ c.told = -1 /\ ~c.polling
    /\ c.ack \in {"SUCCESS", "IN_PROGRESS", "ERROR"}
    /\ c.ack = "SUCCESS" => c.outcome = "done"
    /\ c.ack # "IN_PROGRESS" => bluenet' = bluenet
    /\ c.ack = "IN_PROGRESS" =>
          /\ c.outcome = None
          /\ bluenet.busy = None
          /\ bluenet.connected = (op # "connect")
          /\ bluenet' = [connected |-> bluenet.connected, busy |-> op, owner |-> k]

LEMMA SendIs ==
    ASSUME TypeOK, NEW op \in Ops, NEW timeout \in Timeouts \cup {0}, NEW below \in Seq(Call),
           Send(op, timeout, below)
    PROVE  \E c \in Call : /\ calls' = Append(below, c)
                          /\ c.timeout = timeout
                          /\ AnswerIs(op, c, Len(below) + 1)
<1>1. PICK ack \in {"SUCCESS", "IN_PROGRESS", "ERROR"} :
          /\ Answered(op, ack, Len(below) + 1)
          /\ calls' = Append(below,
                [op |-> op, ack |-> ack, timeout |-> timeout, waited |-> 0, polling |-> FALSE,
                 outcome |-> CASE ack = "SUCCESS" -> "done" [] ack = "ERROR" -> "failed"
                               [] OTHER -> None,
                 told |-> -1])
    BY DEF Send
<1> DEFINE outcome == CASE ack = "SUCCESS" -> "done" [] ack = "ERROR" -> "failed" [] OTHER -> None
           c == [op |-> op, ack |-> ack, timeout |-> timeout, waited |-> 0, polling |-> FALSE,
                 outcome |-> outcome, told |-> -1]
<1>2. /\ outcome \in {None, "done", "failed"}
      /\ ack = "SUCCESS" => outcome = "done"
      /\ ack = "IN_PROGRESS" => outcome = None
    BY DEF None
<1>3. c \in Call
    <2> HIDE DEF outcome
    <2> QED
        BY <1>2, TimeoutsAssumption DEF Call
<1>4. /\ c.op = op /\ c.waited = 0 /\ c.told = -1 /\ ~c.polling /\ c.timeout = timeout
      /\ c.ack = ack /\ c.outcome = outcome
    OBVIOUS
<1>5. calls' = Append(below, c)
    BY <1>1
<1> HIDE DEF outcome, c
<1>6. ack = "IN_PROGRESS" =>
          /\ bluenet.busy = None
          /\ bluenet.connected = (op # "connect")
          /\ bluenet' = [connected |-> bluenet.connected, busy |-> op, owner |-> Len(below) + 1]
    BY <1>1 DEF Answered, TypeOK
<1>7. ack # "IN_PROGRESS" => bluenet' = bluenet
    BY <1>1 DEF Answered
<1>8. AnswerIs(op, c, Len(below) + 1)
    BY <1>2, <1>4, <1>6, <1>7 DEF AnswerIs
<1> QED
    BY <1>3, <1>4, <1>5, <1>8

(* A new call, and what bluenet answered to its request.                   *)
Requested(op, c) ==
    /\ Added(c)
    /\ c.timeout \in Timeouts
    /\ AnswerIs(op, c, Len(calls) + 1)

LEMMA RequestIs ==
    ASSUME TypeOK, NEW op \in Ops, Request(op)
    PROVE  /\ \E c : Requested(op, c)
           /\ calls = <<>> \/ op \in HandlerOps
           /\ asyncResult' = [asyncResult EXCEPT ![Object(op)] = "Waiting"]
           /\ running' = FALSE
           /\ returned' = NothingReturned
           /\ UNCHANGED <<device, listed, misread>>
<1>1. PICK timeout \in Timeouts : Send(op, timeout, calls)
    BY DEF Request
<1>2. PICK c \in Call : /\ calls' = Append(calls, c)
                       /\ c.timeout = timeout
                       /\ AnswerIs(op, c, Len(calls) + 1)
    BY <1>1, SendIs DEF TypeOK
<1>3. Added(c)
    BY <1>2, AppendTo DEF TypeOK, Added
<1> QED
    BY <1>1, <1>2, <1>3 DEF Requested, Request, MayCall, Send

(* A call that waits before or without a request.                          *)
WaitsFirst(op, c) ==
    /\ Added(c)
    /\ c.op = op /\ c.ack = None /\ c.waited = 0 /\ c.told = -1 /\ ~c.polling
    /\ c.outcome = None
    /\ op # "delay" => c.timeout \in Timeouts
    /\ running' = FALSE
    /\ returned' = NothingReturned
    /\ UNCHANGED <<asyncResult, device, listed, reader, bluenet, misread>>

LEMMA WaitIs ==
    ASSUME TypeOK, NEW op \in Ops \cup {"delay"}, NEW timeout \in Timeouts \cup {0},
           op # "delay" => timeout \in Timeouts, WaitFirst(op, timeout)
    PROVE  \E c : WaitsFirst(op, c)
<1> DEFINE c == [op |-> op, ack |-> None, timeout |-> timeout, waited |-> 0, polling |-> FALSE,
                 outcome |-> None, told |-> -1]
<1>1. c \in Call /\ calls' = Append(calls, c)
    BY DEF WaitFirst, Call
<1>2. /\ c.op = op /\ c.ack = None /\ c.waited = 0 /\ c.told = -1 /\ ~c.polling
      /\ c.outcome = None /\ c.timeout = timeout
    OBVIOUS
<1> HIDE DEF c
<1>3. Added(c)
    BY <1>1, AppendTo DEF TypeOK, Added
<1> QED
    BY <1>2, <1>3 DEF WaitsFirst, WaitFirst

(* The request of the innermost call is sent after it waited.              *)
SentLate(c) ==
    /\ Replaced(Len(calls), c)
    /\ c.timeout = Innermost.timeout
    /\ AnswerIs(Innermost.op, c, Len(calls))

LEMMA SentLateIs ==
    ASSUME TypeOK, calls # <<>>, Innermost.op \in Ops,
           Send(Innermost.op, Innermost.timeout, Outer)
    PROVE  \E c : SentLate(c)
<1>1. /\ Len(calls) \in Nat \ {0} /\ Innermost \in Call
      /\ Outer \in Seq(Call) /\ Len(Outer) = Len(calls) - 1
      /\ \A i \in 1 .. Len(calls) - 1 : Outer[i] = calls[i]
    BY FrontOf DEF TypeOK, Innermost, Outer
<1>2. Innermost.timeout \in Timeouts \cup {0}
    BY <1>1 DEF Call
<1>3. PICK c \in Call : /\ calls' = Append(Outer, c)
                       /\ c.timeout = Innermost.timeout
                       /\ AnswerIs(Innermost.op, c, Len(Outer) + 1)
    BY <1>1, <1>2, SendIs
<1>4. /\ Append(Outer, c) \in Seq(Call)
      /\ Len(Append(Outer, c)) = Len(calls)
      /\ \A i \in 1 .. Len(calls) - 1 : Append(Outer, c)[i] = calls[i]
      /\ Append(Outer, c)[Len(calls)] = c
    BY <1>1, AppendTo
<1>5. Replaced(Len(calls), c)
    BY <1>1, <1>3, <1>4 DEF Replaced, Innermost
<1>6. Len(Outer) + 1 = Len(calls)
    BY <1>1
<1> QED
    BY <1>3, <1>5, <1>6 DEF SentLate

(* The innermost call returns.                                             *)
Returned(answer) ==
    /\ Removed
    /\ returned' = [call |-> Innermost, answer |-> answer]
    /\ bluenet' = [connected |-> bluenet.connected, busy |-> bluenet.busy,
                   owner |-> IF bluenet.owner = Len(calls) THEN 0 ELSE bluenet.owner]
    /\ reader' = IF reader = Len(calls) THEN NoReader ELSE reader

LEMMA ReturnIs ==
    ASSUME TypeOK, calls # <<>>, NEW answer, Return(answer)
    PROVE  Returned(answer)
<1>1. Removed
    BY FrontOf DEF TypeOK, Return, Removed, Outer, Innermost
<1> QED
    BY <1>1 DEF TypeOK, Return, Returned

(* The innermost call goes on waiting for its result.                      *)
GoesOn(waited) ==
    \E c : /\ Replaced(Len(calls), c)
           /\ c.op = Innermost.op /\ c.ack = Innermost.ack /\ c.timeout = Innermost.timeout
           /\ c.outcome = Innermost.outcome /\ c.told = Innermost.told
           /\ c.waited = waited /\ c.polling

LEMMA PollIs ==
    ASSUME TypeOK, calls # <<>>, NEW waited \in Nat, Poll(waited)
    PROVE  LET o == Object(Innermost.op) IN
           \/ /\ asyncResult[o] = "Waiting"
              /\ GoesOn(waited)
              /\ UNCHANGED <<running, asyncResult, reader, bluenet, returned>>
           \/ /\ asyncResult[o] # "Waiting"
              /\ asyncResult' = [asyncResult EXCEPT ![o] = "NotWaiting"]
              /\ running' = TRUE
              /\ asyncResult[o] = "Failure" => Returned("false")
              /\ asyncResult[o] # "Failure" => Returned("true")
<1> DEFINE o == Object(Innermost.op)
<1>1. CASE asyncResult[o] = "Waiting"
    <2> DEFINE c == [Innermost EXCEPT !.polling = TRUE, !.waited = waited]
    <2>1. Len(calls) \in 1 .. Len(calls) /\ Innermost \in Call
        BY FrontOf DEF TypeOK, Innermost
    <2>2. /\ c \in Call
          /\ c.op = Innermost.op /\ c.ack = Innermost.ack /\ c.timeout = Innermost.timeout
          /\ c.outcome = Innermost.outcome /\ c.told = Innermost.told
          /\ c.waited = waited /\ c.polling
        BY <2>1 DEF Call
    <2>3. calls' = [calls EXCEPT ![Len(calls)] = c]
        BY <1>1 DEF Poll, Innermost
    <2> HIDE DEF c
    <2>4. Replaced(Len(calls), c)
        BY <2>1, <2>2, <2>3, ReplaceIn DEF TypeOK, Replaced, Innermost
    <2> QED
        BY <1>1, <2>2, <2>4 DEF Poll, GoesOn
<1>2. CASE asyncResult[o] # "Waiting"
    BY <1>2, ReturnIs DEF Poll, Return
<1> QED
    BY <1>1, <1>2

(* The operation in progress ends: its call, if there is one, hears of it. *)
Ended(outcome, link, delivered) ==
    /\ bluenet' = [connected |-> link, busy |-> None, owner |-> 0]
    /\ bluenet.owner = 0 => calls' = calls
    /\ bluenet.owner # 0 =>
          LET k == bluenet.owner IN
          \E c : /\ Replaced(k, c)
                 /\ c.op = calls[k].op /\ c.ack = calls[k].ack /\ c.timeout = calls[k].timeout
                 /\ c.waited = calls[k].waited /\ c.polling = calls[k].polling
                 /\ c.outcome = outcome
                 /\ c.told = IF delivered THEN c.waited ELSE -1

LEMMA EndsIs ==
    ASSUME TypeOK, NEW outcome \in {"done", "failed"}, NEW link \in BOOLEAN,
           NEW delivered \in BOOLEAN, Ends(outcome, link, delivered)
    PROVE  Ended(outcome, link, delivered)
<1>1. CASE bluenet.owner = 0
    BY <1>1 DEF Ends, Ended
<1>2. CASE bluenet.owner # 0
    <2> DEFINE k == bluenet.owner
               c == [calls[k] EXCEPT !.outcome = outcome,
                                     !.told = IF delivered THEN calls[k].waited ELSE -1]
    <2>1. k \in 1 .. Len(calls) /\ calls[k] \in Call
        BY <1>2 DEF TypeOK
    <2>2. /\ c \in Call
          /\ c.op = calls[k].op /\ c.ack = calls[k].ack /\ c.timeout = calls[k].timeout
          /\ c.waited = calls[k].waited /\ c.polling = calls[k].polling
          /\ c.outcome = outcome
          /\ c.told = IF delivered THEN c.waited ELSE -1
        BY <2>1 DEF Call
    <2>3. calls' = [calls EXCEPT ![k] = c]
        BY <1>2 DEF Ends
    <2> HIDE DEF c
    <2>4. Replaced(k, c)
        BY <2>1, <2>2, <2>3, ReplaceIn DEF TypeOK, Replaced
    <2> QED
        BY <1>2, <2>2, <2>4 DEF Ends, Ended
<1> QED
    BY <1>1, <1>2

------------------------------------------------------------------------------
(* Types, and the calls that are referred to.                              *)

LEMMA OperationIs ==
    ASSUME TypeOK, Operation
    PROVE  \/ \E op \in Ops : /\ Request(op)
                              /\ op = "readValue" => reader' = Len(calls) + 1
                              /\ op # "readValue" => reader' = reader
           \/ \E op \in {"connect", "discoverService"} : \E c :
                 WaitsFirst(op, c) /\ (calls = <<>> \/ op \in HandlerOps)
<1>1. ASSUME NEW op \in {"connect", "discoverService"}, Prepare(op)
      PROVE  \E c : WaitsFirst(op, c) /\ (calls = <<>> \/ op \in HandlerOps)
    BY <1>1, WaitIs DEF Prepare, MayCall, Ops, DeviceOps
<1>2. CASE connect \/ discoverService
    BY <1>1, <1>2 DEF connect, discoverService, Ops, DeviceOps
<1>3. CASE disconnect \/ writeValue \/ readValue \/ subscribe \/ unsubscribe
    BY <1>3 DEF disconnect, writeValue, readValue, subscribe, unsubscribe, Ops, DeviceOps,
                CharacteristicOps
<1> QED
    BY <1>2, <1>3 DEF Operation

LEMMA WaitPlaced ==
    ASSUME Placed, NEW op \in {"connect", "discoverService", "delay"}, NEW c, WaitsFirst(op, c),
           calls = <<>> \/ op \in HandlerOps \cup {"delay"}
    PROVE  Placed'
<1>1. TypeOK
    BY DEF Placed
<1>2. /\ calls' \in Seq(Call) /\ c \in Call
      /\ Len(calls) \in Nat /\ Len(calls') = Len(calls) + 1
      /\ \A i \in 1 .. Len(calls) : calls'[i] = calls[i]
      /\ calls'[Len(calls) + 1] = c
      /\ c.op = op /\ ~c.polling /\ c.ack = None
    BY <1>1 DEF WaitsFirst, Added, TypeOK
<1>3. /\ running' = FALSE /\ returned' = NothingReturned
      /\ UNCHANGED <<asyncResult, device, listed, reader, bluenet, misread>>
    BY DEF WaitsFirst
<1>4. TypeOK'
    <2>1. bluenet' \in [connected : BOOLEAN, busy : Ops \cup {None}, owner : 0 .. Len(calls')]
        <3>1. bluenet.owner \in 0 .. Len(calls')
            BY <1>1, <1>2 DEF TypeOK
        <3> QED
            BY <1>1, <1>3, <3>1 DEF TypeOK
    <2>2. reader' \in {NoReader} \cup 0 .. Len(calls')
        BY <1>1, <1>2, <1>3 DEF TypeOK
    <2> QED
        BY <1>1, <1>2, <1>3, <2>1, <2>2 DEF TypeOK, device
<1>5. \A i \in DOMAIN calls' : PollsRequest(calls'[i])
    BY <1>2 DEF Placed, PollsRequest
<1>6. bluenet'.owner # 0 => /\ calls'[bluenet'.owner].op = bluenet'.busy
                            /\ calls'[bluenet'.owner].ack = "IN_PROGRESS"
    BY <1>1, <1>2, <1>3 DEF Placed, TypeOK
<1>7. reader' > 0 => calls'[reader'].op = "readValue"
    BY <1>1, <1>2, <1>3 DEF Placed, TypeOK, NoReader
<1>8. \A i \in DOMAIN calls' : i > 1 => calls'[i].op \in HandlerOps \cup {"delay"}
    <2>1. calls = <<>> => Len(calls) = 0
        OBVIOUS
    <2> QED
        BY <1>2, <2>1 DEF Placed
<1> QED
    BY <1>4, <1>5, <1>6, <1>7, <1>8 DEF Placed

LEMMA RequestPlaced ==
    ASSUME Placed, NEW op \in Ops, Request(op),
           op = "readValue" => reader' = Len(calls) + 1,
           op # "readValue" => reader' = reader
    PROVE  Placed'
<1>1. TypeOK
    BY DEF Placed
<1>2. PICK c : Requested(op, c)
    BY <1>1, RequestIs
<1>3. /\ running' = FALSE /\ returned' = NothingReturned /\ UNCHANGED <<device, listed, misread>>
      /\ calls = <<>> \/ op \in HandlerOps
      /\ asyncResult' = [asyncResult EXCEPT ![Object(op)] = "Waiting"]
    BY <1>1, RequestIs
<1>4. /\ c \in Call /\ c.op = op /\ ~c.polling
      /\ bluenet' # bluenet => c.ack = "IN_PROGRESS"
      /\ c.ack # None /\ c.op # "delay"
      /\ calls' \in Seq(Call)
      /\ Len(calls) \in Nat /\ Len(calls') = Len(calls) + 1
      /\ \A i \in 1 .. Len(calls) : calls'[i] = calls[i]
      /\ calls'[Len(calls) + 1] = c
    BY <1>1, <1>2
       DEF Requested, AnswerIs, Added, TypeOK, None, Ops, DeviceOps, CharacteristicOps
<1>5. \/ bluenet' = bluenet
      \/ bluenet' = [connected |-> bluenet.connected, busy |-> op, owner |-> Len(calls) + 1]
    BY <1>2 DEF Requested, AnswerIs
<1>6. bluenet' \in [connected : BOOLEAN, busy : Ops \cup {None}, owner : 0 .. Len(calls')]
    <2>1. bluenet.connected \in BOOLEAN /\ bluenet.busy \in Ops \cup {None}
          /\ bluenet.owner \in 0 .. Len(calls') /\ Len(calls) + 1 \in 0 .. Len(calls')
        BY <1>1, <1>4 DEF TypeOK
    <2> QED
        BY <1>1, <1>5, <2>1 DEF TypeOK
<1>7. asyncResult' \in [{"device", "characteristic"} -> BleAsyncResults]
    BY <1>1, <1>3 DEF TypeOK, BleAsyncResults, Object
<1>8. TypeOK'
    <2>1. reader' \in {NoReader} \cup 0 .. Len(calls')
        BY <1>1, <1>4 DEF TypeOK, NoReader
    <2> QED
        BY <1>1, <1>3, <1>4, <1>6, <1>7, <2>1 DEF device, TypeOK
<1>9. bluenet'.owner # 0 => /\ calls'[bluenet'.owner].op = bluenet'.busy
                            /\ calls'[bluenet'.owner].ack = "IN_PROGRESS"
    BY <1>1, <1>4, <1>5 DEF Placed, TypeOK
<1>10. reader' > 0 => calls'[reader'].op = "readValue"
    BY <1>1, <1>4 DEF Placed, TypeOK, NoReader
<1>11. \A i \in DOMAIN calls' : PollsRequest(calls'[i])
    BY <1>4 DEF Placed, PollsRequest
<1>12. \A i \in DOMAIN calls' : i > 1 => calls'[i].op \in HandlerOps \cup {"delay"}
    <2>1. calls = <<>> => Len(calls) = 0
        OBVIOUS
    <2> QED
        BY <1>3, <1>4, <2>1 DEF Placed
<1> QED
    BY <1>8, <1>9, <1>10, <1>11, <1>12 DEF Placed

LEMMA OperationPlaced ==
    ASSUME Placed, Operation
    PROVE  Placed'
BY OperationIs, RequestPlaced, WaitPlaced DEF Placed

LEMMA ReturnPlaced ==
    ASSUME Placed, NEW answer \in Answers, Returned(answer), running' \in BOOLEAN,
           asyncResult' \in [{"device", "characteristic"} -> BleAsyncResults],
           UNCHANGED <<device, listed, misread>>
    PROVE  Placed'
<1>1. TypeOK
    BY DEF Placed
<1>2. /\ Len(calls) \in Nat \ {0} /\ Len(calls') = Len(calls) - 1
      /\ Innermost \in Call /\ calls' \in Seq(Call)
      /\ \A i \in 1 .. Len(calls) - 1 : calls'[i] = calls[i]
    BY DEF Returned, Removed
<1>3. /\ bluenet' \in [connected : BOOLEAN, busy : Ops \cup {None}, owner : 0 .. Len(calls')]
      /\ bluenet'.owner # 0 => bluenet'.owner = bluenet.owner /\ bluenet'.owner \in 1 .. Len(calls')
      /\ bluenet'.busy = bluenet.busy
    BY <1>1, <1>2 DEF Returned, TypeOK
<1>4. /\ reader' \in {NoReader} \cup 0 .. Len(calls')
      /\ reader' > 0 => reader' = reader /\ reader' \in 1 .. Len(calls')
    BY <1>1, <1>2 DEF Returned, TypeOK, NoReader
<1>5. returned' \in [call : Call, answer : Answers]
    BY <1>2 DEF Returned
<1>6. TypeOK'
    BY <1>1, <1>2, <1>3, <1>4, <1>5 DEF device, TypeOK
<1>7. /\ \A i \in DOMAIN calls' : PollsRequest(calls'[i])
      /\ \A i \in DOMAIN calls' : i > 1 => calls'[i].op \in HandlerOps \cup {"delay"}
    BY <1>2 DEF Placed
<1> QED
    BY <1>2, <1>3, <1>4, <1>6, <1>7 DEF Placed

LEMMA ReplacePlaced ==
    ASSUME Placed, NEW k, NEW c, Replaced(k, c), c.op = calls[k].op, c.ack = calls[k].ack,
           PollsRequest(c)
    PROVE  /\ calls' \in Seq(Call)
           /\ Len(calls') = Len(calls)
           /\ \A i \in 1 .. Len(calls) : calls'[i].op = calls[i].op /\ calls'[i].ack = calls[i].ack
           /\ \A i \in DOMAIN calls' : PollsRequest(calls'[i])
           /\ \A i \in DOMAIN calls' : i > 1 => calls'[i].op \in HandlerOps \cup {"delay"}
<1>1. /\ calls' \in Seq(Call) /\ Len(calls') = Len(calls)
      /\ \A i \in 1 .. Len(calls) : i # k => calls'[i] = calls[i]
      /\ calls'[k] = c
    BY DEF Replaced
<1>2. DOMAIN calls' = 1 .. Len(calls) /\ DOMAIN calls = 1 .. Len(calls)
    BY <1>1 DEF Placed, TypeOK
<1>3. ASSUME NEW i \in 1 .. Len(calls)
      PROVE  /\ calls'[i].op = calls[i].op /\ calls'[i].ack = calls[i].ack
             /\ PollsRequest(calls'[i])
             /\ i > 1 => calls'[i].op \in HandlerOps \cup {"delay"}
    BY <1>1, <1>2 DEF Placed
<1> QED
    BY <1>1, <1>2, <1>3

LEMMA PollPlaced ==
    ASSUME Placed, calls # <<>>, Innermost.ack = "IN_PROGRESS", Innermost.op # "delay",
           NEW waited \in Nat, Poll(waited), ~running, UNCHANGED <<device, listed, misread>>
    PROVE  Placed'
<1>1. TypeOK
    BY DEF Placed
<1> DEFINE o == Object(Innermost.op)
<1>2. CASE /\ GoesOn(waited)
           /\ UNCHANGED <<running, asyncResult, reader, bluenet, returned>>
    <2>1. PICK c : /\ Replaced(Len(calls), c)
                   /\ c.op = Innermost.op /\ c.ack = Innermost.ack
        BY <1>2 DEF GoesOn
    <2>2. /\ calls' \in Seq(Call)
          /\ Len(calls) \in Nat /\ Len(calls') = Len(calls)
          /\ \A i \in 1 .. Len(calls) : calls'[i].op = calls[i].op /\ calls'[i].ack = calls[i].ack
          /\ \A i \in DOMAIN calls' : PollsRequest(calls'[i])
          /\ \A i \in DOMAIN calls' : i > 1 => calls'[i].op \in HandlerOps \cup {"delay"}
        BY <1>1, <2>1, ReplacePlaced DEF Innermost, TypeOK, PollsRequest, None
    <2>3. TypeOK'
        BY <1>1, <1>2, <2>2 DEF device, TypeOK
    <2> QED
        BY <1>1, <1>2, <2>2, <2>3 DEF Placed, TypeOK, NoReader
<1>3. CASE /\ asyncResult' = [asyncResult EXCEPT ![o] = "NotWaiting"]
           /\ running' = TRUE
           /\ Returned("false") \/ Returned("true")
    <2>1. asyncResult' \in [{"device", "characteristic"} -> BleAsyncResults]
        BY <1>1, <1>3 DEF TypeOK, BleAsyncResults
    <2> QED
        BY <1>3, <2>1, ReturnPlaced DEF Answers
<1> QED
    BY <1>1, <1>2, <1>3, PollIs

LEMMA SentLatePlaced ==
    ASSUME Placed, calls # <<>>, Innermost.ack = None, Innermost.op \in {"connect", "discoverService"},
           Send(Innermost.op, Innermost.timeout, Outer), UNCHANGED reader
    PROVE  Placed'
<1>1. TypeOK
    BY DEF Placed
<1>2. Innermost.op \in Ops
    BY DEF Ops, DeviceOps
<1>3. PICK c : SentLate(c)
    BY <1>1, <1>2, SentLateIs
<1>4. /\ calls' \in Seq(Call) /\ c \in Call
      /\ Len(calls) \in Nat \ {0} /\ Len(calls') = Len(calls)
      /\ \A i \in 1 .. Len(calls) : i # Len(calls) => calls'[i] = calls[i]
      /\ calls'[Len(calls)] = c /\ c.op = Innermost.op /\ ~c.polling /\ c.ack # None
    BY <1>1, <1>3 DEF SentLate, Replaced, AnswerIs, TypeOK, None
<1>5. /\ running' = FALSE /\ returned' = NothingReturned /\ UNCHANGED <<device, listed, misread>>
      /\ asyncResult' = [asyncResult EXCEPT ![Object(Innermost.op)] = "Waiting"]
    BY DEF Send
<1>6. \/ bluenet' = bluenet
      \/ /\ c.ack = "IN_PROGRESS"
         /\ bluenet' = [connected |-> bluenet.connected, busy |-> Innermost.op,
                        owner |-> Len(calls)]
    BY <1>3 DEF SentLate, AnswerIs
<1>7. bluenet.owner # Len(calls) /\ reader # Len(calls)
    <2>1. Innermost.ack # "IN_PROGRESS" /\ Innermost.op # "readValue"
        BY DEF None
    <2> QED
        BY <1>4, <2>1 DEF Placed, Innermost
<1>8. TypeOK'
    <2>1. bluenet' \in [connected : BOOLEAN, busy : Ops \cup {None}, owner : 0 .. Len(calls')]
        <3>1. bluenet.connected \in BOOLEAN /\ Len(calls) \in 0 .. Len(calls')
            BY <1>1, <1>4 DEF TypeOK
        <3> QED
            BY <1>1, <1>2, <1>4, <1>6, <3>1 DEF TypeOK
    <2>2. asyncResult' \in [{"device", "characteristic"} -> BleAsyncResults]
        BY <1>1, <1>5 DEF TypeOK, BleAsyncResults, Object
    <2> QED
        BY <1>1, <1>4, <1>5, <2>1, <2>2 DEF TypeOK, device
<1>9. bluenet'.owner # 0 => /\ calls'[bluenet'.owner].op = bluenet'.busy
                            /\ calls'[bluenet'.owner].ack = "IN_PROGRESS"
    BY <1>1, <1>4, <1>6, <1>7 DEF Placed, TypeOK
<1>10. reader' > 0 => calls'[reader'].op = "readValue"
    BY <1>1, <1>4, <1>7 DEF Placed, TypeOK, NoReader
<1>11. /\ \A i \in DOMAIN calls' : PollsRequest(calls'[i])
       /\ \A i \in DOMAIN calls' : i > 1 => calls'[i].op \in HandlerOps \cup {"delay"}
    BY <1>4 DEF Placed, PollsRequest, Innermost
<1> QED
    BY <1>8, <1>9, <1>10, <1>11 DEF Placed

LEMMA ResumePlaced ==
    ASSUME Placed, Resume
    PROVE  Placed'
<1>1. TypeOK
    BY DEF Placed
<1>2. calls # <<>> /\ ~running
    BY DEF Resume, RequestReturns, RoundReturns, delayReturns, Prepared, Resumes
<1>3. Innermost \in Call /\ Len(calls) \in Nat \ {0}
    BY <1>1, <1>2, FrontOf DEF TypeOK, Innermost
<1>4. CASE RequestReturns
    <2>1. CASE Innermost.ack = "IN_PROGRESS"
        <3>1. Innermost.op # "delay"
            BY <1>3, <1>4 DEF RequestReturns, Placed, PollsRequest, Innermost
        <3> QED
            BY <1>2, <1>4, <2>1, <3>1, PollPlaced DEF RequestReturns
    <2>2. CASE Innermost.ack # "IN_PROGRESS"
        <3>1. asyncResult' \in [{"device", "characteristic"} -> BleAsyncResults]
            BY <1>1, <1>4, <2>2 DEF RequestReturns, TypeOK, BleAsyncResults
        <3>2. Returned("true") \/ Returned("false")
            BY <1>1, <1>2, <1>4, <2>2, ReturnIs DEF RequestReturns
        <3>3. running' = TRUE /\ UNCHANGED <<device, listed, misread>>
            BY <1>4, <2>2 DEF RequestReturns, Return
        <3> QED
            BY <3>1, <3>2, <3>3, ReturnPlaced DEF Answers
    <2> QED
        BY <2>1, <2>2
<1>5. CASE RoundReturns
    <2>1. Innermost.ack = "IN_PROGRESS" /\ Innermost.op # "delay"
        BY <1>3, <1>5 DEF RoundReturns, Placed, PollsRequest, Innermost
    <2>2. CASE Return("timeout") /\ UNCHANGED asyncResult
        <3>1. Returned("timeout") /\ running' = TRUE
            BY <1>1, <1>2, <2>2, ReturnIs DEF Return
        <3> QED
            BY <1>1, <1>5, <2>2, <3>1, ReturnPlaced DEF RoundReturns, Answers, TypeOK
    <2>3. CASE Poll(Innermost.waited + 1)
        <3>1. Innermost.waited + 1 \in Nat
            BY <1>3 DEF Call
        <3> QED
            BY <1>2, <1>5, <2>1, <2>3, <3>1, PollPlaced DEF RoundReturns
    <2> QED
        BY <1>5, <2>2, <2>3 DEF RoundReturns
<1>6. CASE delayReturns
    <2>1. /\ Innermost.op = "delay"
          /\ running' = TRUE
          /\ UNCHANGED <<asyncResult, device, listed, reader, bluenet, returned, misread>>
        BY <1>6 DEF delayReturns
    <2>2. Removed
        BY <1>1, <1>2, <1>6, FrontOf DEF TypeOK, delayReturns, Removed, Outer, Innermost
    <2>3. bluenet.owner \in 0 .. Len(calls')
        BY <1>1, <2>1, <2>2
        DEF Placed, TypeOK, Removed, Ops, DeviceOps, CharacteristicOps, None, Innermost
    <2>4. reader \in {NoReader} \cup 0 .. Len(calls')
        BY <1>1, <2>1, <2>2 DEF Placed, TypeOK, Removed, Innermost, NoReader
    <2>5. bluenet' \in [connected : BOOLEAN, busy : Ops \cup {None}, owner : 0 .. Len(calls')]
        BY <1>1, <2>1, <2>3 DEF TypeOK
    <2>6. TypeOK'
        BY <1>1, <2>1, <2>2, <2>4, <2>5 DEF TypeOK, device, Removed
    <2>7. /\ \A i \in DOMAIN calls' : PollsRequest(calls'[i])
          /\ \A i \in DOMAIN calls' : i > 1 => calls'[i].op \in HandlerOps \cup {"delay"}
        BY <2>2 DEF Placed, Removed
    <2> QED
        BY <1>1, <2>1, <2>2, <2>3, <2>4, <2>6, <2>7 DEF Placed, TypeOK, Removed, NoReader
<1>7. CASE Prepared
    <2>1. Innermost.op \in {"connect", "discoverService"} /\ Innermost.ack = None
        BY <1>3, <1>7 DEF Prepared, Placed, PollsRequest, Innermost
    <2>2. CASE Return("false") /\ UNCHANGED <<asyncResult, device, listed, misread>>
        <3>1. Returned("false") /\ running' = TRUE
            BY <1>1, <1>2, <2>2, ReturnIs DEF Return
        <3> QED
            BY <1>1, <2>2, <3>1, ReturnPlaced DEF Answers, TypeOK
    <2>3. CASE Send(Innermost.op, Innermost.timeout, Outer) /\ UNCHANGED reader
        BY <1>2, <2>1, <2>3, SentLatePlaced
    <2> QED
        BY <1>7, <2>2, <2>3 DEF Prepared
<1> QED
    BY <1>4, <1>5, <1>6, <1>7 DEF Resume

(* What the interrupts leave as it is, and within its type.                *)
Typed ==
    /\ UNCHANGED <<running, returned>>
    /\ asyncResult' \in [{"device", "characteristic"} -> BleAsyncResults]
    /\ connected' \in BOOLEAN
    /\ discoveryDone' \in BOOLEAN
    /\ listed' \in {"never", "listed", "unlisted"}
    /\ reader' \in {reader, 0}
    /\ misread' \in BOOLEAN

LEMMA EndedPlaced ==
    ASSUME Placed, NEW outcome, NEW link \in BOOLEAN, NEW delivered,
           Ended(outcome, link, delivered), Typed
    PROVE  Placed'
<1>1. TypeOK
    BY DEF Placed
<1>2. /\ calls' \in Seq(Call)
      /\ Len(calls') = Len(calls)
      /\ \A i \in 1 .. Len(calls) : calls'[i].op = calls[i].op
      /\ \A i \in DOMAIN calls' : PollsRequest(calls'[i])
    <2>1. CASE bluenet.owner = 0
        BY <1>1, <2>1 DEF Ended, Placed, TypeOK
    <2>2. CASE bluenet.owner # 0
        <3>1. PICK c : /\ Replaced(bluenet.owner, c)
                       /\ c.op = calls[bluenet.owner].op
                       /\ c.ack = calls[bluenet.owner].ack
                       /\ c.polling = calls[bluenet.owner].polling
            BY <2>2 DEF Ended
        <3>2. bluenet.owner \in DOMAIN calls
            BY <1>1, <2>2 DEF TypeOK
        <3>3. PollsRequest(c)
            BY <3>1, <3>2 DEF Placed, PollsRequest
        <3> QED
            BY <3>1, <3>3, ReplacePlaced
    <2> QED
        BY <2>1, <2>2
<1>3. bluenet' = [connected |-> link, busy |-> None, owner |-> 0]
    BY DEF Ended
<1>4. /\ bluenet' \in [connected : BOOLEAN, busy : Ops \cup {None}, owner : 0 .. Len(calls')]
      /\ reader' \in {NoReader} \cup 0 .. Len(calls')
    BY <1>1, <1>2, <1>3 DEF Typed, TypeOK
<1>5. TypeOK'
    BY <1>1, <1>2, <1>4 DEF Typed, TypeOK
<1>6. reader' > 0 => calls'[reader'].op = "readValue"
    BY <1>1, <1>2 DEF Typed, Placed, TypeOK, NoReader
<1> QED
    BY <1>2, <1>3, <1>5, <1>6 DEF Placed

LEMMA ResultTyped ==
    ASSUME TypeOK, NEW o, NEW r \in BleAsyncResults, SetResult(o, r)
    PROVE  asyncResult' \in [{"device", "characteristic"} -> BleAsyncResults]
BY DEF TypeOK, SetResult

LEMMA LostTyped ==
    ASSUME TypeOK, Interrupted, Lost
    PROVE  Typed
BY DEF TypeOK, Typed, Lost, Interrupted, device

LEMMA EventPlaced ==
    ASSUME Placed, Event
    PROVE  Placed'
<1>1. TypeOK
    BY DEF Placed
<1>2. Interrupted
    BY DEF Event, onConnect, onDisconnect, onDiscover, onDiscoverDone, onCharacteristicEvent
<1>3. UNCHANGED <<running, returned>>
    BY <1>2 DEF Interrupted
<1>4. /\ bluenet.connected \in BOOLEAN
      /\ {"Success", "Failure", "NotWaiting"} \subseteq BleAsyncResults
    BY <1>1 DEF TypeOK, BleAsyncResults
<1>5. ASSUME NEW outcome \in {"done", "failed"}, NEW link \in BOOLEAN, NEW delivered \in BOOLEAN,
             Ends(outcome, link, delivered), Typed
      PROVE  Placed'
    BY <1>1, <1>5, EndsIs, EndedPlaced
<1>6. CASE onConnect
    <2>1. CASE Lost
        BY <1>1, <1>2, <1>5, <1>6, <2>1, LostTyped DEF onConnect
    <2>2. CASE SetResult("device", "Success") \/ SetResult("device", "Failure")
        <3>1. Typed
            BY <1>1, <1>3, <1>4, <1>6, <2>2, ResultTyped DEF onConnect, Typed, TypeOK, device, Lost
        <3> QED
            BY <1>5, <1>6, <3>1 DEF onConnect
    <2> QED
        BY <1>6, <2>1, <2>2 DEF onConnect
<1>7. CASE onDisconnect
    <2>1. Typed
        <3>1. CASE Lost
            BY <1>1, <1>2, <3>1, LostTyped
        <3>2. CASE Disconnected
            BY <1>1, <1>3, <1>4, <3>2, ResultTyped DEF Disconnected, Typed, TypeOK
        <3> QED
            BY <1>7, <3>1, <3>2 DEF onDisconnect
    <2>2. CASE Ends("done", FALSE, TRUE) \/ Ends("done", FALSE, FALSE)
        BY <1>5, <2>1, <2>2
    <2>3. CASE bluenet' = [bluenet EXCEPT !.connected = FALSE] /\ UNCHANGED calls
        <3>1. bluenet' = [connected |-> FALSE, busy |-> bluenet.busy, owner |-> bluenet.owner]
            BY <1>1, <2>3 DEF TypeOK
        <3>2. bluenet' \in [connected : BOOLEAN, busy : Ops \cup {None}, owner : 0 .. Len(calls')]
            BY <1>1, <2>3, <3>1 DEF TypeOK
        <3>3. reader' \in {NoReader} \cup 0 .. Len(calls')
            BY <1>1, <2>1, <2>3 DEF TypeOK, Typed
        <3>4. TypeOK'
            BY <1>1, <2>1, <2>3, <3>2, <3>3 DEF TypeOK, Typed
        <3> QED
            BY <1>1, <2>1, <2>3, <3>1, <3>4 DEF Placed, Typed, TypeOK, NoReader
    <2> QED
        BY <1>7, <2>2, <2>3 DEF onDisconnect
<1>8. CASE onDiscover
    <2>1. Typed
        BY <1>1, <1>3, <1>4, <1>8, ResultTyped DEF onDiscover, Typed, TypeOK, device
    <2>2. UNCHANGED <<calls, bluenet>>
        BY <1>8 DEF onDiscover
    <2>3. TypeOK'
        BY <1>1, <2>1, <2>2 DEF TypeOK, Typed
    <2> QED
        BY <1>1, <2>1, <2>2, <2>3 DEF Placed, Typed, TypeOK, NoReader
<1>9. CASE onDiscoverDone
    <2>1. CASE Lost
        BY <1>1, <1>2, <1>4, <1>5, <1>9, <2>1, LostTyped DEF onDiscoverDone
    <2>2. CASE SetResult("device", "Success") \/ SetResult("device", "Failure")
        <3>1. Typed
            BY <1>1, <1>3, <1>4, <1>9, <2>2, ResultTyped
               DEF onDiscoverDone, Typed, TypeOK, device, Lost
        <3> QED
            BY <1>4, <1>5, <1>9, <3>1 DEF onDiscoverDone
    <2> QED
        BY <1>9, <2>1, <2>2 DEF onDiscoverDone
<1>10. CASE onCharacteristicEvent
    <2>1. CASE Lost
        BY <1>1, <1>2, <1>4, <1>5, <1>10, <2>1, LostTyped DEF onCharacteristicEvent
    <2>2. CASE SetResult("characteristic", "Success") \/ SetResult("characteristic", "Failure")
        <3>1. misread' \in BOOLEAN
            BY <1>1, <1>10 DEF onCharacteristicEvent, TypeOK, Lost
        <3>2. Typed
            BY <1>1, <1>3, <1>4, <1>10, <2>2, <3>1, ResultTyped
               DEF onCharacteristicEvent, Typed, TypeOK, device, Lost
        <3> QED
            BY <1>4, <1>5, <1>10, <3>2 DEF onCharacteristicEvent
    <2> QED
        BY <1>10, <2>1, <2>2 DEF onCharacteristicEvent
<1> QED
    BY <1>6, <1>7, <1>8, <1>9, <1>10 DEF Event

LEMMA DelayIs ==
    ASSUME TypeOK, delay
    PROVE  \E c : WaitsFirst("delay", c)
BY WaitIs DEF delay

LEMMA OtherPlaced ==
    ASSUME Placed, delay \/ Handler \/ HandlerReturns \/ UNCHANGED vars
    PROVE  Placed'
<1>1. CASE delay
    BY <1>1, DelayIs, WaitPlaced DEF Placed
<1>2. CASE Handler \/ HandlerReturns \/ UNCHANGED vars
    BY <1>2 DEF Handler, HandlerReturns, vars, device, Placed, TypeOK
<1> QED
    BY <1>1, <1>2

LEMMA InitPlaced == Init => Placed
<1> SUFFICES ASSUME Init
             PROVE  Placed
    OBVIOUS
<1>1. calls = <<>> /\ calls \in Seq(Call) /\ Len(calls) = 0
    BY DEF Init
<1>2. 0 \in 0 .. Len(calls)
    BY <1>1
<1>3. TypeOK
    BY <1>1, <1>2 DEF Init, TypeOK, BleAsyncResults
<1>4. DOMAIN calls = {}
    BY <1>1
<1> QED
    BY <1>3, <1>4 DEF Init, Placed

LEMMA StepPlaced == Placed /\ [Next]_vars => Placed'
BY OperationPlaced, ResumePlaced, EventPlaced, OtherPlaced DEF Next

LEMMA PlacedHolds == Spec => []Placed
<1>1. Init => Placed
    BY InitPlaced
<1>2. Placed /\ [Next]_vars => Placed'
    BY StepPlaced
<1> QED
    BY <1>1, <1>2, PTL DEF Spec

(* _value and bluenet refer to calls that are there.                       *)
THEOREM TypesHold == Spec => []TypeOK
<1>1. Placed => TypeOK
    BY DEF Placed
<1> QED
    BY <1>1, PlacedHolds, PTL


------------------------------------------------------------------------------
(* The ways in which the innermost call goes on.                           *)

(* Bluenet answered the request at once.                                   *)
AnsweredAtOnce ==
    /\ Innermost.op # "delay" /\ Innermost.ack # "IN_PROGRESS"
    /\ asyncResult' = [asyncResult EXCEPT ![Object(Innermost.op)] = "NotWaiting"]
    /\ Innermost.ack = "SUCCESS" => Returned("true")
    /\ Innermost.ack # "SUCCESS" => Returned("false")

(* There is no result yet.                                                 *)
StillWaiting ==
    /\ Innermost.op # "delay" /\ Innermost.ack = "IN_PROGRESS"
    /\ asyncResult[Object(Innermost.op)] = "Waiting"
    /\ \/ GoesOn(0)
       \/ /\ ~(Tries(Innermost.timeout) - (Innermost.waited + 1) <= 0)
          /\ GoesOn(Innermost.waited + 1)
    /\ UNCHANGED <<asyncResult, bluenet, returned>>

(* There is a result.                                                      *)
ResultSeen ==
    LET o == Object(Innermost.op) IN
    /\ Innermost.op # "delay" /\ Innermost.ack = "IN_PROGRESS"
    /\ asyncResult[o] # "Waiting"
    /\ asyncResult' = [asyncResult EXCEPT ![o] = "NotWaiting"]
    /\ asyncResult[o] = "Failure" => Returned("false")
    /\ asyncResult[o] # "Failure" => Returned("true")

TimedOut ==
    /\ Innermost.op # "delay" /\ Innermost.ack = "IN_PROGRESS"
    /\ Tries(Innermost.timeout) - (Innermost.waited + 1) <= 0
    /\ Returned("timeout")
    /\ UNCHANGED asyncResult

DelayOver ==
    /\ Innermost.op = "delay"
    /\ Removed
    /\ UNCHANGED <<asyncResult, bluenet, returned>>

(* What the call waited for before its request was refused, or the request *)
(* is sent now.                                                            *)
Unprepared ==
    /\ Innermost.op \in {"connect", "discoverService"} /\ Innermost.ack = None
    /\ Returned("false")
    /\ UNCHANGED asyncResult

SentNow ==
    /\ Innermost.op \in {"connect", "discoverService"} /\ Innermost.ack = None
    /\ \E c : SentLate(c)
    /\ asyncResult' = [asyncResult EXCEPT !["device"] = "Waiting"]
    /\ returned' = NothingReturned

LEMMA ResumeIs ==
    ASSUME Placed, Resume
    PROVE  /\ Innermost \in Call
           /\ Len(calls) \in Nat \ {0}
           /\ \/ AnsweredAtOnce \/ StillWaiting \/ ResultSeen \/ TimedOut \/ DelayOver
              \/ Unprepared \/ SentNow
<1>1. TypeOK
    BY DEF Placed
<1>2. calls # <<>>
    BY DEF Resume, RequestReturns, RoundReturns, delayReturns, Prepared, Resumes
<1>3. Innermost \in Call /\ Len(calls) \in Nat \ {0}
    BY <1>1, <1>2, FrontOf DEF TypeOK, Innermost
<1>4. CASE RequestReturns
    <2> Innermost.op # "delay"
        BY <1>3, <1>4 DEF RequestReturns, Placed, PollsRequest, Innermost
    <2>1. CASE Innermost.ack = "IN_PROGRESS"
        <3>1. Poll(0) /\ Innermost.op # "delay"
            BY <1>4, <2>1 DEF RequestReturns
        <3> QED
            BY <1>1, <1>2, <1>3, <2>1, <3>1, PollIs DEF StillWaiting, ResultSeen
    <2>2. CASE Innermost.ack # "IN_PROGRESS"
        BY <1>1, <1>2, <1>3, <1>4, <2>2, ReturnIs DEF RequestReturns, AnsweredAtOnce
    <2> QED
        BY <2>1, <2>2
<1>5. CASE RoundReturns
    <2>1. Innermost.ack = "IN_PROGRESS" /\ Innermost.op # "delay"
        BY <1>3, <1>5 DEF RoundReturns, Placed, PollsRequest, Innermost
    <2>2. Innermost.waited + 1 \in Nat
        BY <1>3 DEF Call
    <2>3. CASE Tries(Innermost.timeout) - (Innermost.waited + 1) <= 0
        <3>1. Return("timeout") /\ UNCHANGED asyncResult
            BY <1>5, <2>3 DEF RoundReturns
        <3> QED
            BY <1>1, <1>2, <1>3, <2>1, <2>3, <3>1, ReturnIs DEF TimedOut
    <2>4. CASE ~(Tries(Innermost.timeout) - (Innermost.waited + 1) <= 0)
        <3>1. Poll(Innermost.waited + 1)
            BY <1>5, <2>4 DEF RoundReturns
        <3> QED
            BY <1>1, <1>2, <1>3, <2>1, <2>2, <2>4, <3>1, PollIs DEF StillWaiting, ResultSeen
    <2> QED
        BY <2>3, <2>4
<1>6. CASE delayReturns
    BY <1>1, <1>2, <1>3, <1>6, FrontOf
       DEF TypeOK, delayReturns, DelayOver, Removed, Outer, Innermost
<1>7. CASE Prepared
    <2>1. Innermost.op \in {"connect", "discoverService"} /\ Innermost.ack = None
        BY <1>3, <1>7 DEF Prepared, Placed, PollsRequest, Innermost
    <2>2. CASE Return("false") /\ UNCHANGED asyncResult
        BY <1>1, <1>2, <1>3, <2>1, <2>2, ReturnIs DEF Unprepared
    <2>3. CASE Send(Innermost.op, Innermost.timeout, Outer)
        <3>1. Innermost.op \in Ops /\ Object(Innermost.op) = "device"
            BY <2>1 DEF Ops, DeviceOps, Object
        <3>2. \E c : SentLate(c)
            BY <1>1, <1>2, <2>3, <3>1, SentLateIs
        <3> QED
            BY <1>3, <2>1, <2>3, <3>1, <3>2 DEF SentNow, Send
    <2> QED
        BY <1>7, <2>2, <2>3 DEF Prepared
<1> QED
    BY <1>3, <1>4, <1>5, <1>6, <1>7 DEF Resume
------------------------------------------------------------------------------
(* How long calls wait.                                                    *)

(* The number of tries fits its type: timeouts below 2 ^ (TriesWidth - 1)  *)
(* rounds.                                                                 *)
TimeoutsFit == \A t \in Timeouts : Tries(t) = t

InTime(c) ==
    /\ c.op # "delay" => c.timeout \in Timeouts
    /\ c.waited < c.timeout \/ c.waited = 0

Timely ==
    /\ \A i \in DOMAIN calls : InTime(calls[i])
    /\ returned # NothingReturned /\ returned.answer = "timeout"
           => returned.call.waited + 1 >= returned.call.timeout

LEMMA ResumeTimely ==
    ASSUME TimeoutsFit, Placed, Timely, Resume
    PROVE  Timely'
<1>1. /\ Innermost \in Call /\ Len(calls) \in Nat \ {0}
      /\ \/ AnsweredAtOnce \/ StillWaiting \/ ResultSeen \/ TimedOut \/ DelayOver
         \/ Unprepared \/ SentNow
    BY ResumeIs
<1>2. InTime(Innermost)
    BY <1>1 DEF Timely, Innermost
<1>3. ASSUME Removed
      PROVE  \A i \in DOMAIN calls' : InTime(calls'[i])
    BY <1>1, <1>3 DEF Removed, Timely
<1>4. CASE AnsweredAtOnce \/ ResultSeen \/ Unprepared
    <2>1. Removed /\ returned' \in [call : Call, answer : {"true", "false"}]
        BY <1>1, <1>4 DEF AnsweredAtOnce, ResultSeen, Unprepared, Returned
    <2>2. returned'.answer # "timeout"
        BY <2>1
    <2> QED
        BY <1>3, <2>1, <2>2 DEF Timely
<1>5. CASE StillWaiting
    <2>1. Innermost.timeout \in Timeouts /\ Innermost.timeout \in Nat /\ Innermost.waited \in Nat
        BY <1>1, <1>2, <1>5, TimeoutsAssumption DEF StillWaiting, InTime, Call
    <2>2. Tries(Innermost.timeout) = Innermost.timeout
        BY <2>1 DEF TimeoutsFit
    <2>3. PICK c : /\ Replaced(Len(calls), c)
                   /\ c.op = Innermost.op /\ c.timeout = Innermost.timeout
                   /\ c.waited = 0 \/ c.waited < c.timeout
        BY <1>5, <2>1, <2>2 DEF StillWaiting, GoesOn
    <2>4. InTime(c)
        BY <2>1, <2>3 DEF InTime
    <2>5. \A i \in DOMAIN calls' : InTime(calls'[i])
        BY <1>1, <2>3, <2>4 DEF Replaced, Timely
    <2> QED
        BY <1>5, <2>5 DEF StillWaiting, Timely
<1>6. CASE TimedOut
    <2>1. Innermost.timeout \in Timeouts /\ Innermost.timeout \in Nat /\ Innermost.waited \in Nat
        BY <1>1, <1>2, <1>6, TimeoutsAssumption DEF TimedOut, InTime, Call
    <2>2. Innermost.waited + 1 >= Innermost.timeout
        BY <1>6, <2>1 DEF TimedOut, TimeoutsFit
    <2>3. Removed /\ returned'.call = Innermost
        BY <1>6 DEF TimedOut, Returned
    <2> QED
        BY <1>3, <2>2, <2>3 DEF Timely
<1>7. CASE DelayOver
    BY <1>3, <1>7 DEF DelayOver, Timely
<1>8. CASE SentNow
    <2>1. PICK c : SentLate(c)
        BY <1>8 DEF SentNow
    <2>2. /\ c.op = Innermost.op /\ c.timeout = Innermost.timeout /\ c.waited = 0
          /\ Replaced(Len(calls), c)
        BY <2>1 DEF SentLate, AnswerIs
    <2>3. InTime(c)
        BY <1>2, <2>2 DEF InTime
    <2>4. \A i \in DOMAIN calls' : InTime(calls'[i])
        BY <1>1, <2>2, <2>3 DEF Replaced, Timely
    <2> QED
        BY <1>8, <2>4 DEF SentNow, Timely
<1> QED
    BY <1>1, <1>4, <1>5, <1>6, <1>7, <1>8

LEMMA EndedTimely ==
    ASSUME Placed, Timely, NEW outcome, NEW link, NEW delivered, Ended(outcome, link, delivered),
           returned' = returned
    PROVE  Timely'
<1>1. CASE bluenet.owner = 0
    BY <1>1 DEF Ended, Timely
<1>2. CASE bluenet.owner # 0
    <2> DEFINE k == bluenet.owner
    <2>1. PICK c : /\ Replaced(k, c)
                   /\ c.op = calls[k].op
                   /\ c.timeout = calls[k].timeout
                   /\ c.waited = calls[k].waited
        BY <1>2 DEF Ended
    <2>2. k \in DOMAIN calls /\ DOMAIN calls' = DOMAIN calls
        BY <2>1 DEF Placed, TypeOK, Replaced
    <2>3. InTime(c)
        BY <2>1, <2>2 DEF InTime, Timely
    <2> QED
        BY <2>1, <2>2, <2>3 DEF Replaced, Timely, Placed, TypeOK
<1> QED
    BY <1>1, <1>2

(* Events are the end of an operation, or leave the calls as they are.     *)
LEMMA EventIs ==
    ASSUME Placed, Event
    PROVE  /\ returned' = returned
           /\ \/ UNCHANGED calls
              \/ \E outcome \in {"done", "failed"}, link \in BOOLEAN, delivered \in BOOLEAN :
                    Ended(outcome, link, delivered)
<1>1. TypeOK /\ bluenet.connected \in BOOLEAN
    BY DEF Placed, TypeOK
<1>2. returned' = returned
    BY DEF Event, onConnect, onDisconnect, onDiscover, onDiscoverDone, onCharacteristicEvent,
           Interrupted
<1>3. \/ UNCHANGED calls
      \/ \E outcome \in {"done", "failed"}, link \in BOOLEAN, delivered \in BOOLEAN :
            Ends(outcome, link, delivered)
    BY <1>1 DEF Event, onConnect, onDisconnect, onDiscover, onDiscoverDone, onCharacteristicEvent
<1> QED
    BY <1>1, <1>2, <1>3, EndsIs

LEMMA StepTimely ==
    ASSUME TimeoutsFit
    PROVE  Placed /\ Timely /\ [Next]_vars => Timely'
<1> SUFFICES ASSUME Placed, Timely, [Next]_vars
             PROVE  Timely'
    OBVIOUS
<1>1. TypeOK
    BY DEF Placed
<1>2. CASE \E op \in Ops : Request(op)
    <2>1. PICK op \in Ops : Request(op)
        BY <1>2
    <2>2. PICK c : Requested(op, c)
        BY <1>1, <2>1, RequestIs
    <2>3. InTime(c) /\ Added(c) /\ returned' = NothingReturned
        BY <1>1, <2>1, <2>2, RequestIs DEF Requested, AnswerIs, InTime
    <2> QED
        BY <1>1, <2>3 DEF Timely, Added, TypeOK
<1>3. CASE \E op \in {"connect", "discoverService", "delay"} : \E c : WaitsFirst(op, c)
    <2>0. PICK op \in {"connect", "discoverService", "delay"} : \E c : WaitsFirst(op, c)
        BY <1>3
    <2>1. PICK c : WaitsFirst(op, c)
        BY <2>0
    <2>2. InTime(c) /\ Added(c) /\ returned' = NothingReturned
        BY <2>1 DEF InTime, WaitsFirst
    <2> QED
        BY <1>1, <2>2 DEF Timely, Added, TypeOK
<1>4. CASE Resume
    BY <1>4, ResumeTimely
<1>5. CASE Event
    BY <1>5, EventIs, EndedTimely DEF Timely
<1>6. CASE Handler \/ HandlerReturns \/ UNCHANGED vars
    BY <1>6 DEF Handler, HandlerReturns, vars, Timely
<1> QED
    BY <1>1, <1>2, <1>3, <1>4, <1>5, <1>6, OperationIs, DelayIs DEF Next

(* Where the number of tries fits its type, every call waits for its       *)
(* timeout, whatever handlers and bluenet do meanwhile.                    *)
THEOREM WaitsForItsTimeout ==
    ASSUME TimeoutsFit
    PROVE  Spec => []TimeoutKept
<1>1. Init => Placed /\ Timely
    BY InitPlaced DEF Init, Timely
<1>2. (Placed /\ Timely) /\ [Next]_vars => (Placed /\ Timely)'
    BY StepPlaced, StepTimely
<1>3. Placed /\ Timely => TimeoutKept
    BY DEF Placed, Timely, InTime, TimeoutKept
<1> QED
    BY <1>1, <1>2, <1>3, PTL DEF Spec
------------------------------------------------------------------------------
(* What an operation that ends means for the call that was made first: the *)
(* others are calls of handlers.                                           *)

LEMMA EndedFirst ==
    ASSUME Placed, calls # <<>>, NEW outcome, NEW link, NEW delivered,
           Ended(outcome, link, delivered)
    PROVE  /\ Len(calls) \in Nat \ {0} /\ Len(calls') = Len(calls)
           /\ \A i \in 1 .. Len(calls) : calls'[i].op = calls[i].op
           /\ \A i \in 1 .. Len(calls) : i # bluenet.owner => calls'[i] = calls[i]
           /\ calls'[1].ack = calls[1].ack
           /\ bluenet.owner = 1 => /\ calls[1].op = bluenet.busy
                                   /\ calls[1].ack = "IN_PROGRESS"
                                   /\ calls'[1].outcome = outcome
           /\ bluenet'.connected = link /\ bluenet'.busy = None /\ bluenet'.owner = 0
<1>1. TypeOK /\ Len(calls) \in Nat \ {0}
    BY FrontOf DEF Placed, TypeOK
<1>2. CASE bluenet.owner = 0
    BY <1>1, <1>2 DEF Ended
<1>3. CASE bluenet.owner # 0
    <2> DEFINE k == bluenet.owner
    <2>1. PICK c : /\ Replaced(k, c)
                   /\ c.op = calls[k].op
                   /\ c.ack = calls[k].ack
                   /\ c.outcome = outcome
        BY <1>3 DEF Ended
    <2> QED
        BY <1>1, <1>3, <2>1 DEF Ended, Replaced, Placed
<1> QED
    BY <1>2, <1>3
------------------------------------------------------------------------------
(* Operations of the device.                                               *)

(* What a call of one of them waits for.  While its request is in          *)
(* progress, bluenet is at work on it; connect finds no link until it is   *)
(* done, so no event of another link ends its wait.                        *)
DeviceCall(c, result, b) ==
    /\ c.ack = "SUCCESS" => c.outcome = "done"
    /\ c.ack = "IN_PROGRESS" =>
         /\ result # "NotWaiting"
         /\ c.outcome = None => b.owner = 1
         /\ c.outcome # None => b.busy \notin DeviceOps
         /\ c.outcome = None /\ c.op # "discoverService" => result = "Waiting"
         /\ c.op = "connect" /\ c.outcome # "done" => ~b.connected
         /\ c.op # "discoverService" /\ c.outcome = "failed" =>
                c.op = "connect" /\ result # "Success"

DeviceWaits ==
    \A i \in DOMAIN calls : calls[i].op \in DeviceOps =>
        i = 1 /\ DeviceCall(calls[i], asyncResult["device"], bluenet)

LEMMA WaitDevice ==
    ASSUME HandlerOps \cap DeviceOps = {}, Placed, DeviceWaits, NEW op, NEW c, WaitsFirst(op, c),
           calls = <<>> \/ op \in HandlerOps \cup {"delay"}
    PROVE  DeviceWaits'
<1>1. TypeOK /\ DOMAIN calls = 1 .. Len(calls) /\ Len(calls) \in Nat
    BY DEF Placed, TypeOK
<1>2. /\ Len(calls') = Len(calls) + 1 /\ calls' \in Seq(Call)
      /\ \A i \in 1 .. Len(calls) : calls'[i] = calls[i]
      /\ calls'[Len(calls) + 1] = c /\ c.op = op
      /\ UNCHANGED <<asyncResult, bluenet>>
    BY DEF WaitsFirst, Added
<1>3. DeviceCall(c, asyncResult["device"], bluenet)
    BY DEF WaitsFirst, DeviceCall, None
<1>4. op \in DeviceOps => Len(calls) = 0
    BY DEF DeviceOps
<1> QED
    BY <1>1, <1>2, <1>3, <1>4 DEF DeviceWaits

LEMMA RequestDevice ==
    ASSUME HandlerOps \cap DeviceOps = {}, Placed, DeviceWaits, NEW op \in Ops, Request(op)
    PROVE  DeviceWaits'
<1>1. calls = <<>> \/ op \in HandlerOps
    BY RequestIs DEF Placed
<1>2. TypeOK /\ Len(calls) \in Nat /\ DOMAIN calls = 1 .. Len(calls)
    BY DEF Placed, TypeOK
<1>3. PICK c : Requested(op, c)
    BY <1>2, RequestIs
<1>4. /\ Len(calls') = Len(calls) + 1 /\ calls' \in Seq(Call)
      /\ \A i \in 1 .. Len(calls) : calls'[i] = calls[i]
      /\ calls'[Len(calls) + 1] = c /\ c.op = op
    BY <1>3 DEF Requested, AnswerIs, Added
<1>5. asyncResult' = [asyncResult EXCEPT ![Object(op)] = "Waiting"]
    BY <1>2, RequestIs
<1>6. CASE op \in DeviceOps
    <2>1. Len(calls) = 0
        BY <1>1, <1>6
    <2>2. asyncResult'["device"] = "Waiting"
        BY <1>2, <1>5, <1>6 DEF Object, TypeOK
    <2>3. /\ c.ack = "SUCCESS" => c.outcome = "done"
          /\ c.ack = "IN_PROGRESS" =>
                /\ c.outcome = None
                /\ bluenet.connected = (op # "connect")
                /\ bluenet' = [connected |-> bluenet.connected, busy |-> op,
                               owner |-> Len(calls) + 1]
        BY <1>3 DEF Requested, AnswerIs
    <2>4. c.ack = "IN_PROGRESS" => /\ bluenet'.owner = 1
                                   /\ bluenet'.connected = (op # "connect")
        BY <2>1, <2>3
    <2>5. DeviceCall(c, asyncResult'["device"], bluenet')
        BY <1>4, <2>2, <2>3, <2>4 DEF DeviceCall, None
    <2> QED
        BY <1>4, <2>1, <2>5 DEF DeviceWaits
<1>7. CASE op \notin DeviceOps
    <2>1. asyncResult'["device"] = asyncResult["device"]
        BY <1>2, <1>5, <1>7 DEF Object, TypeOK
    <2>2. ASSUME NEW i \in 1 .. Len(calls), calls[i].op \in DeviceOps
          PROVE  i = 1 /\ DeviceCall(calls[i], asyncResult'["device"], bluenet')
        <3>1. i = 1 /\ DeviceCall(calls[1], asyncResult["device"], bluenet)
            BY <1>2, <2>2 DEF DeviceWaits
        <3>2. CASE bluenet' = bluenet
            BY <2>1, <3>1, <3>2 DEF DeviceCall
        <3>3. CASE /\ bluenet.busy = None
                   /\ bluenet' = [connected |-> bluenet.connected, busy |-> op,
                                  owner |-> Len(calls) + 1]
            <4>1. bluenet.owner # 1
                BY <2>2, <3>1, <3>3 DEF Placed, DeviceOps, None
            <4> QED
                BY <1>7, <2>1, <3>1, <3>3, <4>1 DEF DeviceCall
        <3> QED
            BY <1>3, <3>1, <3>2, <3>3 DEF Requested, AnswerIs
    <2> QED
        BY <1>2, <1>4, <1>7, <2>2 DEF DeviceWaits
<1> QED
    BY <1>6, <1>7

LEMMA ResumeDevice ==
    ASSUME Placed, DeviceWaits, Resume
    PROVE  DeviceWaits'
<1>1. /\ Innermost \in Call /\ Len(calls) \in Nat \ {0}
      /\ \/ AnsweredAtOnce \/ StillWaiting \/ ResultSeen \/ TimedOut \/ DelayOver
         \/ Unprepared \/ SentNow
    BY ResumeIs
<1>2. TypeOK /\ DOMAIN calls = 1 .. Len(calls)
    BY DEF Placed, TypeOK
<1>3. CASE StillWaiting
    <2>1. PICK c : /\ Replaced(Len(calls), c)
                   /\ c.op = Innermost.op
                   /\ c.ack = Innermost.ack
                   /\ c.outcome = Innermost.outcome
        BY <1>3 DEF StillWaiting, GoesOn
    <2>2. UNCHANGED <<asyncResult, bluenet>>
        BY <1>3 DEF StillWaiting
    <2>3. DOMAIN calls' = 1 .. Len(calls) /\ Len(calls) \in 1 .. Len(calls)
        BY <1>1, <2>1 DEF Replaced
    <2>4. ASSUME NEW i \in 1 .. Len(calls)
          PROVE  /\ calls'[i].op = calls[i].op /\ calls'[i].ack = calls[i].ack
                 /\ calls'[i].outcome = calls[i].outcome
        BY <2>1 DEF Replaced, Innermost
    <2> QED
        BY <1>2, <2>2, <2>3, <2>4 DEF DeviceWaits, DeviceCall
<1>4. CASE AnsweredAtOnce \/ ResultSeen \/ TimedOut \/ DelayOver \/ Unprepared
    <2>0. Removed
        BY <1>4 DEF AnsweredAtOnce, ResultSeen, TimedOut, DelayOver, Unprepared, Returned
    <2>1. \/ bluenet' = bluenet
          \/ bluenet' = [connected |-> bluenet.connected, busy |-> bluenet.busy,
                         owner |-> IF bluenet.owner = Len(calls) THEN 0 ELSE bluenet.owner]
        BY <1>4 DEF AnsweredAtOnce, ResultSeen, TimedOut, DelayOver, Unprepared, Returned
    <2>2. ASSUME NEW i \in 1 .. Len(calls) - 1, calls[i].op \in DeviceOps
          PROVE  i = 1 /\ DeviceCall(calls[i], asyncResult'["device"], bluenet')
        <3>1. i = 1 /\ DeviceCall(calls[1], asyncResult["device"], bluenet) /\ Len(calls) > 1
            BY <1>1, <1>2, <2>2 DEF DeviceWaits, TypeOK
        <3>2. Innermost.op \notin DeviceOps
            BY <1>1, <1>2, <3>1 DEF DeviceWaits, TypeOK, Innermost
        <3>3. asyncResult'["device"] = asyncResult["device"]
            BY <1>2, <1>4, <3>2
               DEF AnsweredAtOnce, ResultSeen, TimedOut, DelayOver, Unprepared, Object, TypeOK
        <3>4. /\ bluenet'.connected = bluenet.connected
              /\ bluenet'.busy = bluenet.busy
              /\ bluenet.owner = 1 => bluenet'.owner = 1
            BY <2>1, <3>1
        <3> QED
            BY <3>1, <3>3, <3>4 DEF DeviceCall
    <2> QED
        BY <1>1, <2>0, <2>2 DEF DeviceWaits, Removed
<1>5. CASE SentNow
    <2>1. PICK c : SentLate(c)
        BY <1>5 DEF SentNow
    <2>2. Innermost.op \in {"connect", "discoverService"}
        BY <1>5 DEF SentNow
    <2>3. Len(calls) = 1
        BY <1>1, <1>2, <2>2 DEF DeviceWaits, DeviceOps, Innermost
    <2>4. calls' \in Seq(Call) /\ Len(calls') = 1 /\ calls'[1] = c
        BY <2>1, <2>3 DEF SentLate, Replaced
    <2>5. asyncResult'["device"] = "Waiting"
        BY <1>2, <1>5 DEF SentNow, TypeOK
    <2>6. /\ c.op = Innermost.op
          /\ c.ack = "SUCCESS" => c.outcome = "done"
          /\ c.ack = "IN_PROGRESS" =>
                /\ c.outcome = None
                /\ bluenet.connected = (Innermost.op # "connect")
                /\ bluenet' = [connected |-> bluenet.connected, busy |-> Innermost.op,
                               owner |-> 1]
        BY <2>1, <2>3 DEF SentLate, AnswerIs
    <2>7. c.ack = "IN_PROGRESS" => /\ bluenet'.owner = 1
                                   /\ bluenet'.connected = (c.op # "connect")
        BY <2>6
    <2>8. DeviceCall(c, asyncResult'["device"], bluenet')
        BY <2>5, <2>6, <2>7 DEF DeviceCall, None
    <2> QED
        BY <2>4, <2>8 DEF DeviceWaits
<1> QED
    BY <1>1, <1>3, <1>4, <1>5

(* An event that ends the operation bluenet works on.                      *)
LEMMA EndDevice ==
    ASSUME Placed, DeviceWaits, calls # <<>>, bluenet.busy # None,
           NEW outcome \in {"done", "failed"}, NEW link, NEW delivered,
           Ended(outcome, link, delivered),
           bluenet.busy = "connect" => (link = (outcome = "done")),
           bluenet.busy = "disconnect" => outcome = "done",
           bluenet.busy # "connect" => link = FALSE \/ link = bluenet.connected,
           asyncResult'["device"] # asyncResult["device"] =>
               /\ bluenet.busy \in DeviceOps
               /\ asyncResult'["device"] = (IF outcome = "done" THEN "Success" ELSE "Failure")
    PROVE  DeviceWaits'
<1>1. /\ Len(calls) \in Nat \ {0} /\ Len(calls') = Len(calls)
      /\ \A i \in 1 .. Len(calls) : calls'[i].op = calls[i].op
      /\ \A i \in 1 .. Len(calls) : i # bluenet.owner => calls'[i] = calls[i]
      /\ calls'[1].ack = calls[1].ack
      /\ bluenet.owner = 1 => /\ calls[1].op = bluenet.busy
                              /\ calls[1].ack = "IN_PROGRESS"
                              /\ calls'[1].outcome = outcome
      /\ bluenet'.connected = link /\ bluenet'.busy = None /\ bluenet'.owner = 0
    BY EndedFirst
<1>2. DOMAIN calls = 1 .. Len(calls) /\ DOMAIN calls' = 1 .. Len(calls)
    BY <1>1 DEF Placed, TypeOK, Ended, Replaced
<1>3. ASSUME NEW i \in 1 .. Len(calls), calls'[i].op \in DeviceOps
      PROVE  i = 1 /\ DeviceCall(calls'[i], asyncResult'["device"], bluenet')
    <2>1. i = 1 /\ DeviceCall(calls[1], asyncResult["device"], bluenet) /\ calls[1].op \in DeviceOps
        BY <1>1, <1>2, <1>3 DEF DeviceWaits
    <2>2. CASE bluenet.owner = 1
        BY <1>1, <2>1, <2>2 DEF DeviceCall, DeviceOps, None
    <2>3. CASE bluenet.owner # 1
        <3>1. calls'[1] = calls[1]
            BY <1>1, <2>3
        <3>2. calls[1].ack = "IN_PROGRESS" => bluenet.busy \notin DeviceOps
            BY <2>1, <2>3 DEF DeviceCall
        <3> QED
            BY <1>1, <2>1, <2>3, <3>1, <3>2 DEF DeviceCall, DeviceOps, None
    <2> QED
        BY <2>2, <2>3
<1> QED
    BY <1>2, <1>3 DEF DeviceWaits

LEMMA EventDevice ==
    ASSUME Placed, DeviceWaits, Event
    PROVE  DeviceWaits'
<1>1. TypeOK /\ bluenet.connected \in BOOLEAN /\ DOMAIN calls = 1 .. Len(calls)
    BY DEF Placed, TypeOK
<1>2. calls # <<>>
    BY DEF Event, onConnect, onDisconnect, onDiscover, onDiscoverDone, onCharacteristicEvent,
           Interrupted
<1>3. ASSUME NEW outcome \in {"done", "failed"}, NEW link \in BOOLEAN, NEW delivered \in BOOLEAN,
             Ends(outcome, link, delivered)
      PROVE  Ended(outcome, link, delivered)
    BY <1>1, <1>3, EndsIs
<1>4. ASSUME Lost
      PROVE  asyncResult'["device"] = asyncResult["device"]
    BY <1>4 DEF Lost
<1>5. ASSUME NEW r, SetResult("device", r)
      PROVE  asyncResult'["device"] = r
    BY <1>1, <1>5 DEF SetResult, TypeOK
<1>6. ASSUME NEW r, SetResult("characteristic", r)
      PROVE  asyncResult'["device"] = asyncResult["device"]
    BY <1>1, <1>6 DEF SetResult, TypeOK
<1>7. CASE onConnect
    <2>1. bluenet.busy = "connect" /\ bluenet.busy # None /\ bluenet.busy \in DeviceOps
        BY <1>7 DEF onConnect, None, DeviceOps
    <2>2. \/ Ended("done", TRUE, TRUE) /\ asyncResult'["device"] = "Success"
          \/ Ended("failed", FALSE, TRUE) /\ asyncResult'["device"] = "Failure"
          \/ Ended("done", TRUE, FALSE) /\ asyncResult'["device"] = asyncResult["device"]
          \/ Ended("failed", FALSE, FALSE) /\ asyncResult'["device"] = asyncResult["device"]
        BY <1>3, <1>4, <1>5, <1>7 DEF onConnect
    <2> QED
        BY <1>2, <2>1, <2>2, EndDevice
<1>8. CASE onDisconnect
    <2>1. CASE /\ bluenet.busy = "disconnect"
               /\ Ends("done", FALSE, TRUE) \/ Ends("done", FALSE, FALSE)
        <3>1. bluenet.busy # None /\ bluenet.busy \in DeviceOps
            BY <2>1 DEF None, DeviceOps
        <3>2. \/ asyncResult'["device"] = "Success"
              \/ asyncResult'["device"] = asyncResult["device"]
            BY <1>4, <1>5, <1>8 DEF onDisconnect, Disconnected
        <3> QED
            BY <1>2, <1>3, <2>1, <3>1, <3>2, EndDevice
    <2>2. CASE /\ bluenet.busy # "disconnect"
               /\ bluenet' = [bluenet EXCEPT !.connected = FALSE]
               /\ UNCHANGED calls
               /\ Disconnected \/ Lost
        <3>1. \/ asyncResult'["device"] = "Success"
              \/ asyncResult'["device"] = asyncResult["device"]
            BY <1>4, <1>5, <2>2 DEF Disconnected
        <3>2. /\ bluenet'.busy = bluenet.busy /\ bluenet'.owner = bluenet.owner
              /\ bluenet'.connected = FALSE /\ bluenet.connected
            BY <1>1, <1>8, <2>2 DEF TypeOK, onDisconnect
        <3>3. ASSUME NEW i \in DOMAIN calls, calls[i].op \in DeviceOps
              PROVE  i = 1 /\ DeviceCall(calls[i], asyncResult'["device"], bluenet')
            <4>1. i = 1 /\ DeviceCall(calls[1], asyncResult["device"], bluenet)
                BY <3>3 DEF DeviceWaits
            <4>2. bluenet.owner = 1 => calls[1].op = bluenet.busy
                BY DEF Placed
            <4> QED
                BY <2>2, <3>1, <3>2, <3>3, <4>1, <4>2 DEF DeviceCall, DeviceOps, None
        <3> QED
            BY <2>2, <3>3 DEF DeviceWaits
    <2> QED
        BY <1>8, <2>1, <2>2 DEF onDisconnect
<1>9. CASE onDiscover
    <2>1. asyncResult'["device"] = asyncResult["device"] /\ UNCHANGED <<calls, bluenet>>
        BY <1>6, <1>9 DEF onDiscover
    <2> QED
        BY <2>1 DEF DeviceWaits
<1>10. CASE onDiscoverDone
    <2>1. bluenet.busy = "discoverService" /\ bluenet.busy # None /\ bluenet.busy \in DeviceOps
        BY <1>10 DEF onDiscoverDone, None, DeviceOps
    <2>2. \/ /\ bluenet.connected = TRUE
             /\ Ended("done", TRUE, TRUE) /\ asyncResult'["device"] = "Success"
          \/ Ended("failed", bluenet.connected, TRUE) /\ asyncResult'["device"] = "Failure"
          \/ /\ bluenet.connected = TRUE
             /\ Ended("done", TRUE, FALSE) /\ asyncResult'["device"] = asyncResult["device"]
          \/ /\ Ended("failed", bluenet.connected, FALSE)
             /\ asyncResult'["device"] = asyncResult["device"]
        BY <1>1, <1>3, <1>4, <1>5, <1>10 DEF onDiscoverDone
    <2> QED
        BY <1>2, <2>1, <2>2, EndDevice
<1>11. CASE onCharacteristicEvent
    <2>1. /\ bluenet.busy # None
          /\ bluenet.busy \notin {"connect", "disconnect"}
        BY <1>11 DEF onCharacteristicEvent, None, CharacteristicOps
    <2>2. asyncResult'["device"] = asyncResult["device"]
        BY <1>4, <1>6, <1>11 DEF onCharacteristicEvent
    <2>3. \E outcome \in {"done", "failed"}, delivered \in BOOLEAN :
             Ended(outcome, bluenet.connected, delivered)
        <3>1. \E outcome \in {"done", "failed"}, delivered \in BOOLEAN :
                 Ends(outcome, bluenet.connected, delivered)
            BY <1>1, <1>11 DEF onCharacteristicEvent
        <3> QED
            BY <1>1, <1>3, <3>1
    <2> QED
        BY <1>2, <2>1, <2>2, <2>3, EndDevice
<1> QED
    BY <1>7, <1>8, <1>9, <1>10, <1>11 DEF Event

LEMMA StepDevice ==
    ASSUME HandlerOps \cap DeviceOps = {}
    PROVE  Placed /\ DeviceWaits /\ [Next]_vars => DeviceWaits'
<1> SUFFICES ASSUME Placed, DeviceWaits, [Next]_vars
             PROVE  DeviceWaits'
    OBVIOUS
<1>1. CASE delay \/ Operation
    BY <1>1, OperationIs, DelayIs, RequestDevice, WaitDevice DEF Placed
<1>2. CASE Handler \/ HandlerReturns \/ UNCHANGED vars
    BY <1>2 DEF Handler, HandlerReturns, vars, DeviceWaits
<1> QED
    BY <1>1, <1>2, ResumeDevice, EventDevice DEF Next

(* Only calls that go on return.                                           *)
LEMMA ReturnsOnlyByResume ==
    ASSUME Placed, [Next]_vars
    PROVE  Resume \/ returned' = returned \/ returned' = NothingReturned
<1>1. Operation \/ delay => returned' = NothingReturned
    BY OperationIs, RequestIs, DelayIs DEF Placed, WaitsFirst
<1>2. Event => returned' = returned
    BY EventIs
<1> QED
    BY <1>1, <1>2 DEF Next, Handler, HandlerReturns, vars

(* What a device call that returns true has waited for.                    *)
LEMMA ReturnsDevice ==
    ASSUME Placed, DeviceWaits, ConnectionResultTrue, [Next]_vars
    PROVE  ConnectionResultTrue'
<1>1. CASE Resume
    <2>1. /\ Innermost \in Call /\ Len(calls) \in Nat \ {0}
          /\ \/ AnsweredAtOnce \/ StillWaiting \/ ResultSeen \/ TimedOut \/ DelayOver
             \/ Unprepared \/ SentNow
        BY <1>1, ResumeIs
    <2>2. CASE StillWaiting \/ DelayOver \/ SentNow
        BY <2>2 DEF StillWaiting, DelayOver, SentNow, ConnectionResultTrue, TrueMeansDone
    <2>3. CASE AnsweredAtOnce \/ ResultSeen \/ TimedOut \/ Unprepared
        <3>1. returned'.call = Innermost
            BY <2>3 DEF AnsweredAtOnce, ResultSeen, TimedOut, Unprepared, Returned
        <3>2. ASSUME Innermost.op \in {"connect", "disconnect"}, returned'.answer = "true"
              PROVE  Innermost.outcome = "done"
            <4> ~Unprepared
                BY <3>2 DEF Unprepared, Returned
            <4> Innermost \in Call
                BY <2>1
            <4>1. DeviceCall(Innermost, asyncResult["device"], bluenet)
                BY <2>1, <3>2 DEF DeviceWaits, DeviceOps, Innermost, Placed, TypeOK
            <4>2. Object(Innermost.op) = "device"
                BY <3>2 DEF Object, DeviceOps
            <4>3. asyncResult["device"] \in BleAsyncResults
                BY DEF Placed, TypeOK
            <4>4. \/ Innermost.ack = "SUCCESS"
                  \/ Innermost.ack = "IN_PROGRESS" /\ asyncResult["device"] = "Success"
                BY <2>3, <3>2, <4>1, <4>2, <4>3
                   DEF AnsweredAtOnce, ResultSeen, TimedOut, Returned, DeviceCall, BleAsyncResults
            <4> QED
                BY <3>2, <4>1, <4>4 DEF DeviceCall, Call
        <3> QED
            BY <3>1, <3>2 DEF ConnectionResultTrue, TrueMeansDone
    <2> QED
        BY <2>1, <2>2, <2>3
<1>2. CASE returned' = returned \/ returned' = NothingReturned
    BY <1>2 DEF ConnectionResultTrue, TrueMeansDone
<1> QED
    BY <1>1, <1>2, ReturnsOnlyByResume

(* Where no handler uses the device, connect and disconnect return true    *)
(* only for what was done, although events do not say which call they are  *)
(* for, and the link may go down while they wait.  Handlers may use        *)
(* characteristics meanwhile.                                              *)
THEOREM ConnectTellsTheTruth ==
    ASSUME HandlerOps \cap DeviceOps = {}
    PROVE  Spec => []ConnectionResultTrue
<1> DEFINE Inv == Placed /\ DeviceWaits /\ ConnectionResultTrue
<1>1. Init => Inv
    BY InitPlaced DEF Init, DeviceWaits, ConnectionResultTrue, TrueMeansDone
<1>2. Inv /\ [Next]_vars => Inv'
    BY StepPlaced, StepDevice, ReturnsDevice
<1>3. Inv => ConnectionResultTrue
    OBVIOUS
<1> HIDE DEF Inv
<1> QED
    BY <1>1, <1>2, <1>3, PTL DEF Spec
------------------------------------------------------------------------------
(* Operations of the characteristic.                                       *)

(* What a call of one of them waits for.  Four operations wait for one     *)
(* variable; while one is in progress bluenet has no other to end, and     *)
(* finds no characteristic, which would reset the variable.                *)
CharacteristicCall(c, result, b) ==
    /\ c.ack = "SUCCESS" => c.outcome = "done"
    /\ c.ack = "IN_PROGRESS" =>
         /\ result # "NotWaiting"
         /\ c.outcome = None => b.owner = 1 /\ result = "Waiting"
         /\ c.outcome # None => b.busy \notin CharacteristicOps \cup {"discoverService"}
         /\ c.outcome = "failed" => result # "Success"

CharacteristicWaits ==
    \A i \in DOMAIN calls : calls[i].op \in CharacteristicOps =>
        i = 1 /\ CharacteristicCall(calls[i], asyncResult["characteristic"], bluenet)

LEMMA WaitCharacteristic ==
    ASSUME Placed, CharacteristicWaits, NEW op \in {"connect", "discoverService", "delay"}, NEW c,
           WaitsFirst(op, c)
    PROVE  CharacteristicWaits'
<1>1. TypeOK /\ DOMAIN calls = 1 .. Len(calls) /\ Len(calls) \in Nat
    BY DEF Placed, TypeOK
<1>2. /\ Len(calls') = Len(calls) + 1 /\ calls' \in Seq(Call)
      /\ \A i \in 1 .. Len(calls) : calls'[i] = calls[i]
      /\ calls'[Len(calls) + 1] = c /\ c.op = op
      /\ UNCHANGED <<asyncResult, bluenet>>
    BY DEF WaitsFirst, Added
<1>3. op \notin CharacteristicOps
    BY DEF CharacteristicOps
<1> QED
    BY <1>1, <1>2, <1>3 DEF CharacteristicWaits

LEMMA RequestCharacteristic ==
    ASSUME HandlerOps \subseteq {"connect", "disconnect"}, Placed, CharacteristicWaits,
           NEW op \in Ops, Request(op)
    PROVE  CharacteristicWaits'
<1>1. calls = <<>> \/ op \in HandlerOps
    BY RequestIs DEF Placed
<1>2. TypeOK /\ Len(calls) \in Nat /\ DOMAIN calls = 1 .. Len(calls)
    BY DEF Placed, TypeOK
<1>3. PICK c : Requested(op, c)
    BY <1>2, RequestIs
<1>4. /\ Len(calls') = Len(calls) + 1 /\ calls' \in Seq(Call)
      /\ \A i \in 1 .. Len(calls) : calls'[i] = calls[i]
      /\ calls'[Len(calls) + 1] = c /\ c.op = op
    BY <1>3 DEF Requested, AnswerIs, Added
<1>5. asyncResult' = [asyncResult EXCEPT ![Object(op)] = "Waiting"]
    BY <1>2, RequestIs
<1>6. CASE op \in CharacteristicOps
    <2>1. Len(calls) = 0
        BY <1>1, <1>6 DEF CharacteristicOps
    <2>2. asyncResult'["characteristic"] = "Waiting"
        BY <1>2, <1>5, <1>6 DEF Object, TypeOK, CharacteristicOps, DeviceOps
    <2>3. /\ c.ack = "SUCCESS" => c.outcome = "done"
          /\ c.ack = "IN_PROGRESS" =>
                /\ c.outcome = None
                /\ bluenet' = [connected |-> bluenet.connected, busy |-> op,
                               owner |-> Len(calls) + 1]
        BY <1>3 DEF Requested, AnswerIs
    <2>4. c.ack = "IN_PROGRESS" => bluenet'.owner = 1
        BY <2>1, <2>3
    <2>5. CharacteristicCall(c, asyncResult'["characteristic"], bluenet')
        BY <1>4, <2>2, <2>3, <2>4 DEF CharacteristicCall, None
    <2> QED
        BY <1>4, <2>1, <2>5 DEF CharacteristicWaits
<1>7. CASE op \notin CharacteristicOps
    <2>1. asyncResult'["characteristic"] = asyncResult["characteristic"]
        BY <1>2, <1>5, <1>7 DEF Object, TypeOK, Ops
    <2>2. ASSUME NEW i \in 1 .. Len(calls), calls[i].op \in CharacteristicOps
          PROVE  i = 1 /\ CharacteristicCall(calls[i], asyncResult'["characteristic"], bluenet')
        <3>1. i = 1 /\ CharacteristicCall(calls[1], asyncResult["characteristic"], bluenet)
            BY <1>2, <2>2 DEF CharacteristicWaits
        <3>2. CASE bluenet' = bluenet
            BY <2>1, <3>1, <3>2 DEF CharacteristicCall
        <3>3. CASE /\ bluenet.busy = None
                   /\ bluenet' = [connected |-> bluenet.connected, busy |-> op,
                                  owner |-> Len(calls) + 1]
            <4>1. bluenet.owner # 1
                BY <2>2, <3>1, <3>3 DEF Placed, CharacteristicOps, None
            <4>2. calls # <<>>
                BY <2>2
            <4>3. op \in {"connect", "disconnect"}
                BY <1>1, <4>2
            <4> QED
                BY <2>1, <3>1, <3>3, <4>1, <4>3 DEF CharacteristicCall, CharacteristicOps
        <3> QED
            BY <1>3, <3>1, <3>2, <3>3 DEF Requested, AnswerIs
    <2> QED
        BY <1>2, <1>4, <1>7, <2>2 DEF CharacteristicWaits
<1> QED
    BY <1>6, <1>7

LEMMA ResumeCharacteristic ==
    ASSUME HandlerOps \subseteq {"connect", "disconnect"}, Placed, CharacteristicWaits, Resume
    PROVE  CharacteristicWaits'
<1>1. /\ Innermost \in Call /\ Len(calls) \in Nat \ {0}
      /\ \/ AnsweredAtOnce \/ StillWaiting \/ ResultSeen \/ TimedOut \/ DelayOver
         \/ Unprepared \/ SentNow
    BY ResumeIs
<1>2. TypeOK /\ DOMAIN calls = 1 .. Len(calls)
    BY DEF Placed, TypeOK
<1>3. CASE StillWaiting
    <2>1. PICK c : /\ Replaced(Len(calls), c)
                   /\ c.op = Innermost.op
                   /\ c.ack = Innermost.ack
                   /\ c.outcome = Innermost.outcome
        BY <1>3 DEF StillWaiting, GoesOn
    <2>2. UNCHANGED <<asyncResult, bluenet>>
        BY <1>3 DEF StillWaiting
    <2>3. DOMAIN calls' = 1 .. Len(calls) /\ Len(calls) \in 1 .. Len(calls)
        BY <1>1, <2>1 DEF Replaced
    <2>4. ASSUME NEW i \in 1 .. Len(calls)
          PROVE  /\ calls'[i].op = calls[i].op /\ calls'[i].ack = calls[i].ack
                 /\ calls'[i].outcome = calls[i].outcome
        BY <2>1 DEF Replaced, Innermost
    <2> QED
        BY <1>2, <2>2, <2>3, <2>4 DEF CharacteristicWaits, CharacteristicCall
<1>4. CASE AnsweredAtOnce \/ ResultSeen \/ TimedOut \/ DelayOver \/ Unprepared
    <2>0. Removed
        BY <1>4 DEF AnsweredAtOnce, ResultSeen, TimedOut, DelayOver, Unprepared, Returned
    <2>1. \/ bluenet' = bluenet
          \/ bluenet' = [connected |-> bluenet.connected, busy |-> bluenet.busy,
                         owner |-> IF bluenet.owner = Len(calls) THEN 0 ELSE bluenet.owner]
        BY <1>4 DEF AnsweredAtOnce, ResultSeen, TimedOut, DelayOver, Unprepared, Returned
    <2>2. ASSUME NEW i \in 1 .. Len(calls) - 1, calls[i].op \in CharacteristicOps
          PROVE  i = 1 /\ CharacteristicCall(calls[i], asyncResult'["characteristic"], bluenet')
        <3>1. /\ i = 1 /\ Len(calls) > 1
              /\ CharacteristicCall(calls[1], asyncResult["characteristic"], bluenet)
            BY <1>1, <1>2, <2>2 DEF CharacteristicWaits
        <3>2. Innermost.op \notin CharacteristicOps
            BY <1>1, <1>2, <3>1 DEF CharacteristicWaits, Innermost
        <3>3. asyncResult'["characteristic"] = asyncResult["characteristic"]
            <4>1. CASE DelayOver \/ TimedOut \/ Unprepared
                BY <4>1 DEF DelayOver, TimedOut, Unprepared
            <4>2. CASE AnsweredAtOnce \/ ResultSeen
                <5>1. Innermost.op \in Ops
                    <6>1. Innermost.op \in Ops \cup {"delay"}
                        BY <1>1 DEF Call
                    <6>2. Innermost.op # "delay"
                        BY <4>2 DEF AnsweredAtOnce, ResultSeen
                    <6> QED
                        BY <6>1, <6>2
                <5>2. Object(Innermost.op) = "device"
                    BY <3>2, <5>1 DEF Object, Ops
                <5> QED
                    BY <1>2, <4>2, <5>2 DEF AnsweredAtOnce, ResultSeen, TypeOK
            <4> QED
                BY <1>4, <4>1, <4>2
        <3>4. /\ bluenet'.busy = bluenet.busy
              /\ bluenet.owner = 1 => bluenet'.owner = 1
            BY <2>1, <3>1
        <3> QED
            BY <3>1, <3>3, <3>4 DEF CharacteristicCall
    <2> QED
        BY <1>1, <2>0, <2>2 DEF CharacteristicWaits, Removed
<1>5. CASE SentNow
    <2>1. PICK c : SentLate(c)
        BY <1>5 DEF SentNow
    <2>2. Innermost.op \in {"connect", "discoverService"} /\ Innermost.ack = None
        BY <1>5 DEF SentNow
    <2>3. Innermost.op \notin CharacteristicOps
        BY <2>2 DEF CharacteristicOps
    <2>4. asyncResult'["characteristic"] = asyncResult["characteristic"]
        BY <1>2, <1>5 DEF SentNow, TypeOK
    <2>5. /\ calls' \in Seq(Call) /\ Len(calls') = Len(calls)
          /\ \A i \in 1 .. Len(calls) : i # Len(calls) => calls'[i] = calls[i]
          /\ calls'[Len(calls)] = c /\ c.op = Innermost.op
          /\ \/ bluenet' = bluenet
             \/ /\ bluenet.busy = None
                /\ bluenet' = [connected |-> bluenet.connected, busy |-> Innermost.op,
                               owner |-> Len(calls)]
        BY <2>1 DEF SentLate, AnswerIs, Replaced
    <2>6. ASSUME NEW i \in 1 .. Len(calls), i # Len(calls), calls[i].op \in CharacteristicOps
          PROVE  i = 1 /\ CharacteristicCall(calls[i], asyncResult'["characteristic"], bluenet')
        <3>1. /\ i = 1 /\ Len(calls) > 1
              /\ CharacteristicCall(calls[1], asyncResult["characteristic"], bluenet)
            <4>1. Len(calls) \in Nat \ {0} /\ DOMAIN calls = 1 .. Len(calls)
                BY <1>1, <1>2
            <4>2. i = 1 /\ CharacteristicCall(calls[1], asyncResult["characteristic"], bluenet)
                BY <2>6, <4>1 DEF CharacteristicWaits
            <4> QED
                BY <2>6, <4>1, <4>2
        <3>2. Innermost.op = "connect"
            BY <1>1, <1>2, <2>2, <3>1 DEF Placed, Innermost
        <3>3. CASE bluenet' = bluenet
            BY <2>4, <3>1, <3>3
        <3>4. CASE /\ bluenet.busy = None
                   /\ bluenet' = [connected |-> bluenet.connected, busy |-> Innermost.op,
                                  owner |-> Len(calls)]
            <4>1. bluenet.owner # 1
                BY <2>6, <3>1, <3>4 DEF Placed, CharacteristicOps, None
            <4> QED
                BY <2>4, <3>1, <3>2, <3>4, <4>1 DEF CharacteristicCall, CharacteristicOps
        <3> QED
            BY <2>5, <3>3, <3>4
    <2> QED
        BY <1>1, <2>3, <2>5, <2>6 DEF CharacteristicWaits
<1> QED
    BY <1>1, <1>3, <1>4, <1>5

(* An event that ends another operation than one of the characteristic.    *)
LEMMA EndOther ==
    ASSUME Placed, CharacteristicWaits, calls # <<>>, bluenet.busy \notin CharacteristicOps,
           NEW outcome, NEW link, NEW delivered, Ended(outcome, link, delivered),
           asyncResult'["characteristic"] = asyncResult["characteristic"]
    PROVE  CharacteristicWaits'
<1>1. /\ Len(calls) \in Nat \ {0} /\ Len(calls') = Len(calls)
      /\ \A i \in 1 .. Len(calls) : calls'[i].op = calls[i].op
      /\ \A i \in 1 .. Len(calls) : i # bluenet.owner => calls'[i] = calls[i]
      /\ bluenet.owner = 1 => calls[1].op = bluenet.busy
      /\ bluenet'.busy = None /\ bluenet'.owner = 0
    BY EndedFirst
<1>2. DOMAIN calls = 1 .. Len(calls) /\ DOMAIN calls' = 1 .. Len(calls)
    BY <1>1 DEF Placed, TypeOK, Ended, Replaced
<1>3. ASSUME NEW i \in 1 .. Len(calls), calls'[i].op \in CharacteristicOps
      PROVE  i = 1 /\ CharacteristicCall(calls'[i], asyncResult'["characteristic"], bluenet')
    <2>1. /\ i = 1 /\ calls[1].op \in CharacteristicOps
          /\ CharacteristicCall(calls[1], asyncResult["characteristic"], bluenet)
        BY <1>1, <1>2, <1>3 DEF CharacteristicWaits
    <2>2. bluenet.owner # 1 /\ calls'[1] = calls[1]
        BY <1>1, <2>1
    <2> QED
        BY <1>1, <2>1, <2>2 DEF CharacteristicCall, CharacteristicOps, None
<1> QED
    BY <1>2, <1>3 DEF CharacteristicWaits

(* An event that ends an operation of the characteristic.                  *)
LEMMA EndCharacteristic ==
    ASSUME Placed, CharacteristicWaits, calls # <<>>, bluenet.busy \in CharacteristicOps,
           NEW outcome \in {"done", "failed"}, NEW link, NEW delivered,
           Ended(outcome, link, delivered),
           asyncResult'["characteristic"] # asyncResult["characteristic"] =>
               asyncResult'["characteristic"] = (IF outcome = "done" THEN "Success" ELSE "Failure")
    PROVE  CharacteristicWaits'
<1>1. /\ Len(calls) \in Nat \ {0} /\ Len(calls') = Len(calls)
      /\ \A i \in 1 .. Len(calls) : calls'[i].op = calls[i].op
      /\ \A i \in 1 .. Len(calls) : i # bluenet.owner => calls'[i] = calls[i]
      /\ calls'[1].ack = calls[1].ack
      /\ bluenet.owner = 1 => /\ calls[1].ack = "IN_PROGRESS"
                              /\ calls'[1].outcome = outcome
      /\ bluenet'.busy = None /\ bluenet'.owner = 0
    BY EndedFirst
<1>2. DOMAIN calls = 1 .. Len(calls) /\ DOMAIN calls' = 1 .. Len(calls)
    BY <1>1 DEF Placed, TypeOK, Ended, Replaced
<1>3. ASSUME NEW i \in 1 .. Len(calls), calls'[i].op \in CharacteristicOps
      PROVE  i = 1 /\ CharacteristicCall(calls'[i], asyncResult'["characteristic"], bluenet')
    <2>1. /\ i = 1 /\ calls[1].op \in CharacteristicOps
          /\ CharacteristicCall(calls[1], asyncResult["characteristic"], bluenet)
        BY <1>1, <1>2, <1>3 DEF CharacteristicWaits
    <2>2. CASE bluenet.owner = 1
        <3>1. calls[1].outcome = None /\ asyncResult["characteristic"] = "Waiting"
            BY <1>1, <2>1, <2>2 DEF CharacteristicCall
        <3> QED
            BY <1>1, <2>1, <2>2, <3>1 DEF CharacteristicCall, CharacteristicOps, None
    <2>3. CASE bluenet.owner # 1
        <3>1. calls'[1] = calls[1] /\ calls[1].ack # "IN_PROGRESS"
            BY <1>1, <2>1, <2>3 DEF CharacteristicCall
        <3> QED
            BY <2>1, <3>1 DEF CharacteristicCall
    <2> QED
        BY <2>2, <2>3
<1> QED
    BY <1>2, <1>3 DEF CharacteristicWaits

LEMMA EventCharacteristic ==
    ASSUME Placed, CharacteristicWaits, Event
    PROVE  CharacteristicWaits'
<1>1. TypeOK /\ bluenet.connected \in BOOLEAN /\ DOMAIN calls = 1 .. Len(calls)
    BY DEF Placed, TypeOK
<1>2. calls # <<>>
    BY DEF Event, onConnect, onDisconnect, onDiscover, onDiscoverDone, onCharacteristicEvent,
           Interrupted
<1>3. ASSUME NEW outcome \in {"done", "failed"}, NEW link \in BOOLEAN, NEW delivered \in BOOLEAN,
             Ends(outcome, link, delivered)
      PROVE  Ended(outcome, link, delivered)
    BY <1>1, <1>3, EndsIs
<1>4. ASSUME Lost
      PROVE  asyncResult'["characteristic"] = asyncResult["characteristic"]
    BY <1>4 DEF Lost
<1>5. ASSUME NEW r, SetResult("device", r)
      PROVE  asyncResult'["characteristic"] = asyncResult["characteristic"]
    BY <1>1, <1>5 DEF SetResult, TypeOK
<1>6. ASSUME NEW r, SetResult("characteristic", r)
      PROVE  asyncResult'["characteristic"] = r
    BY <1>1, <1>6 DEF SetResult, TypeOK
<1>7. CASE onConnect \/ onDiscoverDone
    <2>1. bluenet.busy \notin CharacteristicOps
        BY <1>7 DEF onConnect, onDiscoverDone, CharacteristicOps
    <2>2. asyncResult'["characteristic"] = asyncResult["characteristic"]
        BY <1>4, <1>5, <1>7 DEF onConnect, onDiscoverDone
    <2>3. \E outcome \in {"done", "failed"}, link \in BOOLEAN, delivered \in BOOLEAN :
             Ends(outcome, link, delivered)
        BY <1>1, <1>7 DEF onConnect, onDiscoverDone
    <2> QED
        BY <1>2, <1>3, <2>1, <2>2, <2>3, EndOther
<1>8. CASE onDisconnect
    <2>1. asyncResult'["characteristic"] = asyncResult["characteristic"]
        BY <1>4, <1>5, <1>8 DEF onDisconnect, Disconnected
    <2>2. CASE /\ bluenet.busy = "disconnect"
               /\ Ends("done", FALSE, TRUE) \/ Ends("done", FALSE, FALSE)
        <3>1. bluenet.busy \notin CharacteristicOps
            BY <2>2 DEF CharacteristicOps
        <3> QED
            BY <1>2, <1>3, <2>1, <2>2, <3>1, EndOther
    <2>3. CASE bluenet' = [bluenet EXCEPT !.connected = FALSE] /\ UNCHANGED calls
        <3>1. bluenet'.busy = bluenet.busy /\ bluenet'.owner = bluenet.owner
            BY <1>1, <2>3 DEF TypeOK
        <3> QED
            BY <2>1, <2>3, <3>1 DEF CharacteristicWaits, CharacteristicCall
    <2> QED
        BY <1>8, <2>2, <2>3 DEF onDisconnect
<1>9. CASE onDiscover
    <2>1. bluenet.busy = "discoverService" /\ UNCHANGED <<calls, bluenet>>
        BY <1>9 DEF onDiscover
    <2>2. ASSUME NEW i \in DOMAIN calls, calls[i].op \in CharacteristicOps
          PROVE  /\ i = 1 /\ calls[i].ack # "IN_PROGRESS"
                 /\ CharacteristicCall(calls[i], asyncResult["characteristic"], bluenet)
        <3>1. i = 1 /\ CharacteristicCall(calls[1], asyncResult["characteristic"], bluenet)
            BY <2>2 DEF CharacteristicWaits
        <3>2. bluenet.owner = 1 => calls[1].op = bluenet.busy
            BY DEF Placed
        <3> QED
            BY <2>1, <2>2, <3>1, <3>2 DEF CharacteristicCall, CharacteristicOps
    <2> QED
        BY <2>1, <2>2 DEF CharacteristicWaits, CharacteristicCall
<1>10. CASE onCharacteristicEvent
    <2>1. bluenet.busy \in CharacteristicOps
        BY <1>10 DEF onCharacteristicEvent
    <2>2. \/ Ended("done", TRUE, TRUE) /\ asyncResult'["characteristic"] = "Success"
          \/ Ended("failed", bluenet.connected, TRUE) /\ asyncResult'["characteristic"] = "Failure"
          \/ /\ Ended("done", TRUE, FALSE)
             /\ asyncResult'["characteristic"] = asyncResult["characteristic"]
          \/ /\ Ended("failed", bluenet.connected, FALSE)
             /\ asyncResult'["characteristic"] = asyncResult["characteristic"]
        BY <1>1, <1>3, <1>4, <1>6, <1>10 DEF onCharacteristicEvent
    <2> QED
        BY <1>2, <2>1, <2>2, EndCharacteristic
<1> QED
    BY <1>7, <1>8, <1>9, <1>10 DEF Event

LEMMA StepCharacteristic ==
    ASSUME HandlerOps \subseteq {"connect", "disconnect"}
    PROVE  Placed /\ CharacteristicWaits /\ [Next]_vars => CharacteristicWaits'
<1> SUFFICES ASSUME Placed, CharacteristicWaits, [Next]_vars
             PROVE  CharacteristicWaits'
    OBVIOUS
<1>1. CASE delay \/ Operation
    BY <1>1, OperationIs, DelayIs, RequestCharacteristic, WaitCharacteristic DEF Placed
<1>2. CASE Handler \/ HandlerReturns \/ UNCHANGED vars
    BY <1>2 DEF Handler, HandlerReturns, vars, CharacteristicWaits
<1> QED
    BY <1>1, <1>2, ResumeCharacteristic, EventCharacteristic DEF Next

LEMMA ReturnsCharacteristic ==
    ASSUME Placed, CharacteristicWaits, CharacteristicResultTrue, [Next]_vars
    PROVE  CharacteristicResultTrue'
<1>1. CASE Resume
    <2>1. /\ Innermost \in Call /\ Len(calls) \in Nat \ {0}
          /\ \/ AnsweredAtOnce \/ StillWaiting \/ ResultSeen \/ TimedOut \/ DelayOver
             \/ Unprepared \/ SentNow
        BY <1>1, ResumeIs
    <2>2. CASE StillWaiting \/ DelayOver \/ SentNow
        BY <2>2 DEF StillWaiting, DelayOver, SentNow, CharacteristicResultTrue, TrueMeansDone
    <2>3. CASE AnsweredAtOnce \/ ResultSeen \/ TimedOut \/ Unprepared
        <3>1. returned'.call = Innermost
            BY <2>3 DEF AnsweredAtOnce, ResultSeen, TimedOut, Unprepared, Returned
        <3>2. ASSUME Innermost.op \in CharacteristicOps, returned'.answer = "true"
              PROVE  Innermost.outcome = "done"
            <4> ~Unprepared
                BY <3>2 DEF Unprepared, Returned
            <4> Innermost \in Call
                BY <2>1
            <4>1. CharacteristicCall(Innermost, asyncResult["characteristic"], bluenet)
                BY <2>1, <3>2 DEF CharacteristicWaits, Innermost, Placed, TypeOK
            <4>2. Object(Innermost.op) = "characteristic"
                BY <3>2 DEF Object, CharacteristicOps, DeviceOps
            <4>3. asyncResult["characteristic"] \in BleAsyncResults
                BY DEF Placed, TypeOK
            <4>4. \/ Innermost.ack = "SUCCESS"
                  \/ Innermost.ack = "IN_PROGRESS" /\ asyncResult["characteristic"] = "Success"
                BY <2>3, <3>2, <4>1, <4>2, <4>3
                   DEF AnsweredAtOnce, ResultSeen, TimedOut, Returned, CharacteristicCall,
                       BleAsyncResults
            <4> QED
                BY <4>1, <4>4 DEF CharacteristicCall, Call
        <3> QED
            BY <3>1, <3>2 DEF CharacteristicResultTrue, TrueMeansDone
    <2> QED
        BY <2>1, <2>2, <2>3
<1>2. CASE returned' = returned \/ returned' = NothingReturned
    BY <1>2 DEF CharacteristicResultTrue, TrueMeansDone
<1> QED
    BY <1>1, <1>2, ReturnsOnlyByResume

(* Where handlers neither use a characteristic nor discover any, a         *)
(* characteristic's operations return true only for what was done,         *)
(* although four of them wait for one variable.                            *)
THEOREM CharacteristicTellsTheTruth ==
    ASSUME HandlerOps \subseteq {"connect", "disconnect"}
    PROVE  Spec => []CharacteristicResultTrue
<1> DEFINE Inv == Placed /\ CharacteristicWaits /\ CharacteristicResultTrue
<1>1. Init => Inv
    BY InitPlaced DEF Init, CharacteristicWaits, CharacteristicResultTrue, TrueMeansDone
<1>2. Inv /\ [Next]_vars => Inv'
    BY StepPlaced, StepCharacteristic, ReturnsCharacteristic
<1>3. Inv => CharacteristicResultTrue
    OBVIOUS
<1> HIDE DEF Inv
<1> QED
    BY <1>1, <1>2, <1>3, PTL DEF Spec
------------------------------------------------------------------------------
(* Results that are noticed.                                               *)

(* A call whose event came in has waited no round since, and finds the     *)
(* result when it looks.                                                   *)
NoticedCall(c, results) ==
    c.told >= 0 => c.told = c.waited /\ results[Object(c.op)] # "Waiting"

Noticing ==
    /\ \A i \in DOMAIN calls : NoticedCall(calls[i], asyncResult)
    /\ EarlyResultNoticed

LEMMA WaitNoticing ==
    ASSUME Placed, Noticing, NEW op, NEW c, WaitsFirst(op, c)
    PROVE  Noticing'
<1>1. TypeOK /\ DOMAIN calls = 1 .. Len(calls) /\ Len(calls) \in Nat
    BY DEF Placed, TypeOK
<1>2. /\ Added(c) /\ c.told = -1
      /\ UNCHANGED asyncResult /\ returned' = NothingReturned
    BY DEF WaitsFirst
<1>3. NoticedCall(c, asyncResult)
    BY <1>2 DEF NoticedCall
<1>4. \A i \in DOMAIN calls' : NoticedCall(calls'[i], asyncResult')
    BY <1>1, <1>2, <1>3 DEF Added, Noticing
<1> QED
    BY <1>2, <1>4 DEF Noticing, EarlyResultNoticed

LEMMA RequestNoticing ==
    ASSUME HandlerOps = {}, Placed, Noticing, NEW op \in Ops, Request(op)
    PROVE  Noticing'
<1>2. PICK c : Requested(op, c)
    BY RequestIs DEF Placed
<1>3. calls = <<>> /\ returned' = NothingReturned
    BY RequestIs DEF Placed
<1>4. /\ Len(calls) = 0 /\ Len(calls') = 1 /\ calls' \in Seq(Call)
      /\ calls'[1] = c /\ c.told = -1
    BY <1>2, <1>3 DEF Requested, AnswerIs, Added
<1> QED
    BY <1>3, <1>4 DEF Noticing, NoticedCall, EarlyResultNoticed

LEMMA ResumeNoticing ==
    ASSUME HandlerOps = {}, Placed, Noticing, Resume
    PROVE  Noticing'
<1>1. /\ Innermost \in Call /\ Len(calls) \in Nat \ {0}
      /\ \/ AnsweredAtOnce \/ StillWaiting \/ ResultSeen \/ TimedOut \/ DelayOver
         \/ Unprepared \/ SentNow
    BY ResumeIs
<1>2. TypeOK /\ DOMAIN calls = 1 .. Len(calls)
    BY DEF Placed, TypeOK
<1>3. NoticedCall(Innermost, asyncResult)
    BY <1>1, <1>2 DEF Noticing, Innermost
<1>4. CASE StillWaiting
    <2>1. PICK c : /\ Replaced(Len(calls), c)
                   /\ c.op = Innermost.op
                   /\ c.told = Innermost.told
        BY <1>4 DEF StillWaiting, GoesOn
    <2>2. UNCHANGED <<asyncResult, returned>> /\ ~(Innermost.told >= 0)
        BY <1>3, <1>4 DEF StillWaiting, NoticedCall
    <2>3. NoticedCall(c, asyncResult)
        BY <2>1, <2>2 DEF NoticedCall
    <2>4. \A i \in DOMAIN calls' : NoticedCall(calls'[i], asyncResult')
        <3>1. DOMAIN calls' = 1 .. Len(calls)
            BY <1>1, <2>1 DEF Replaced
        <3>2. ASSUME NEW i \in 1 .. Len(calls)
              PROVE  NoticedCall(calls'[i], asyncResult)
            BY <1>2, <2>1, <2>3, <3>2 DEF Noticing, Replaced
        <3> QED
            BY <2>2, <3>1, <3>2
    <2> QED
        BY <2>2, <2>4 DEF Noticing, EarlyResultNoticed
<1>5. CASE AnsweredAtOnce \/ ResultSeen \/ TimedOut \/ DelayOver \/ Unprepared
    <2>0. Removed
        BY <1>5 DEF AnsweredAtOnce, ResultSeen, TimedOut, DelayOver, Unprepared, Returned
    <2>1. ASSUME NEW o, asyncResult[o] # "Waiting", o \in {"device", "characteristic"}
          PROVE  asyncResult'[o] # "Waiting"
        BY <1>2, <1>5, <2>1
           DEF AnsweredAtOnce, ResultSeen, TimedOut, DelayOver, Unprepared, TypeOK
    <2>2. \A op : Object(op) \in {"device", "characteristic"}
        BY DEF Object
    <2>3. \A i \in DOMAIN calls' : NoticedCall(calls'[i], asyncResult')
        <3>1. ASSUME NEW c, NoticedCall(c, asyncResult)
              PROVE  NoticedCall(c, asyncResult')
            BY <2>1, <2>2, <3>1 DEF NoticedCall
        <3>2. DOMAIN calls' = 1 .. Len(calls) - 1
            BY <1>1, <2>0 DEF Removed
        <3> QED
            BY <1>1, <1>2, <2>0, <3>1, <3>2 DEF Noticing, Removed
    <2>4. EarlyResultNoticed'
        <3>1. CASE returned' = returned
            BY <3>1 DEF Noticing, EarlyResultNoticed
        <3>2. CASE returned'.call = Innermost
            BY <1>3, <3>2 DEF EarlyResultNoticed, NoticedCall
        <3> QED
            BY <1>5, <3>1, <3>2
               DEF AnsweredAtOnce, ResultSeen, TimedOut, DelayOver, Unprepared, Returned
    <2> QED
        BY <2>3, <2>4 DEF Noticing
<1>6. CASE SentNow
    <2>1. PICK c : SentLate(c)
        BY <1>6 DEF SentNow
    <2>2. Len(calls) = 1
        BY <1>1, <1>2, <1>6 DEF SentNow, Placed, Innermost
    <2>3. /\ calls' \in Seq(Call) /\ Len(calls') = 1 /\ calls'[1] = c
          /\ c.told = -1 /\ returned' = NothingReturned
        BY <1>6, <2>1, <2>2 DEF SentLate, AnswerIs, Replaced, SentNow
    <2> QED
        BY <2>3 DEF Noticing, NoticedCall, EarlyResultNoticed
<1> QED
    BY <1>1, <1>4, <1>5, <1>6

(* An event that is delivered leaves a result where its call looks.        *)
LEMMA EndNoticing ==
    ASSUME Placed, \A i \in DOMAIN calls : NoticedCall(calls[i], asyncResult),
           NEW outcome, NEW link, NEW delivered \in BOOLEAN, Ended(outcome, link, delivered),
           \A o \in {"device", "characteristic"} :
               asyncResult[o] # "Waiting" => asyncResult'[o] # "Waiting",
           delivered => asyncResult'[Object(bluenet.busy)] # "Waiting"
    PROVE  \A i \in DOMAIN calls' : NoticedCall(calls'[i], asyncResult')
<1>1. TypeOK /\ DOMAIN calls = 1 .. Len(calls)
    BY DEF Placed, TypeOK
<1>2. ASSUME NEW c, NoticedCall(c, asyncResult)
      PROVE  NoticedCall(c, asyncResult')
    BY <1>2 DEF NoticedCall, Object
<1>3. CASE bluenet.owner = 0
    BY <1>2, <1>3 DEF Ended
<1>4. CASE bluenet.owner # 0
    <2> DEFINE k == bluenet.owner
    <2>1. PICK c : /\ Replaced(k, c)
                   /\ c.op = calls[k].op
                   /\ c.told = IF delivered THEN c.waited ELSE -1
        BY <1>4 DEF Ended
    <2>2. c.op = bluenet.busy
        BY <1>4, <2>1 DEF Placed
    <2>3. NoticedCall(c, asyncResult')
        BY <2>1, <2>2 DEF NoticedCall
    <2> QED
        BY <1>1, <1>2, <2>1, <2>3 DEF Replaced
<1> QED
    BY <1>3, <1>4

LEMMA EventNoticing ==
    ASSUME Placed, Noticing, Event
    PROVE  Noticing'
<1>1. TypeOK /\ bluenet.connected \in BOOLEAN
    BY DEF Placed, TypeOK
<1>2. returned' = returned
    BY EventIs
<1>3. ASSUME NEW outcome \in {"done", "failed"}, NEW link \in BOOLEAN, NEW delivered \in BOOLEAN,
             Ends(outcome, link, delivered)
      PROVE  Ended(outcome, link, delivered)
    BY <1>1, <1>3, EndsIs
<1>4. \A o \in {"device", "characteristic"} :
          asyncResult[o] # "Waiting" => asyncResult'[o] # "Waiting"
    BY <1>1 DEF Event, onConnect, onDisconnect, onDiscover, onDiscoverDone, onCharacteristicEvent,
                Lost, Disconnected, SetResult, TypeOK
<1>5. \/ UNCHANGED calls
      \/ \E outcome \in {"done", "failed"}, link \in BOOLEAN, delivered \in BOOLEAN :
            /\ Ends(outcome, link, delivered)
            /\ delivered => asyncResult'[Object(bluenet.busy)] # "Waiting"
    <2>1. CASE onConnect \/ onDiscoverDone
        <3>1. Object(bluenet.busy) = "device"
            BY <2>1 DEF onConnect, onDiscoverDone, Object, DeviceOps
        <3> QED
            BY <1>1, <2>1, <3>1 DEF onConnect, onDiscoverDone, SetResult, TypeOK
    <2>2. CASE onDisconnect
        <3>1. bluenet.busy = "disconnect" => Object(bluenet.busy) = "device"
            BY DEF Object, DeviceOps
        <3> QED
            BY <1>1, <2>2, <3>1 DEF onDisconnect, Disconnected, SetResult, TypeOK
    <2>3. CASE onDiscover
        BY <2>3 DEF onDiscover
    <2>4. CASE onCharacteristicEvent
        <3>1. Object(bluenet.busy) = "characteristic"
            BY <2>4 DEF onCharacteristicEvent, Object, DeviceOps, CharacteristicOps
        <3> QED
            BY <1>1, <2>4, <3>1 DEF onCharacteristicEvent, SetResult, TypeOK
    <2> QED
        BY <2>1, <2>2, <2>3, <2>4 DEF Event
<1>6. \A i \in DOMAIN calls' : NoticedCall(calls'[i], asyncResult')
    <2>1. CASE UNCHANGED calls
        BY <1>4, <2>1 DEF Noticing, NoticedCall, Object
    <2>2. CASE \E outcome \in {"done", "failed"}, link \in BOOLEAN, delivered \in BOOLEAN :
                  /\ Ends(outcome, link, delivered)
                  /\ delivered => asyncResult'[Object(bluenet.busy)] # "Waiting"
        BY <1>3, <1>4, <2>2, EndNoticing DEF Noticing
    <2> QED
        BY <1>5, <2>1, <2>2
<1> QED
    BY <1>2, <1>6 DEF Noticing, EarlyResultNoticed

LEMMA StepNoticing ==
    ASSUME HandlerOps = {}
    PROVE  Placed /\ Noticing /\ [Next]_vars => Noticing'
<1> SUFFICES ASSUME Placed, Noticing, [Next]_vars
             PROVE  Noticing'
    OBVIOUS
<1>1. CASE delay \/ Operation
    BY <1>1, OperationIs, DelayIs, RequestNoticing, WaitNoticing DEF Placed
<1>2. CASE Handler \/ HandlerReturns \/ UNCHANGED vars
    BY <1>2 DEF Handler, HandlerReturns, vars, Noticing, EarlyResultNoticed
<1> QED
    BY <1>1, <1>2, ResumeNoticing, EventNoticing DEF Next

(* Where handlers call none of these operations, no call times out over a  *)
(* result that came in before its last round, also when it came in before  *)
(* bluenet answered the request.                                           *)
THEOREM ResultsAreNoticed ==
    ASSUME HandlerOps = {}
    PROVE  Spec => []EarlyResultNoticed
<1> DEFINE Inv == Placed /\ Noticing
<1>1. Init => Inv
    BY InitPlaced DEF Init, Noticing, EarlyResultNoticed
<1>2. Inv /\ [Next]_vars => Inv'
    BY StepPlaced, StepNoticing
<1>3. Inv => EarlyResultNoticed
    BY DEF Noticing
<1> HIDE DEF Inv
<1> QED
    BY <1>1, <1>2, <1>3, PTL DEF Spec
==============================================================================
