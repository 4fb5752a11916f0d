----------------------------- MODULE MicroappIpc -----------------------------
(***************************************************************************)
(* The control flow between bluenet (the firmware) and a microapp: two     *)
(* coroutines that share one pair of I/O buffers.                          *)
(*                                                                         *)
(*   microapp.c   sendMessage, checkRamData, handleBluenetInterrupt and    *)
(*                the stack of saved buffers                               *)
(*   main.c       the setup / loop driver                                  *)
(*   Arduino.c    delay; every other library request has the same shape    *)
(*   bluenet      external: modelled from CONTROL_FLOW.md and from what    *)
(*                microapp.c expects of it                                 *)
(*                                                                         *)
(* Only one side runs at a time.  The microapp runs until it calls         *)
(* bluenet's SIGNAL callback, which suspends it in the middle of a         *)
(* sendMessage activation; bluenet resumes it in that activation, where    *)
(* handleBluenetInterrupt looks at the incoming ack.  A nested interrupt   *)
(* is therefore a sendMessage activation on top of another one.            *)
(***************************************************************************)
EXTENDS Integers, Sequences

CONSTANTS
    Requests,              \* requests user code may write in the outgoing buffer
    Interrupts,            \* interrupts bluenet may generate
    Isrs,                  \* those whose handler was set with attachInterrupt
    HandlerResults,        \* acks a handler of the library's own type returns
    MAX_INTERRUPT_DEPTH,   \* slots of the stack of saved buffers
    MaxCalls,              \* soft yields bluenet grants in a row
    MaxInterruptsPerTick,  \* interrupts bluenet passes on between two ticks
    MaxFrames              \* bound of the model: bluenet stops interrupting there

(* CS_MICROAPP_SDK_ACK_*.  Bluenet treats every code not named here as it  *)
(* treats "SUCCESS": the interrupt has been handled.                       *)
Acks == {"NO_REQUEST", "REQUEST", "IN_PROGRESS", "ERR_BUSY", "SUCCESS"}

(* CS_MICROAPP_SDK_YIELD_*: the three messages that give up the processor. *)
Yields == {"YIELD_SETUP", "YIELD_LOOP", "YIELD_ASYNC"}

None == "none"
Continue == "CONTINUE"
NoSlot == -1

Messages  == Requests \cup Yields
Incoming  == Interrupts \cup {Continue}
Slots     == 0 .. MAX_INTERRUPT_DEPTH - 1

ASSUME DepthAssumption == MAX_INTERRUPT_DEPTH \in Nat \ {0}
ASSUME BluenetAssumption ==
    MaxCalls \in Nat \ {0} /\ MaxInterruptsPerTick \in Nat /\ MaxFrames \in Nat
ASSUME MessageAssumption ==
    /\ Requests \cap (Yields \cup {None}) = {}
    /\ Interrupts \cap {Continue, None} = {}
    /\ Isrs \subseteq Interrupts
    /\ HandlerResults \subseteq Acks \ {"NO_REQUEST", "REQUEST", "IN_PROGRESS"}

VARIABLES
    mode,        \* who runs, and where: see Modes
    ram,         \* what the first checkRamData finds: see RamStates
    ipcValid,    \* the flag of that name
    phase,       \* dummy_main runs setup() or loop()
    b2m,         \* incoming shared buffer: bluenet -> microapp
    m2b,         \* outgoing shared buffer: microapp -> bluenet
    stack,       \* saved copies of both buffers, by slot
    frames,      \* suspended sendMessage activations, the innermost last
    calls,       \* bluenet: soft yields since it last took the initiative
    irqs,        \* bluenet: interrupts generated since the last tick
    irqAllowed   \* bluenet: it believes the microapp has an empty slot

shared  == <<b2m, m2b>>
bluenet == <<calls, irqs, irqAllowed>>
vars    == <<mode, ram, ipcValid, phase, b2m, m2b, stack, frames, bluenet>>

Modes ==
    {"user",        \* setup(), loop() or a handler
     "signalled",   \* the SIGNAL callback: bluenet looks at the buffers
     "idle",        \* bluenet does other things, the microapp is suspended
     "resumed",     \* handleBluenetInterrupt at the innermost activation
     "returning",   \* it returned: the innermost sendMessage returns
     "abandoned"}   \* signalled, but bluenet was never given the buffers

RamStates ==
    {"invalid",     \* getRamData or one of the checks after it fails
     "refuses",     \* valid, but the UPDATE_IO_BUFFER callback fails
     "ready"}       \* valid, and bluenet takes the buffers

(* A payload.  served is no field of it: it counts how often bluenet has   *)
(* handled the message since user code wrote it.  A request has its        *)
(* header.ack set by user code first; a yield does not (delay, signalEnd), *)
(* and nobody reads the answer to one.  room abstracts the field           *)
(* emptyInterruptSlots of a yield to whether it is positive.               *)
Outgoing == [msg : Messages \cup {None}, served : 0 .. 2, room : BOOLEAN]
Received == [msg : Incoming \cup {None}, ack : Acks]

BlankOut == [msg |-> None, served |-> 0, room |-> FALSE]
BlankIn  == [msg |-> None, ack |-> "NO_REQUEST"]

StackEntry == [filled : BOOLEAN, in : Received, out : Outgoing]

(* A sendMessage activation: who called it ("user" code, or               *)
(* handleBluenetInterrupt to report an ack), the message that stood in the *)
(* outgoing buffer then, and the interrupts being handled below it.  slot  *)
(* and irq are set while it runs a handler on top of itself.               *)
Frame == [caller : {"user", "ack"}, msg : Messages, level : 0 .. MAX_INTERRUPT_DEPTH,
          slot : Slots \cup {NoSlot}, irq : Interrupts \cup {None}]

------------------------------------------------------------------------------
(* Helpers of microapp.c.                                                  *)

Innermost == frames[Len(frames)]

Live(f) == f.slot # NoSlot

(* How many interrupts are being handled: the nesting level of user code.  *)
CurrentLevel ==
    IF frames = <<>> THEN 0
    ELSE IF Live(Innermost) THEN Innermost.level + 1 ELSE Innermost.level

EmptySlots == {s \in Slots : ~stack[s].filled}

(* Mutant: the count stops before the last slot.                           *)
emptySlotsInStackBeforeLast == EmptySlots \ {MAX_INTERRUPT_DEPTH - 1} # {}

emptySlotsInStack == EmptySlots # {}

(* Mutants: the search runs down from the last slot; it always gives slot  *)
(* 0.                                                                      *)
getNextEmptyStackSlotFromTop ==
    IF EmptySlots = {} THEN NoSlot
    ELSE CHOOSE s \in EmptySlots : \A t \in EmptySlots : s >= t
getNextEmptyStackSlotZero == 0

getNextEmptyStackSlot ==
    IF EmptySlots = {} THEN NoSlot
    ELSE CHOOSE s \in EmptySlots : \A t \in EmptySlots : s <= t

(* handleBluenetInterrupt: what it saves for an interrupt, what it puts    *)
(* back and frees afterwards, and the ack it leaves for bluenet.           *)
(* Mutants: the outgoing buffer is not saved, or not put back; the slot    *)
(* stays taken; an ack is not written, for some value of it.               *)
SavedIncomingOnly == [filled |-> TRUE, in |-> b2m, out |-> BlankOut]
Saved == [filled |-> TRUE, in |-> b2m, out |-> m2b]

NotRestored(s) == m2b
Restored(s) == stack[s].out

NotFreed(s) == stack
Freed(s) == [stack EXCEPT ![s].filled = FALSE]

AckedUnlessInProgress(ack) ==
    IF ack = "IN_PROGRESS" THEN b2m ELSE [b2m EXCEPT !.ack = ack]
AckedUnlessHandled(ack) ==
    IF ack = "SUCCESS" THEN b2m ELSE [b2m EXCEPT !.ack = ack]
Acked(ack) == [b2m EXCEPT !.ack = ack]

checkRamDataSucceeds ==
    /\ ipcValid \/ ram = "ready"
    /\ ipcValid' = TRUE

(* ipcValid is set before bluenet is asked to take the buffers, so a       *)
(* refusal is reported once and the next call counts as checked.           *)
checkRamDataFails ==
    /\ ~ipcValid
    /\ ram # "ready"
    /\ ipcValid' = (ram = "refuses")

(* sendMessage up to the SIGNAL callback, with message m outgoing.         *)
Signal(caller, m) ==
    /\ frames' = Append(frames, [caller |-> caller, msg |-> m, level |-> CurrentLevel,
                                 slot |-> NoSlot, irq |-> None])
    /\ mode' = "signalled"

------------------------------------------------------------------------------
(* The microapp.                                                           *)

Init ==
    /\ mode = "user"
    /\ ram \in RamStates
    /\ ipcValid = FALSE
    /\ phase = "setup"
    /\ b2m = BlankIn
    /\ m2b = BlankOut
    /\ stack = [s \in Slots |-> [filled |-> FALSE, in |-> BlankIn, out |-> BlankOut]]
    /\ frames = <<>>
    /\ calls = 0
    /\ irqs = 0
    /\ irqAllowed = TRUE

(* User code fills in the outgoing buffer and calls sendMessage.  When     *)
(* checkRamData fails it gets an error back at once and nothing is sent.   *)
(* Mutant: sendMessage only sends what was already checked before.         *)
sendMessageIfCached(m) ==
    /\ mode = "user"
    /\ m2b' = [msg |-> m, served |-> 0, room |-> emptySlotsInStack]
    /\ IF ipcValid THEN Signal("user", m) ELSE UNCHANGED <<mode, frames>>
    /\ UNCHANGED <<ram, ipcValid, b2m, stack, bluenet>>

sendMessage(m) ==
    /\ mode = "user"
    /\ m2b' = [msg |-> m, served |-> 0, room |-> emptySlotsInStack]
    /\ \/ checkRamDataSucceeds /\ Signal("user", m)
       \/ checkRamDataFails /\ UNCHANGED <<mode, frames>>
    /\ UNCHANGED <<ram, b2m, stack, bluenet>>

(* A library call that asks bluenet for something, from any level.         *)
Request == \E m \in Requests : sendMessage(m) /\ UNCHANGED phase

(* One round of delay(): a hard yield, from any level.  The yield is a new *)
(* message, although header.ack keeps what an earlier one left there.      *)
delay == sendMessage("YIELD_ASYNC") /\ UNCHANGED phase

(* setup() returned to dummy_main.                                         *)
signalSetupEnd ==
    /\ CurrentLevel = 0
    /\ phase = "setup"
    /\ phase' = "loop"
    /\ sendMessage("YIELD_SETUP")

(* loop() returned to dummy_main.                                          *)
signalLoopEnd ==
    /\ CurrentLevel = 0
    /\ phase = "loop"
    /\ sendMessage("YIELD_LOOP")
    /\ UNCHANGED phase

(* handleBluenetInterrupt finds an interrupt and a slot: save both         *)
(* buffers, mark the interrupt in progress and enter the handler.          *)
AcceptInterrupt ==
    /\ mode = "resumed"
    /\ b2m.ack = "REQUEST"
    /\ EmptySlots # {}
    /\ LET s == getNextEmptyStackSlot IN
       /\ stack' = [stack EXCEPT ![s] = Saved]
       /\ frames' = [frames EXCEPT ![Len(frames)] =
                        [@ EXCEPT !.slot = s, !.irq = b2m.msg]]
    /\ b2m' = Acked("IN_PROGRESS")
    /\ mode' = "user"
    /\ UNCHANGED <<ram, ipcValid, phase, m2b, bluenet>>

(* It finds an interrupt and no slot: report that it is dropped.           *)
(* Mutant: an interrupt may be dropped while there is a slot.              *)
DropInterruptAnyway ==
    /\ mode = "resumed"
    /\ b2m.ack = "REQUEST"
    /\ b2m' = Acked("ERR_BUSY")
    /\ Signal("ack", m2b.msg)
    /\ UNCHANGED <<ram, ipcValid, phase, m2b, stack, bluenet>>

DropInterrupt ==
    /\ mode = "resumed"
    /\ b2m.ack = "REQUEST"
    /\ EmptySlots = {}
    /\ b2m' = Acked("ERR_BUSY")
    /\ Signal("ack", m2b.msg)
    /\ UNCHANGED <<ram, ipcValid, phase, m2b, stack, bluenet>>

(* What the handler of interrupt i can return.  attachInterrupt casts a    *)
(* function that returns nothing to one that returns a result: what        *)
(* callInterrupt then reads is whatever is left in the return register.    *)
Results(i) == IF i \in Isrs THEN Acks ELSE HandlerResults

(* The handler of the innermost interrupt returns, or callInterrupt found  *)
(* none: put the outgoing buffer back, free the slot, report the result.   *)
(* The activation that ran the handler reports it from a new sendMessage.  *)
HandlerReturn ==
    /\ mode = "user"
    /\ frames # <<>>
    /\ Live(Innermost)
    /\ LET s == Innermost.slot
           done == [frames EXCEPT ![Len(frames)] = [@ EXCEPT !.slot = NoSlot, !.irq = None]]
       IN
       /\ \E result \in Results(stack[s].in.msg) : b2m' = Acked(result)
       /\ m2b' = Restored(s)
       /\ stack' = Freed(s)
       /\ frames' = Append(done, [caller |-> "ack", msg |-> stack[s].out.msg,
                                  level |-> Innermost.level, slot |-> NoSlot, irq |-> None])
    /\ mode' = "signalled"
    /\ UNCHANGED <<ram, ipcValid, phase, bluenet>>

(* The innermost sendMessage returns: to user code, which goes on, or to   *)
(* the handleBluenetInterrupt that called it, which returns as well.       *)
(* Mutant: that one does not return, but goes on in user code.             *)
ReturnToUser ==
    /\ \/ mode = "returning"
       \/ mode = "resumed" /\ b2m.ack # "REQUEST"
    /\ mode' = "user"
    /\ frames' = SubSeq(frames, 1, Len(frames) - 1)
    /\ UNCHANGED <<ram, ipcValid, phase, shared, stack, bluenet>>

Return ==
    /\ \/ mode = "returning"
       \/ mode = "resumed" /\ b2m.ack # "REQUEST"
    /\ mode' = IF Innermost.caller = "user" THEN "user" ELSE "returning"
    /\ frames' = SubSeq(frames, 1, Len(frames) - 1)
    /\ UNCHANGED <<ram, ipcValid, phase, shared, stack, bluenet>>

------------------------------------------------------------------------------
(* Bluenet.                                                                *)

(* handleAck sees that the microapp does not answer an interrupt, so       *)
(* handleRequest serves the message.  A yield, or one soft yield too many, *)
(* ends this run of the microapp; otherwise it continues.                  *)
HandleRequest ==
    /\ mode = "signalled"
    /\ ram = "ready"
    /\ b2m.ack \in {"NO_REQUEST", "IN_PROGRESS"}
    /\ m2b' = [m2b EXCEPT !.served = IF @ = 0 THEN 1 ELSE 2]
    /\ \/ /\ m2b.msg \in Yields
          /\ mode' = "idle"
          /\ irqAllowed' = m2b.room
          /\ UNCHANGED calls
       \/ /\ m2b.msg \notin Yields
          /\ calls' = calls + 1
          /\ mode' = IF calls' < MaxCalls THEN "resumed" ELSE "idle"
          /\ UNCHANGED irqAllowed
    /\ UNCHANGED <<ram, ipcValid, phase, b2m, stack, frames, irqs>>

(* handleAck sees the outcome of an interrupt: dropped, or handled.  The   *)
(* message in the outgoing buffer is ignored.                              *)
HandleOutcome ==
    /\ mode = "signalled"
    /\ ram = "ready"
    /\ b2m.ack \notin {"NO_REQUEST", "IN_PROGRESS"}
    /\ irqAllowed' = (b2m.ack # "ERR_BUSY")
    /\ mode' = "idle"
    /\ UNCHANGED <<ram, ipcValid, phase, shared, stack, frames, calls, irqs>>

Tick ==
    /\ mode = "idle"
    /\ b2m' = [msg |-> Continue, ack |-> "NO_REQUEST"]
    /\ calls' = 0
    /\ irqs' = 0
    /\ mode' = "resumed"
    /\ UNCHANGED <<ram, ipcValid, phase, m2b, stack, frames, irqAllowed>>

GenerateInterrupt ==
    /\ mode = "idle"
    /\ irqAllowed
    /\ irqs < MaxInterruptsPerTick
    /\ Len(frames) < MaxFrames
    /\ \E i \in Interrupts : b2m' = [msg |-> i, ack |-> "REQUEST"]
    /\ calls' = 0
    /\ irqs' = irqs + 1
    /\ mode' = "resumed"
    /\ UNCHANGED <<ram, ipcValid, phase, m2b, stack, frames, irqAllowed>>

(* Bluenet refused the buffers: it never learns what the microapp wants,   *)
(* and the microapp is not resumed.                                        *)
Abandon ==
    /\ mode \in {"signalled", "abandoned"}
    /\ ram # "ready"
    /\ mode' = "abandoned"
    /\ UNCHANGED <<ram, ipcValid, phase, shared, stack, frames, bluenet>>

------------------------------------------------------------------------------
UserStep    == Request \/ delay \/ signalSetupEnd \/ signalLoopEnd \/ HandlerReturn
LibraryStep == AcceptInterrupt \/ DropInterrupt \/ Return
BluenetStep == HandleRequest \/ HandleOutcome

Next == UserStep \/ LibraryStep \/ BluenetStep \/ Tick \/ GenerateInterrupt \/ Abandon

Spec == Init /\ [][Next]_vars

(* Bluenet ticks for ever and serves what it is handed; the library does   *)
(* not block.  User code keeps running (UserStep) and, as Arduino.h asks   *)
(* of loop(), does not loop for ever: a setup(), loop() or handler that    *)
(* gets the processor again and again returns.                             *)
Fairness ==
    /\ WF_vars(UserStep)
    /\ WF_vars(LibraryStep)
    /\ WF_vars(BluenetStep)
    /\ WF_vars(Tick)
    /\ SF_vars(HandlerReturn)
    /\ SF_vars(signalSetupEnd \/ signalLoopEnd)

FairSpec == Spec /\ Fairness

------------------------------------------------------------------------------
(* Properties.                                                             *)

(* Every variable of microapp.c keeps its type.                            *)
TypeOK ==
    /\ mode \in Modes
    /\ ram \in RamStates
    /\ ipcValid \in BOOLEAN
    /\ phase \in {"setup", "loop"}
    /\ b2m \in Received
    /\ m2b \in Outgoing
    /\ stack \in [Slots -> StackEntry]
    /\ frames \in Seq(Frame)
    /\ calls \in 0 .. MaxCalls
    /\ irqs \in 0 .. MaxInterruptsPerTick
    /\ irqAllowed \in BOOLEAN

(* Slots and running handlers correspond one to one, nested like the       *)
(* handlers: the handler at level n + 1 owns slot n, and every other slot  *)
(* is free.  (getNextEmptyStackSlot searches for a free slot; nothing in   *)
(* microapp.c says that this makes the slots a stack.)                     *)
SlotsAreAStack ==
    /\ \A s \in Slots : stack[s].filled <=> s < CurrentLevel
    /\ \A k \in 1 .. Len(frames) : Live(frames[k]) => frames[k].slot = frames[k].level

(* The copy of an interrupt its handler works on is the interrupt bluenet  *)
(* generated, whatever arrived on top of it (microapp.c:207).              *)
InterruptPreserved ==
    \A k \in 1 .. Len(frames) :
        Live(frames[k]) => /\ stack[frames[k].slot].filled
                           /\ stack[frames[k].slot].in.msg = frames[k].irq

(* Bluenet handles a message at most once: putting a saved request back in *)
(* the shared buffer never makes bluenet serve it again.                   *)
AtMostOnce ==
    /\ m2b.served <= 1
    /\ \A s \in Slots : stack[s].filled => stack[s].out.served <= 1

(* When bluenet gets control back, the interrupt it generated has been     *)
(* taken note of: accepted, dropped or finished.                           *)
InterruptAnswered == mode = "signalled" => b2m.ack # "REQUEST"

(* The ack that means "dropped" is only sent when every slot is taken      *)
(* (CONTROL_FLOW.md:152, handleAck).                                       *)
BusyMeansFull ==
    mode = "signalled" /\ b2m.ack = "ERR_BUSY" => EmptySlots = {}

(* Bluenet holds interrupts back only while the microapp has no slot.      *)
NoLostCapacity == mode = "idle" /\ ~irqAllowed => EmptySlots = {}

(* User code that gets back from sendMessage finds its own message in the  *)
(* outgoing buffer, handled by bluenet exactly once, whatever interrupts   *)
(* were handled, dropped or nested in between (CONTROL_FLOW.md:119).       *)
AnswerArrives ==
    mode # "user" /\ mode' = "user" /\ Len(frames') < Len(frames)
        => m2b'.msg = Innermost.msg /\ m2b'.served = 1

(* Every return of sendMessage to user code is such a return.              *)
AnswerDelivered == [][AnswerArrives]_vars

(* The same seen as a refinement: every nesting level might as well have   *)
(* an outgoing buffer of its own.  What level n has in it is in the slot   *)
(* the handler above it saved it in, or for the current level in the       *)
(* shared buffer.                                                          *)
Content(payload) == [msg |-> payload.msg, served |-> payload.served]

LevelBuffers ==
    [n \in 0 .. MAX_INTERRUPT_DEPTH |->
        IF n < CurrentLevel THEN Content(stack[n].out)
        ELSE IF n = CurrentLevel THEN Content(m2b)
        ELSE Content(BlankOut)]

Buffers == INSTANCE PrivateBuffers WITH
    Depth <- MAX_INTERRUPT_DEPTH, level <- CurrentLevel, buffer <- LevelBuffers

(* Control flow and context stack implement one buffer per nesting level.  *)
ImplementsPrivateBuffers == Buffers!Spec

------------------------------------------------------------------------------
(* The inductive invariants behind the safety properties.                  *)

(* The level of the code running on top of activation f.                   *)
Above(f) == IF Live(f) THEN f.level + 1 ELSE f.level

(* Activations are linked to the one below: a handler's call sits on a     *)
(* live activation, one level up; a report on one that is not live, with   *)
(* the same message outgoing.                                              *)
FramesLinked ==
    /\ frames # <<>> => frames[1].level = 0 /\ frames[1].caller = "user"
    /\ \A k \in 2 .. Len(frames) :
          /\ frames[k].level = Above(frames[k - 1])
          /\ frames[k].caller = "user" <=> Live(frames[k - 1])
          /\ frames[k].caller = "ack" => frames[k].msg = frames[k - 1].msg

(* Hence the levels only grow towards the innermost activation.            *)
LevelsGrow ==
    \A k \in 1 .. Len(frames) : \A j \in 1 .. k - 1 :
        Above(frames[j]) <= frames[k].level

(* What is saved for a live activation is its own message.                 *)
MessagesSaved ==
    \A k \in 1 .. Len(frames) :
        Live(frames[k]) => stack[frames[k].slot].out.msg = frames[k].msg

(* Who has control, and whose message is in the outgoing buffer then.      *)
ControlState ==
    /\ mode = "user" => frames = <<>> \/ Live(Innermost)
    /\ mode # "user" => /\ frames # <<>>
                        /\ ~Live(Innermost)
                        /\ m2b.msg = Innermost.msg
    /\ mode = "resumed" /\ b2m.ack = "REQUEST" => b2m.msg \in Interrupts
    /\ mode \notin {"idle", "abandoned"} => calls < MaxCalls

(* The first invariant: nesting.                                           *)
NestingInv ==
    /\ TypeOK
    /\ FramesLinked
    /\ LevelsGrow
    /\ SlotsAreAStack
    /\ InterruptPreserved
    /\ MessagesSaved
    /\ ControlState

(* The second one: acks and answers.  It needs handlers that return one of *)
(* their own results.  User code never runs while an ack reports the end   *)
(* of an interrupt, a message not yet handled goes with an ack that makes  *)
(* bluenet handle it, and all that is put away or waits is handled.        *)
AnswerInv ==
    /\ mode = "user" => m2b.served <= 1 /\ b2m.ack \in {"NO_REQUEST", "IN_PROGRESS"}
    /\ mode = "signalled" =>
          IF b2m.ack \in {"NO_REQUEST", "IN_PROGRESS"}
          THEN m2b.served = 0 /\ m2b.room = emptySlotsInStack
          ELSE b2m.ack # "REQUEST" /\ m2b.served = 1
    /\ mode \in {"idle", "resumed", "returning"} => m2b.served = 1
    /\ mode = "resumed" => b2m.ack \in {"NO_REQUEST", "IN_PROGRESS", "REQUEST"}
    /\ mode = "returning" => b2m.ack \in {"NO_REQUEST", "IN_PROGRESS"}
    /\ mode = "abandoned" => m2b.served <= 1
    /\ \A s \in Slots : stack[s].filled => stack[s].out.served = 1

(* The third one, for handlers that do not return ERR_BUSY: bluenet holds  *)
(* interrupts back only while the stack is full, or until it has seen that *)
(* a handler finished.                                                     *)
CapacityInv ==
    /\ BusyMeansFull
    /\ ~irqAllowed /\ mode # "abandoned" =>
          \/ EmptySlots = {}
          \/ mode = "signalled" /\ b2m.ack = "SUCCESS"

IInv == NestingInv /\ AnswerInv /\ CapacityInv

------------------------------------------------------------------------------
(* Liveness, under Fairness.                                               *)

(* After a dropped interrupt or a yield without room, bluenet passes       *)
(* interrupts on again.                                                    *)
InterruptsResume == ~irqAllowed ~> irqAllowed

(* Once bluenet generates no more interrupts every handler is unwound and  *)
(* loop() runs again and again: no nesting of finished and suspended       *)
(* handlers swallows the main program.                                     *)
MainResumes ==
    ram = "ready" /\ <>[][~GenerateInterrupt]_vars
        => []<>(mode = "user" /\ CurrentLevel = 0)

(* Bluenet always gets the processor back, unless checkRamData never       *)
(* succeeds.                                                               *)
BluenetRegainsControl == ram = "ready" => []<>(mode = "idle")
=============================================================================
