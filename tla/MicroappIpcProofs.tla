-------------------------- MODULE MicroappIpcProofs --------------------------
(***************************************************************************)
(* Proofs about MicroappIpc, for every number of slots, requests and       *)
(* interrupts and every limit of bluenet.                                  *)
(***************************************************************************)
EXTENDS MicroappIpc, SequenceTheorems, TLAPS

(* The level of user code is a number of slots.                            *)
LEMMA LevelInRange ==
    ASSUME TypeOK, SlotsAreAStack
    PROVE  CurrentLevel \in 0 .. MAX_INTERRUPT_DEPTH
<1>1. CASE frames = <<>>
  BY <1>1, DepthAssumption DEF CurrentLevel
<1>2. CASE frames # <<>>
  <2>1. Len(frames) \in 1 .. Len(frames) /\ Innermost \in Frame
    BY <1>2 DEF TypeOK, Innermost
  <2>2. Innermost.level \in 0 .. MAX_INTERRUPT_DEPTH
    BY <2>1 DEF Frame
  <2>3. Live(Innermost) => Innermost.level \in Slots
    BY <2>1 DEF SlotsAreAStack, Innermost, Frame, Live
  <2>4. QED
    BY <1>2, <2>2, <2>3, DepthAssumption DEF CurrentLevel, Slots
<1>3. QED
  BY <1>1, <1>2

(* Filled slots being those below the current level, the search for a free *)
(* slot ends at the current level.                                         *)
LEMMA NextSlotIsLevel ==
    ASSUME TypeOK, SlotsAreAStack, EmptySlots # {}
    PROVE  getNextEmptyStackSlot = CurrentLevel /\ CurrentLevel \in Slots
<1>1. CurrentLevel \in 0 .. MAX_INTERRUPT_DEPTH
  BY LevelInRange
<1>2. \A s \in Slots : s \in EmptySlots <=> CurrentLevel <= s
  BY <1>1 DEF EmptySlots, SlotsAreAStack, Slots
<1>3. CurrentLevel \in Slots /\ CurrentLevel \in EmptySlots
  <2>1. PICK s \in EmptySlots : s \in Slots
    BY DEF EmptySlots
  <2>2. CurrentLevel \in Slots
    BY <1>1, <1>2, <2>1, DepthAssumption DEF Slots
  <2>3. QED
    BY <1>1, <1>2, <2>2
<1>4. \A s \in EmptySlots : (\A t \in EmptySlots : s <= t) <=> s = CurrentLevel
  BY <1>1, <1>2, <1>3 DEF EmptySlots, Slots
<1>5. QED
  BY <1>3, <1>4 DEF getNextEmptyStackSlot

------------------------------------------------------------------------------
(* The nesting invariant.                                                  *)

(* The first invariant holds at the start.                                 *)
LEMMA NestingInit == Init => NestingInv
<1> SUFFICES ASSUME Init PROVE NestingInv
  OBVIOUS
<1>1. BlankIn \in Received /\ BlankOut \in Outgoing
  BY DEF BlankIn, Received, Acks, BlankOut, Outgoing
<1>2. TypeOK
  <2>1. stack \in [Slots -> StackEntry]
    BY <1>1 DEF Init, StackEntry
  <2>2. calls \in 0 .. MaxCalls /\ irqs \in 0 .. MaxInterruptsPerTick
    BY BluenetAssumption DEF Init
  <2>3. b2m \in Received /\ m2b \in Outgoing /\ frames \in Seq(Frame)
    BY <1>1 DEF Init
  <2>4. QED
    BY <2>1, <2>2, <2>3 DEF Init, TypeOK, Modes, RamStates
<1>3. frames = <<>> /\ Len(frames) = 0 /\ CurrentLevel = 0
  BY DEF Init, CurrentLevel
<1>4. FramesLinked /\ LevelsGrow /\ InterruptPreserved /\ MessagesSaved
  BY <1>3 DEF FramesLinked, LevelsGrow, InterruptPreserved, MessagesSaved
<1>5. SlotsAreAStack
  BY <1>3 DEF SlotsAreAStack, Init, Slots
<1>6. ControlState
  BY <1>3, BluenetAssumption DEF ControlState, Init
<1>7. QED
  BY <1>2, <1>4, <1>5, <1>6 DEF NestingInv

(* Replacing the last element of a sequence keeps the others.              *)
LEMMA ReplaceElement ==
    ASSUME NEW S, NEW q \in Seq(S), NEW i \in 1 .. Len(q), NEW e \in S,
           NEW r, r = [q EXCEPT ![i] = e]
    PROVE  /\ r \in Seq(S) /\ Len(r) = Len(q) /\ r[i] = e
           /\ \A k \in 1 .. Len(q) : k # i => r[k] = q[k]
  BY ExceptSeq

(* Pushing an activation that is not live.                                 *)
LEMMA PushFrame ==
    ASSUME NestingInv, NEW f \in Frame, ~Live(f), f.level = CurrentLevel,
           frames' = Append(frames, f),
           f.caller = "user" <=> frames = <<>> \/ Live(Innermost),
           f.caller = "ack" => f.msg = Innermost.msg
    PROVE  /\ frames' \in Seq(Frame)
           /\ frames' # <<>>
           /\ Innermost' = f
           /\ CurrentLevel' = CurrentLevel
           /\ \A k \in 1 .. Len(frames') :
                 Live(frames'[k]) => k \in 1 .. Len(frames) /\ frames'[k] = frames[k]
           /\ FramesLinked'
           /\ LevelsGrow'
<1>1. frames \in Seq(Frame)
  BY DEF NestingInv, TypeOK
<1>2. /\ frames' \in Seq(Frame)
      /\ Len(frames') = Len(frames) + 1
      /\ frames'[Len(frames) + 1] = f
      /\ \A k \in 1 .. Len(frames) : frames'[k] = frames[k]
  BY <1>1
<1>3. frames' # <<>> /\ Innermost' = f
  BY <1>1, <1>2 DEF Innermost
<1>4. CurrentLevel' = CurrentLevel
  BY <1>3 DEF CurrentLevel, Live
<1>5. \A k \in 1 .. Len(frames') :
         Live(frames'[k]) => k \in 1 .. Len(frames) /\ frames'[k] = frames[k]
  BY <1>1, <1>2
<1>6. FramesLinked'
  <2>1. frames'[1].level = 0 /\ frames'[1].caller = "user"
    <3>1. CASE frames = <<>>
      BY <1>2, <3>1 DEF CurrentLevel
    <3>2. CASE frames # <<>>
      BY <1>1, <1>2, <3>2 DEF NestingInv, FramesLinked
    <3>3. QED
      BY <3>1, <3>2
  <2>2. ASSUME NEW k \in 2 .. Len(frames')
        PROVE  /\ frames'[k].level = Above(frames'[k - 1])
               /\ frames'[k].caller = "user" <=> Live(frames'[k - 1])
               /\ frames'[k].caller = "ack" => frames'[k].msg = frames'[k - 1].msg
    <3>1. CASE k \in 2 .. Len(frames)
      BY <1>1, <1>2, <3>1 DEF NestingInv, FramesLinked
    <3>2. CASE k = Len(frames) + 1
      <4>1. frames # <<>> /\ frames'[k - 1] = Innermost /\ frames'[k] = f
        BY <1>1, <1>2, <3>2 DEF Innermost
      <4>2. QED
        BY <4>1 DEF CurrentLevel, Above
    <3>3. QED
      BY <1>1, <1>2, <3>1, <3>2
  <2>3. QED
    BY <2>1, <2>2 DEF FramesLinked, Above, Live
<1>7. LevelsGrow'
  <2>1. ASSUME NEW k \in 1 .. Len(frames'), NEW j \in 1 .. k - 1
        PROVE  Above(frames'[j]) <= frames'[k].level
    <3>1. j \in 1 .. Len(frames) /\ frames'[j] = frames[j] /\ frames[j] \in Frame
      BY <1>1, <1>2
    <3>2. CASE k \in 1 .. Len(frames)
      BY <1>2, <3>1, <3>2 DEF NestingInv, LevelsGrow
    <3>3. CASE k = Len(frames) + 1
      <4>1. frames # <<>> /\ Innermost = frames[Len(frames)] /\ Innermost \in Frame
        BY <1>1, <3>1 DEF Innermost
      <4>2. Above(Innermost) = CurrentLevel /\ Innermost.level <= Above(Innermost)
        BY <4>1 DEF Above, CurrentLevel, Frame
      <4>3. CASE j = Len(frames)
        BY <1>2, <3>1, <3>3, <4>1, <4>2, <4>3 DEF Frame
      <4>4. CASE j # Len(frames)
        <5>1. Above(frames[j]) <= Innermost.level
          BY <1>1, <3>1, <4>1, <4>4 DEF NestingInv, LevelsGrow
        <5>2. Above(frames[j]) \in Int /\ Innermost.level \in Int /\ CurrentLevel \in Int
          BY <3>1, <4>1, <4>2 DEF Above, Frame
        <5>3. QED
          BY <1>2, <3>1, <3>3, <4>2, <5>1, <5>2
      <4>5. QED
        BY <4>3, <4>4
    <3>4. QED
      BY <1>1, <1>2, <3>2, <3>3
  <2>2. QED
    BY <2>1 DEF LevelsGrow, Above, Live
<1>8. QED
  BY <1>2, <1>3, <1>4, <1>5, <1>6, <1>7

(* User code calls sendMessage.                                            *)
LEMMA NestingSend ==
    ASSUME NestingInv, NEW m \in Messages, sendMessage(m), phase' \in {"setup", "loop"}
    PROVE  NestingInv'
<1> DEFINE f == [caller |-> "user", msg |-> m, level |-> CurrentLevel,
                 slot |-> NoSlot, irq |-> None]
<1>1. CurrentLevel \in 0 .. MAX_INTERRUPT_DEPTH
  BY LevelInRange DEF NestingInv
<1>2. m2b' \in Outgoing
  BY DEF sendMessage, Outgoing, emptySlotsInStack
<1>3. ipcValid' \in BOOLEAN
  BY DEF sendMessage, checkRamDataSucceeds, checkRamDataFails
<1>4. CASE UNCHANGED <<mode, frames>>
  <2>1. UNCHANGED CurrentLevel
    BY <1>4 DEF CurrentLevel, Innermost, Live
  <2>2. UNCHANGED <<ram, b2m, stack, calls, irqs, irqAllowed>> /\ mode = "user"
    BY DEF sendMessage, bluenet
  <2>3. TypeOK'
    BY <1>2, <1>3, <1>4, <2>2 DEF NestingInv, TypeOK
  <2>4. FramesLinked' /\ LevelsGrow' /\ InterruptPreserved' /\ MessagesSaved' /\ ControlState'
    BY <1>4, <2>2
       DEF NestingInv, FramesLinked, LevelsGrow, InterruptPreserved, MessagesSaved, ControlState,
           Innermost, Live, Above
  <2>5. SlotsAreAStack'
    BY <1>4, <2>1, <2>2 DEF NestingInv, SlotsAreAStack, Live
  <2>6. QED
    BY <2>3, <2>4, <2>5 DEF NestingInv
<1>5. CASE Signal("user", m)
  <2>1. f \in Frame /\ ~Live(f) /\ f.level = CurrentLevel /\ f.caller = "user"
    BY <1>1 DEF Frame, Live
  <2>2. frames' = Append(frames, f) /\ mode' = "signalled"
    BY <1>5 DEF Signal
  <2>3. /\ mode = "user" /\ m2b'.msg = m
        /\ UNCHANGED <<ram, b2m, stack, calls, irqs, irqAllowed>>
    BY DEF sendMessage, bluenet
  <2>4. frames = <<>> \/ Live(Innermost)
    BY <2>3 DEF NestingInv, ControlState
  <2> HIDE DEF f
  <2>5. /\ frames' \in Seq(Frame)
        /\ frames' # <<>>
        /\ Innermost' = f
        /\ CurrentLevel' = CurrentLevel
        /\ \A k \in 1 .. Len(frames') :
              Live(frames'[k]) => k \in 1 .. Len(frames) /\ frames'[k] = frames[k]
        /\ FramesLinked' /\ LevelsGrow'
    BY <2>1, <2>2, <2>4, PushFrame
  <2>6. TypeOK'
    BY <1>2, <1>3, <2>2, <2>3, <2>5 DEF NestingInv, TypeOK, Modes
  <2>7. InterruptPreserved' /\ MessagesSaved'
    BY <2>3, <2>5 DEF NestingInv, InterruptPreserved, MessagesSaved, Live
  <2>8. SlotsAreAStack'
    BY <2>3, <2>5 DEF NestingInv, SlotsAreAStack, Live
  <2>9. ControlState'
    BY <2>1, <2>2, <2>3, <2>5 DEF NestingInv, ControlState, Live, f
  <2>10. QED
    BY <2>5, <2>6, <2>7, <2>8, <2>9 DEF NestingInv
<1>6. QED
  BY <1>4, <1>5 DEF sendMessage

(* An interrupt is dropped: an activation that reports it is pushed.       *)
LEMMA NestingDrop ==
    ASSUME NestingInv, DropInterrupt
    PROVE  NestingInv'
<1> DEFINE f == [caller |-> "ack", msg |-> m2b.msg, level |-> CurrentLevel,
                 slot |-> NoSlot, irq |-> None]
<1>1. CurrentLevel \in 0 .. MAX_INTERRUPT_DEPTH
  BY LevelInRange DEF NestingInv
<1>2. mode = "resumed" /\ b2m' = [b2m EXCEPT !.ack = "ERR_BUSY"]
      /\ frames' = Append(frames, f) /\ mode' = "signalled"
      /\ UNCHANGED <<ram, ipcValid, phase, m2b, stack, calls, irqs, irqAllowed>>
  BY DEF DropInterrupt, Signal, bluenet, Acked
<1>3. frames # <<>> /\ ~Live(Innermost) /\ m2b.msg = Innermost.msg
  BY <1>2 DEF NestingInv, ControlState
<1>4. Innermost \in Frame
  BY <1>3 DEF NestingInv, TypeOK, Innermost
<1>5. f \in Frame /\ ~Live(f) /\ f.level = CurrentLevel /\ f.caller = "ack" /\ f.msg = m2b.msg
  BY <1>1, <1>3, <1>4 DEF Frame, Live
<1> HIDE DEF f
<1>6. /\ frames' \in Seq(Frame)
      /\ frames' # <<>>
      /\ Innermost' = f
      /\ CurrentLevel' = CurrentLevel
      /\ \A k \in 1 .. Len(frames') :
            Live(frames'[k]) => k \in 1 .. Len(frames) /\ frames'[k] = frames[k]
      /\ FramesLinked' /\ LevelsGrow'
  BY <1>2, <1>3, <1>5, PushFrame
<1>7. b2m' \in Received
  BY <1>2 DEF NestingInv, TypeOK, Received, Acks
<1>8. TypeOK'
  BY <1>2, <1>6, <1>7 DEF NestingInv, TypeOK, Modes
<1>9. InterruptPreserved' /\ MessagesSaved'
  BY <1>2, <1>6 DEF NestingInv, InterruptPreserved, MessagesSaved, Live
<1>10. SlotsAreAStack'
  BY <1>2, <1>6 DEF NestingInv, SlotsAreAStack, Live
<1>11. ControlState'
  BY <1>2, <1>5, <1>6 DEF NestingInv, ControlState, Live
<1>12. QED
  BY <1>6, <1>8, <1>9, <1>10, <1>11 DEF NestingInv

(* An interrupt is accepted: the innermost activation becomes live and     *)
(* owns the slot of the current level.                                     *)
LEMMA NestingAccept ==
    ASSUME NestingInv, AcceptInterrupt
    PROVE  NestingInv'
<1> DEFINE s == CurrentLevel
           n == Len(frames)
<1>1. frames \in Seq(Frame) /\ frames # <<>> /\ ~Live(Innermost) /\ m2b.msg = Innermost.msg
  BY DEF NestingInv, TypeOK, AcceptInterrupt, ControlState, Acked, Saved
<1>2. n \in Nat \ {0} /\ Innermost = frames[n] /\ frames[n] \in Frame /\ s = frames[n].level
  BY <1>1 DEF Innermost, CurrentLevel
<1>3. getNextEmptyStackSlot = s /\ s \in Slots
  BY NextSlotIsLevel DEF NestingInv, AcceptInterrupt, Acked, Saved
<1>4. /\ stack' = [stack EXCEPT ![s] = [filled |-> TRUE, in |-> b2m, out |-> m2b]]
      /\ frames' = [frames EXCEPT ![n] = [@ EXCEPT !.slot = s, !.irq = b2m.msg]]
      /\ b2m' = [b2m EXCEPT !.ack = "IN_PROGRESS"]
      /\ mode' = "user"
      /\ UNCHANGED <<ram, ipcValid, phase, m2b, calls, irqs, irqAllowed>>
  BY <1>3 DEF AcceptInterrupt, bluenet, Acked, Saved
<1>5. b2m.msg \in Interrupts /\ b2m \in Received /\ m2b \in Outgoing
  BY DEF NestingInv, TypeOK, ControlState, AcceptInterrupt, Acked, Saved
<1>6. /\ frames' \in Seq(Frame) /\ Len(frames') = n
      /\ frames'[n] = [frames[n] EXCEPT !.slot = s, !.irq = b2m.msg]
      /\ \A k \in 1 .. n : k # n => frames'[k] = frames[k]
  <2> DEFINE e == [frames[n] EXCEPT !.slot = s, !.irq = b2m.msg]
  <2>1. e \in Frame
    BY <1>2, <1>3, <1>5 DEF Frame
  <2>2. frames' = [frames EXCEPT ![n] = e]
    BY <1>4
  <2> HIDE DEF e
  <2>3. n \in 1 .. Len(frames)
    BY <1>2
  <2>4. /\ frames' \in Seq(Frame) /\ Len(frames') = Len(frames) /\ frames'[n] = e
        /\ \A k \in 1 .. Len(frames) : k # n => frames'[k] = frames[k]
    BY <1>1, <2>1, <2>2, <2>3, ReplaceElement
  <2>5. QED
    BY <2>4 DEF e
<1>7. /\ Innermost' = frames'[n] /\ Live(Innermost') /\ frames' # <<>>
      /\ Innermost'.slot = s /\ Innermost'.level = s /\ Innermost'.irq = b2m.msg
      /\ Innermost'.msg = frames[n].msg /\ Innermost'.caller = frames[n].caller
  BY <1>2, <1>3, <1>6 DEF Innermost, Live, Frame, Slots, NoSlot
<1>8. CurrentLevel' = s + 1
  BY <1>7 DEF CurrentLevel, Live
<1>9. \A k \in 1 .. n : k # n /\ Live(frames[k]) => frames[k].slot \in Slots /\ frames[k].slot # s
  <2>1. ASSUME NEW k \in 1 .. n, Live(frames[k])
        PROVE  frames[k].slot \in Slots /\ frames[k].slot # s
    <3>1. frames[k] \in Frame
      BY <1>1
    <3>2. frames[k].slot \in Slots
      BY <2>1, <3>1 DEF Frame, Live
    <3>3. frames[k].slot < CurrentLevel
      BY <2>1, <3>2 DEF NestingInv, InterruptPreserved, SlotsAreAStack
    <3>4. QED
      BY <1>3, <3>2, <3>3 DEF Slots
  <2>2. QED
    BY <2>1
<1> HIDE DEF s, n
<1>10. TypeOK'
  <2>1. stack' \in [Slots -> StackEntry]
    BY <1>4, <1>5 DEF NestingInv, TypeOK, StackEntry
  <2>2. b2m' \in Received
    BY <1>4, <1>5 DEF Received, Acks
  <2>3. QED
    BY <1>4, <1>6, <2>1, <2>2 DEF NestingInv, TypeOK, Modes
<1>11. FramesLinked'
  <2>1. frames'[1].level = 0 /\ frames'[1].caller = "user"
    <3>1. frames[1].level = 0 /\ frames[1].caller = "user"
      BY <1>1 DEF NestingInv, FramesLinked
    <3>2. frames'[1].level = frames[1].level /\ frames'[1].caller = frames[1].caller
      <4>1. CASE n = 1
        BY <1>2, <1>6, <1>7, <4>1
      <4>2. CASE n # 1
        BY <1>2, <1>6, <4>2
      <4>3. QED
        BY <4>1, <4>2
    <3>3. QED
      BY <3>1, <3>2
  <2>2. ASSUME NEW k \in 2 .. Len(frames')
        PROVE  /\ frames'[k].level = Above(frames'[k - 1])
               /\ frames'[k].caller = "user" <=> Live(frames'[k - 1])
               /\ frames'[k].caller = "ack" => frames'[k].msg = frames'[k - 1].msg
    <3>1. k \in 1 .. n /\ k - 1 \in 1 .. n /\ k - 1 # n /\ k \in 2 .. Len(frames)
      BY <1>2, <1>6 DEF n
    <3>2. frames'[k - 1] = frames[k - 1]
      BY <1>6, <3>1
    <3>3. /\ frames'[k].level = frames[k].level /\ frames'[k].caller = frames[k].caller
          /\ frames'[k].msg = frames[k].msg
      BY <1>2, <1>6, <1>7, <3>1
    <3>4. QED
      BY <3>1, <3>2, <3>3 DEF NestingInv, FramesLinked
  <2>3. QED
    BY <2>1, <2>2 DEF FramesLinked, Above, Live
<1>12. LevelsGrow'
  <2>1. ASSUME NEW k \in 1 .. Len(frames'), NEW j \in 1 .. k - 1
        PROVE  Above(frames'[j]) <= frames'[k].level
    <3>1. j \in 1 .. n /\ j # n /\ k \in 1 .. n
      BY <1>2, <1>6
    <3>2. frames'[j] = frames[j] /\ frames'[k].level = frames[k].level
      BY <1>2, <1>6, <1>7, <3>1
    <3>3. QED
      BY <3>1, <3>2 DEF NestingInv, LevelsGrow, n
  <2>2. QED
    BY <2>1 DEF LevelsGrow, Above, Live
<1>13. SlotsAreAStack'
  <2>1. ASSUME NEW t \in Slots PROVE stack'[t].filled <=> t < CurrentLevel'
    BY <1>3, <1>4, <1>8 DEF NestingInv, TypeOK, SlotsAreAStack, Slots, s
  <2>2. ASSUME NEW k \in 1 .. Len(frames'), Live(frames'[k])
        PROVE  frames'[k].slot = frames'[k].level
    BY <1>6, <1>7, <2>2 DEF NestingInv, SlotsAreAStack, n
  <2>3. QED
    BY <2>1, <2>2 DEF SlotsAreAStack, Live
<1>14. InterruptPreserved' /\ MessagesSaved'
  <2>1. ASSUME NEW k \in 1 .. Len(frames'), Live(frames'[k])
        PROVE  /\ stack'[frames'[k].slot].filled
               /\ stack'[frames'[k].slot].in.msg = frames'[k].irq
               /\ stack'[frames'[k].slot].out.msg = frames'[k].msg
    <3>1. CASE k = n
      BY <1>1, <1>2, <1>3, <1>4, <1>7, <3>1 DEF NestingInv, TypeOK
    <3>2. CASE k # n
      BY <1>3, <1>4, <1>6, <1>9, <2>1, <3>2
         DEF NestingInv, TypeOK, InterruptPreserved, MessagesSaved, n
    <3>3. QED
      BY <3>1, <3>2
  <2>2. QED
    BY <2>1 DEF InterruptPreserved, MessagesSaved, Live
<1>15. ControlState'
  BY <1>4, <1>7 DEF NestingInv, ControlState, AcceptInterrupt, Live, Acked, Saved
<1>16. QED
  BY <1>10, <1>11, <1>12, <1>13, <1>14, <1>15 DEF NestingInv

(* A handler returns: the innermost activation is live no more, its slot   *)
(* is free, and an activation that reports the result is pushed on it.     *)
LEMMA NestingHandlerReturn ==
    ASSUME NestingInv, HandlerReturn
    PROVE  NestingInv'
<1> DEFINE n == Len(frames)
           s == frames[n].slot
           e == [frames[n] EXCEPT !.slot = NoSlot, !.irq = None]
           done == [frames EXCEPT ![n] = e]
           f == [caller |-> "ack", msg |-> stack[s].out.msg, level |-> frames[n].level,
                 slot |-> NoSlot, irq |-> None]
<1>1. frames \in Seq(Frame) /\ n \in Nat \ {0} /\ Innermost = frames[n] /\ frames[n] \in Frame
  BY DEF NestingInv, TypeOK, HandlerReturn, Innermost, Acked, Restored, Freed
<1>2. /\ Live(frames[n])
      /\ \E result \in Results(stack[s].in.msg) : b2m' = [b2m EXCEPT !.ack = result]
      /\ m2b' = stack[s].out
      /\ stack' = [stack EXCEPT ![s].filled = FALSE]
      /\ frames' = Append(done, f)
      /\ mode' = "signalled"
      /\ UNCHANGED <<ram, ipcValid, phase, calls, irqs, irqAllowed>>
  BY <1>1 DEF HandlerReturn, bluenet, Innermost, Acked, Restored, Freed
<1>3. s \in Slots /\ s = frames[n].level /\ CurrentLevel = s + 1
  <2>1. frames[n].slot \in Slots /\ frames # <<>>
    BY <1>1, <1>2 DEF Live, Frame
  <2>2. frames[n].slot = frames[n].level
    BY <1>1, <1>2 DEF NestingInv, SlotsAreAStack
  <2>3. CurrentLevel = frames[n].level + 1
    BY <1>1, <1>2, <2>1 DEF CurrentLevel
  <2>4. QED
    BY <2>1, <2>2, <2>3
<1>4. stack[s] \in StackEntry /\ stack[s].out.msg = frames[n].msg
  <2>1. stack[s] \in StackEntry
    BY <1>3 DEF NestingInv, TypeOK
  <2>2. stack[frames[n].slot].out.msg = frames[n].msg
    BY <1>1, <1>2 DEF NestingInv, MessagesSaved
  <2>3. QED
    BY <2>1, <2>2
<1>5. /\ e \in Frame /\ f \in Frame /\ ~Live(e) /\ ~Live(f)
      /\ e.level = s /\ f.level = s /\ e.msg = f.msg /\ e.caller = frames[n].caller
      /\ f.caller = "ack" /\ f.msg = stack[s].out.msg
  BY <1>1, <1>3, <1>4 DEF Frame, Live
<1>6. f.msg = frames[n].msg
  BY <1>4
<1> HIDE DEF e, f
<1>7. /\ done \in Seq(Frame) /\ Len(done) = n /\ done[n] = e
      /\ \A k \in 1 .. n : k # n => done[k] = frames[k]
  BY <1>1, <1>5, ReplaceElement
<1> HIDE DEF done
<1>8. /\ frames' \in Seq(Frame) /\ Len(frames') = n + 1 /\ frames' # <<>>
      /\ frames'[n + 1] = f /\ frames'[n] = e
      /\ \A k \in 1 .. n : k # n => frames'[k] = frames[k]
  BY <1>1, <1>2, <1>5, <1>7
<1>9. Innermost' = f /\ CurrentLevel' = s
  BY <1>1, <1>5, <1>8 DEF Innermost, CurrentLevel, Live
<1>10. \A k \in 1 .. Len(frames') : Live(frames'[k]) => k \in 1 .. n /\ k # n /\ frames'[k] = frames[k]
  BY <1>1, <1>5, <1>8
<1> HIDE DEF s, n
<1>11. TypeOK'
  <2>1. stack' \in [Slots -> StackEntry]
    BY <1>2, <1>3, <1>4 DEF NestingInv, TypeOK, StackEntry
  <2>2. b2m' \in Received
    BY <1>2, MessageAssumption DEF NestingInv, TypeOK, Received, Results
  <2>3. m2b' \in Outgoing
    BY <1>2, <1>4 DEF StackEntry
  <2>4. QED
    BY <1>2, <1>8, <2>1, <2>2, <2>3 DEF NestingInv, TypeOK, Modes
<1>12. FramesLinked'
  <2>1. frames'[1].level = 0 /\ frames'[1].caller = "user"
    <3>1. frames[1].level = 0 /\ frames[1].caller = "user"
      BY <1>1 DEF NestingInv, FramesLinked, n
    <3>2. CASE n = 1
      BY <1>3, <1>5, <1>8, <3>1, <3>2
    <3>3. CASE n # 1
      BY <1>1, <1>8, <3>1, <3>3
    <3>4. QED
      BY <3>2, <3>3
  <2>2. ASSUME NEW k \in 2 .. Len(frames')
        PROVE  /\ frames'[k].level = Above(frames'[k - 1])
               /\ frames'[k].caller = "user" <=> Live(frames'[k - 1])
               /\ frames'[k].caller = "ack" => frames'[k].msg = frames'[k - 1].msg
    <3>1. CASE k = n + 1
      BY <1>1, <1>5, <1>8, <3>1 DEF Above
    <3>2. CASE k \in 2 .. n
      <4>1. /\ frames[k].level = Above(frames[k - 1])
            /\ frames[k].caller = "user" <=> Live(frames[k - 1])
            /\ frames[k].caller = "ack" => frames[k].msg = frames[k - 1].msg
        BY <3>2 DEF NestingInv, FramesLinked, n
      <4>2. frames'[k - 1] = frames[k - 1]
        BY <1>1, <1>8, <3>2
      <4>3. /\ frames'[k].level = frames[k].level /\ frames'[k].caller = frames[k].caller
            /\ frames'[k].msg = frames[k].msg
        BY <1>1, <1>3, <1>5, <1>6, <1>8, <3>2
      <4>4. QED
        BY <4>1, <4>2, <4>3
    <3>3. QED
      BY <1>1, <1>8, <3>1, <3>2
  <2>3. QED
    BY <2>1, <2>2 DEF FramesLinked, Above, Live
<1>13. LevelsGrow'
  <2>1. ASSUME NEW k \in 1 .. Len(frames'), NEW j \in 1 .. k - 1
        PROVE  Above(frames'[j]) <= frames'[k].level
    <3>1. CASE k \in 1 .. n
      <4>1. j \in 1 .. n /\ j # n /\ frames'[j] = frames[j]
        BY <1>1, <1>8, <3>1
      <4>2. frames'[k].level = frames[k].level
        BY <1>3, <1>5, <1>8, <3>1
      <4>3. QED
        BY <3>1, <4>1, <4>2 DEF NestingInv, LevelsGrow, n
    <3>2. CASE k = n + 1 /\ j = n
      BY <1>3, <1>5, <1>8, <3>2 DEF Above, Slots
    <3>3. CASE k = n + 1 /\ j \in 1 .. n - 1
      <4>1. frames'[j] = frames[j] /\ frames'[k].level = s
        BY <1>1, <1>5, <1>8, <3>3
      <4>2. Above(frames[j]) <= frames[n].level
        BY <1>1, <3>3 DEF NestingInv, LevelsGrow, n
      <4>3. QED
        BY <1>3, <4>1, <4>2
    <3>4. QED
      BY <1>1, <1>8, <3>1, <3>2, <3>3
  <2>2. QED
    BY <2>1 DEF LevelsGrow, Above, Live
<1>14. SlotsAreAStack'
  <2>1. ASSUME NEW t \in Slots PROVE stack'[t].filled <=> t < CurrentLevel'
    BY <1>2, <1>3, <1>4, <1>9 DEF NestingInv, TypeOK, SlotsAreAStack, Slots, StackEntry
  <2>2. ASSUME NEW k \in 1 .. Len(frames'), Live(frames'[k])
        PROVE  frames'[k].slot = frames'[k].level
    BY <1>10, <2>2 DEF NestingInv, SlotsAreAStack, n
  <2>3. QED
    BY <2>1, <2>2 DEF SlotsAreAStack, Live
<1>15. InterruptPreserved' /\ MessagesSaved'
  <2>1. ASSUME NEW k \in 1 .. Len(frames'), Live(frames'[k])
        PROVE  /\ stack'[frames'[k].slot].filled
               /\ stack'[frames'[k].slot].in.msg = frames'[k].irq
               /\ stack'[frames'[k].slot].out.msg = frames'[k].msg
    <3>1. /\ k \in 1 .. n - 1 /\ frames'[k] = frames[k] /\ Live(frames[k])
      BY <1>1, <1>10, <2>1
    <3>2. frames[k] \in Frame /\ k \in 1 .. Len(frames)
      BY <1>1, <3>1 DEF n
    <3>3. frames[k].slot \in Slots /\ frames[k].slot = frames[k].level
      BY <3>1, <3>2 DEF Frame, Live, NestingInv, SlotsAreAStack
    <3>4. frames[k].slot # s
      <4>1. Above(frames[k]) <= frames[n].level
        BY <1>1, <3>1 DEF NestingInv, LevelsGrow, n
      <4>2. QED
        BY <1>3, <3>1, <3>3, <4>1 DEF Above, Slots
    <3>5. QED
      BY <1>2, <1>3, <3>1, <3>2, <3>3, <3>4
         DEF NestingInv, TypeOK, InterruptPreserved, MessagesSaved, n
  <2>2. QED
    BY <2>1 DEF InterruptPreserved, MessagesSaved, Live
<1>16. ControlState'
  BY <1>2, <1>5, <1>8, <1>9 DEF NestingInv, ControlState, HandlerReturn, Acked, Restored, Freed
<1>17. QED
  BY <1>11, <1>12, <1>13, <1>14, <1>15, <1>16 DEF NestingInv

(* The innermost sendMessage returns.                                      *)
LEMMA NestingReturn ==
    ASSUME NestingInv, Return
    PROVE  NestingInv'
<1> DEFINE n == Len(frames)
<1>1. frames \in Seq(Frame) /\ n \in Nat \ {0} /\ Innermost = frames[n] /\ frames[n] \in Frame
      /\ ~Live(frames[n]) /\ m2b.msg = frames[n].msg
  BY DEF NestingInv, TypeOK, Return, ControlState, Innermost
<1>2. /\ mode' = IF frames[n].caller = "user" THEN "user" ELSE "returning"
      /\ frames' = SubSeq(frames, 1, n - 1)
      /\ UNCHANGED <<ram, ipcValid, phase, b2m, m2b, stack, calls, irqs, irqAllowed>>
  BY <1>1 DEF Return, shared, bluenet
<1>3. /\ frames' \in Seq(Frame) /\ Len(frames') = n - 1
      /\ \A k \in 1 .. n - 1 : frames'[k] = frames[k]
  <2>1. 1 \in Int /\ n - 1 \in Int /\ \A k \in 1 .. n - 1 : frames[k] \in Frame
    BY <1>1
  <2>2. frames' = SubSeq(frames, 1, n - 1)
    BY <1>2
  <2> HIDE DEF n
  <2>3. /\ SubSeq(frames, 1, n - 1) \in Seq(Frame)
        /\ Len(SubSeq(frames, 1, n - 1)) = IF 1 <= n - 1 THEN n - 1 - 1 + 1 ELSE 0
        /\ \A k \in 1 .. n - 1 - 1 + 1 : SubSeq(frames, 1, n - 1)[k] = frames[1 + k - 1]
    BY <2>1, SubSeqProperties
  <2>4. QED
    BY <1>1, <2>2, <2>3
<1>4. CASE n = 1
  <2>1. frames' = <<>> /\ frames[n].caller = "user" /\ frames[n].level = 0 /\ frames # <<>>
    <3>1. frames' = <<>>
      BY <1>3, <1>4
    <3>2. frames # <<>>
      BY <1>1
    <3>3. QED
      BY <1>4, <3>1, <3>2 DEF NestingInv, FramesLinked
  <2>2. CurrentLevel = 0 /\ CurrentLevel' = 0
    BY <1>1, <2>1 DEF CurrentLevel
  <2>3. TypeOK'
    BY <1>2, <1>3 DEF NestingInv, TypeOK, Modes
  <2>4. FramesLinked' /\ LevelsGrow' /\ InterruptPreserved' /\ MessagesSaved'
    BY <1>3, <1>4, <2>1 DEF FramesLinked, LevelsGrow, InterruptPreserved, MessagesSaved
  <2>5. SlotsAreAStack'
    BY <1>2, <1>3, <1>4, <2>2 DEF NestingInv, SlotsAreAStack
  <2>6. ControlState'
    BY <1>2, <2>1 DEF NestingInv, ControlState, Return
  <2>7. QED
    BY <2>3, <2>4, <2>5, <2>6 DEF NestingInv
<1>5. CASE n # 1
  <2>1. n \in 2 .. Len(frames) /\ n - 1 \in 1 .. Len(frames) /\ frames' # <<>>
        /\ Innermost' = frames[n - 1] /\ frames # <<>>
    BY <1>1, <1>3, <1>5 DEF Innermost
  <2>2. /\ frames[n].level = Above(frames[n - 1])
        /\ frames[n].caller = "user" <=> Live(frames[n - 1])
        /\ frames[n].caller = "ack" => frames[n].msg = frames[n - 1].msg
    BY <2>1 DEF NestingInv, FramesLinked
  <2>3. CurrentLevel' = CurrentLevel
    BY <1>1, <2>1, <2>2 DEF CurrentLevel, Above, Live
  <2>4. TypeOK'
    BY <1>2, <1>3 DEF NestingInv, TypeOK, Modes
  <2>5. FramesLinked'
    BY <1>1, <1>3, <2>1 DEF NestingInv, FramesLinked, Above, Live
  <2>6. LevelsGrow'
    BY <1>1, <1>3 DEF NestingInv, LevelsGrow, Above, Live
  <2>7. SlotsAreAStack'
    BY <1>1, <1>2, <1>3, <2>3 DEF NestingInv, SlotsAreAStack, Live
  <2>8. InterruptPreserved' /\ MessagesSaved'
    BY <1>1, <1>2, <1>3 DEF NestingInv, InterruptPreserved, MessagesSaved, Live
  <2>9. ControlState'
    BY <1>1, <1>2, <2>1, <2>2 DEF NestingInv, ControlState, Return, Live, Frame
  <2>10. QED
    BY <2>4, <2>5, <2>6, <2>7, <2>8, <2>9 DEF NestingInv
<1>6. QED
  BY <1>4, <1>5

(* Steps of bluenet touch neither the activations nor the stack.           *)
LEMMA NestingBluenet ==
    ASSUME NestingInv, HandleRequest \/ HandleOutcome \/ Tick \/ GenerateInterrupt \/ Abandon
    PROVE  NestingInv'
<1>1. UNCHANGED <<ram, ipcValid, phase, stack, frames>> /\ m2b'.msg = m2b.msg
      /\ mode # "user" /\ mode' # "user" /\ mode' \in Modes
  BY DEF HandleRequest, HandleOutcome, Tick, GenerateInterrupt, Abandon, shared, bluenet, Modes,
         NestingInv, TypeOK, Outgoing
<1>2. UNCHANGED CurrentLevel
  BY <1>1 DEF CurrentLevel, Innermost, Live
<1>3. FramesLinked' /\ LevelsGrow' /\ InterruptPreserved' /\ MessagesSaved'
  BY <1>1 DEF NestingInv, FramesLinked, LevelsGrow, InterruptPreserved, MessagesSaved, Live, Above
<1>4. SlotsAreAStack'
  BY <1>1, <1>2 DEF NestingInv, SlotsAreAStack, Live
<1>5. mode' = "resumed" /\ b2m'.ack = "REQUEST" => b2m'.msg \in Interrupts
  BY DEF HandleRequest, HandleOutcome, Tick, GenerateInterrupt, Abandon, shared
<1>6. mode' \notin {"idle", "abandoned"} => calls' < MaxCalls
  BY BluenetAssumption
     DEF HandleRequest, HandleOutcome, Tick, GenerateInterrupt, Abandon, bluenet
<1>7. ControlState'
  BY <1>1, <1>5, <1>6 DEF NestingInv, ControlState, Innermost, Live
<1>8. TypeOK'
  <2>1. CASE HandleRequest
    <3>1. m2b' \in Outgoing
      BY <2>1 DEF NestingInv, TypeOK, HandleRequest, Outgoing
    <3>2. calls' \in 0 .. MaxCalls
      BY <2>1, BluenetAssumption DEF NestingInv, TypeOK, ControlState, HandleRequest
    <3>3. QED
      BY <1>1, <2>1, <3>1, <3>2 DEF NestingInv, TypeOK, HandleRequest, Outgoing
  <2>2. CASE HandleOutcome
    BY <1>1, <2>2 DEF NestingInv, TypeOK, HandleOutcome, shared
  <2>3. CASE Tick
    BY <1>1, <2>3, BluenetAssumption DEF NestingInv, TypeOK, Tick, Received, Incoming, Acks
  <2>4. CASE GenerateInterrupt
    BY <1>1, <2>4, BluenetAssumption
       DEF NestingInv, TypeOK, GenerateInterrupt, Received, Incoming, Acks
  <2>5. CASE Abandon
    BY <1>1, <2>5 DEF NestingInv, TypeOK, Abandon, shared, bluenet
  <2>6. QED
    BY <2>1, <2>2, <2>3, <2>4, <2>5
<1>9. QED
  BY <1>3, <1>4, <1>7, <1>8 DEF NestingInv

(* Every step preserves the first invariant.                               *)
LEMMA NestingStep == NestingInv /\ [Next]_vars => NestingInv'
<1> SUFFICES ASSUME NestingInv, [Next]_vars PROVE NestingInv'
  OBVIOUS
<1>0. phase \in {"setup", "loop"} /\ Requests \subseteq Messages /\ Yields \subseteq Messages
  BY DEF NestingInv, TypeOK, Messages
<1>1. CASE Request
  <2>1. PICK m \in Requests : sendMessage(m) /\ UNCHANGED phase
    BY <1>1 DEF Request
  <2>2. QED
    BY <1>0, <2>1, NestingSend
<1>2. CASE delay
  BY <1>0, <1>2, NestingSend DEF delay, Yields
<1>3. CASE signalSetupEnd
  BY <1>0, <1>3, NestingSend DEF signalSetupEnd, Yields
<1>4. CASE signalLoopEnd
  BY <1>0, <1>4, NestingSend DEF signalLoopEnd, Yields
<1>5. CASE HandlerReturn
  BY <1>5, NestingHandlerReturn
<1>6. CASE AcceptInterrupt
  BY <1>6, NestingAccept
<1>7. CASE DropInterrupt
  BY <1>7, NestingDrop
<1>8. CASE Return
  BY <1>8, NestingReturn
<1>9. CASE HandleRequest \/ HandleOutcome \/ Tick \/ GenerateInterrupt \/ Abandon
  BY <1>9, NestingBluenet
<1>10. CASE UNCHANGED vars
  <2>1. UNCHANGED <<mode, ram, ipcValid, phase, b2m, m2b, stack, frames, calls, irqs, irqAllowed>>
    BY <1>10 DEF vars, bluenet
  <2>2. UNCHANGED CurrentLevel
    BY <2>1 DEF CurrentLevel, Innermost, Live
  <2>3. TypeOK' /\ FramesLinked' /\ LevelsGrow' /\ InterruptPreserved' /\ MessagesSaved'
        /\ ControlState'
    BY <2>1 DEF NestingInv, TypeOK, FramesLinked, LevelsGrow, InterruptPreserved,
                MessagesSaved, ControlState, Innermost, Live, Above
  <2>4. SlotsAreAStack'
    BY <2>1, <2>2 DEF NestingInv, SlotsAreAStack, Live
  <2>5. QED
    BY <2>3, <2>4 DEF NestingInv
<1>11. QED
  BY <1>1, <1>2, <1>3, <1>4, <1>5, <1>6, <1>7, <1>8, <1>9, <1>10
     DEF Next, UserStep, LibraryStep, BluenetStep

(* The nesting of activations and the stack of saved buffers stay in step, *)
(* whatever a handler returns.                                             *)
THEOREM Nesting == Spec => []NestingInv
<1>1. QED
  BY NestingInit, NestingStep, PTL DEF Spec

(* Every variable keeps its type (microapp.c:56-98).                       *)
THEOREM TypeCorrect == Spec => []TypeOK
<1>1. NestingInv => TypeOK
  BY DEF NestingInv
<1>2. QED
  BY <1>1, Nesting, PTL

(* The search for a free slot makes the slots a stack (microapp.c:162-232).*)
THEOREM StackDiscipline == Spec => []SlotsAreAStack
<1>1. NestingInv => SlotsAreAStack
  BY DEF NestingInv
<1>2. QED
  BY <1>1, Nesting, PTL

(* A handler works on the interrupt it was started for (microapp.c:207).   *)
THEOREM InterruptsPreserved == Spec => []InterruptPreserved
<1>1. NestingInv => InterruptPreserved
  BY DEF NestingInv
<1>2. QED
  BY <1>1, Nesting, PTL

------------------------------------------------------------------------------
(* The answer invariant, for handlers that return a result of their own.   *)

(* The second invariant holds at the start.                                *)
LEMMA AnswerInit == Init => AnswerInv
  BY DEF Init, AnswerInv, BlankIn, BlankOut

(* User code, and the end of a handler, preserve the second invariant.     *)
LEMMA AnswerUser ==
    ASSUME Isrs = {}, NestingInv, AnswerInv, UserStep, NestingInv'
    PROVE  AnswerInv'
<1>1. ASSUME NEW m, sendMessage(m) PROVE AnswerInv'
  <2>1. /\ mode = "user" /\ UNCHANGED <<b2m, stack>>
        /\ m2b' = [msg |-> m, served |-> 0, room |-> emptySlotsInStack]
        /\ mode' \in {"signalled", "user"}
    BY <1>1 DEF sendMessage, Signal
  <2>2. emptySlotsInStack' = emptySlotsInStack
    BY <2>1 DEF emptySlotsInStack, EmptySlots
  <2>3. QED
    BY <2>1, <2>2 DEF AnswerInv
<1>2. ASSUME HandlerReturn PROVE AnswerInv'
  <2> DEFINE s == Innermost.slot
  <2>1. /\ \E result \in Results(stack[s].in.msg) : b2m' = [b2m EXCEPT !.ack = result]
        /\ m2b' = stack[s].out
        /\ stack' = [stack EXCEPT ![s].filled = FALSE]
        /\ mode' = "signalled"
        /\ frames # <<>> /\ Live(Innermost) /\ Innermost = frames[Len(frames)]
    BY <1>2 DEF HandlerReturn, Innermost, Acked, Restored, Freed
  <2>2. s \in Slots /\ stack[s].filled
    <3>1. frames[Len(frames)] \in Frame /\ Len(frames) \in 1 .. Len(frames)
      BY <2>1 DEF NestingInv, TypeOK
    <3>2. QED
      BY <2>1, <3>1 DEF NestingInv, InterruptPreserved, Live, Frame
  <2>3. Results(stack[s].in.msg) \subseteq {"ERR_BUSY", "SUCCESS"}
    BY MessageAssumption, Isrs = {} DEF Results, Acks
  <2>4. b2m'.ack \in {"ERR_BUSY", "SUCCESS"}
    BY <2>1, <2>3 DEF NestingInv, TypeOK, Received
  <2>5. m2b'.served = 1
    BY <2>1, <2>2 DEF AnswerInv
  <2>6. \A t \in Slots : stack'[t].filled => stack[t].filled /\ stack'[t].out = stack[t].out
    BY <2>1, <2>2 DEF NestingInv, TypeOK, StackEntry
  <2>7. QED
    BY <2>1, <2>4, <2>5, <2>6 DEF AnswerInv
<1>3. QED
  BY <1>1, <1>2 DEF UserStep, Request, delay, signalSetupEnd, signalLoopEnd

(* So do the steps handleBluenetInterrupt and sendMessage take by          *)
(* themselves.                                                             *)
LEMMA AnswerLibrary ==
    ASSUME NestingInv, AnswerInv, LibraryStep
    PROVE  AnswerInv'
<1>1. CASE AcceptInterrupt
  <2>1. /\ mode = "resumed" /\ mode' = "user" /\ UNCHANGED m2b
        /\ b2m' = [b2m EXCEPT !.ack = "IN_PROGRESS"]
        /\ stack' = [stack EXCEPT ![getNextEmptyStackSlot] =
                        [filled |-> TRUE, in |-> b2m, out |-> m2b]]
    BY <1>1 DEF AcceptInterrupt, Acked, Saved
  <2>2. getNextEmptyStackSlot \in Slots
    BY <1>1, NextSlotIsLevel DEF AcceptInterrupt, NestingInv, Acked, Saved
  <2>3. b2m'.ack = "IN_PROGRESS" /\ m2b.served = 1
    BY <2>1 DEF NestingInv, TypeOK, Received, AnswerInv
  <2>4. \A t \in Slots : stack'[t].filled => stack'[t].out.served = 1
    BY <2>1, <2>2, <2>3 DEF NestingInv, TypeOK, AnswerInv
  <2>5. QED
    BY <2>1, <2>3, <2>4 DEF AnswerInv
<1>2. CASE DropInterrupt
  <2>1. /\ mode = "resumed" /\ mode' = "signalled" /\ UNCHANGED <<m2b, stack>>
        /\ b2m' = [b2m EXCEPT !.ack = "ERR_BUSY"]
    BY <1>2 DEF DropInterrupt, Signal, Acked
  <2>2. b2m'.ack = "ERR_BUSY"
    BY <2>1 DEF NestingInv, TypeOK, Received
  <2>3. QED
    BY <2>1, <2>2 DEF AnswerInv
<1>3. CASE Return
  BY <1>3 DEF Return, AnswerInv, shared
<1>4. QED
  BY <1>1, <1>2, <1>3 DEF LibraryStep

(* So do the steps of bluenet.                                             *)
LEMMA AnswerBluenet ==
    ASSUME NestingInv, AnswerInv,
           HandleRequest \/ HandleOutcome \/ Tick \/ GenerateInterrupt \/ Abandon
    PROVE  AnswerInv'
<1>1. CASE HandleRequest
  <2>1. /\ mode = "signalled" /\ mode' \in {"idle", "resumed"} /\ UNCHANGED <<b2m, stack>>
        /\ b2m.ack \in {"NO_REQUEST", "IN_PROGRESS"}
        /\ m2b' = [m2b EXCEPT !.served = IF @ = 0 THEN 1 ELSE 2]
    BY <1>1 DEF HandleRequest
  <2>2. m2b'.served = 1
    BY <2>1 DEF NestingInv, TypeOK, Outgoing, AnswerInv
  <2>3. QED
    BY <2>1, <2>2 DEF AnswerInv
<1>2. CASE HandleOutcome
  BY <1>2 DEF HandleOutcome, AnswerInv, shared
<1>3. CASE Tick
  BY <1>3 DEF Tick, AnswerInv
<1>4. CASE GenerateInterrupt
  BY <1>4 DEF GenerateInterrupt, AnswerInv
<1>5. CASE Abandon
  <2>1. mode' = "abandoned" /\ UNCHANGED <<m2b, stack>> /\ mode \in {"signalled", "abandoned"}
    BY <1>5 DEF Abandon, shared
  <2>2. m2b.served <= 1
    BY <2>1 DEF AnswerInv
  <2>3. QED
    BY <2>1, <2>2 DEF AnswerInv
<1>6. QED
  BY <1>1, <1>2, <1>3, <1>4, <1>5

(* Every step preserves the second invariant.                              *)
LEMMA AnswerStep ==
    ASSUME Isrs = {}
    PROVE  NestingInv /\ AnswerInv /\ [Next]_vars => AnswerInv'
<1> SUFFICES ASSUME NestingInv, AnswerInv, [Next]_vars PROVE AnswerInv'
  OBVIOUS
<1>1. NestingInv'
  BY NestingStep
<1>2. CASE UserStep
  BY <1>1, <1>2, AnswerUser
<1>3. CASE LibraryStep
  BY <1>3, AnswerLibrary
<1>4. CASE BluenetStep \/ Tick \/ GenerateInterrupt \/ Abandon
  BY <1>4, AnswerBluenet DEF BluenetStep
<1>5. CASE UNCHANGED vars
  <2>1. UNCHANGED <<mode, b2m, m2b, stack>>
    BY <1>5 DEF vars
  <2>2. QED
    BY <2>1 DEF AnswerInv, emptySlotsInStack, EmptySlots
<1>6. QED
  BY <1>2, <1>3, <1>4, <1>5 DEF Next

(* The second invariant: acks and answers go together, unless a handler of *)
(* attachInterrupt returns what happens to be in the register.             *)
THEOREM Answers ==
    ASSUME Isrs = {}
    PROVE  Spec => [](NestingInv /\ AnswerInv)
<1>1. NestingInv /\ AnswerInv /\ [Next]_vars => AnswerInv'
  BY AnswerStep
<1>2. QED
  BY <1>1, AnswerInit, NestingInit, NestingStep, PTL DEF Spec

(* Without attachInterrupt, bluenet serves every message at most once: the *)
(* request put back after an interrupt is never served again               *)
(* (microapp.c:222-230).                                                   *)
THEOREM ServedAtMostOnce ==
    ASSUME Isrs = {}
    PROVE  Spec => []AtMostOnce
<1>1. NestingInv /\ AnswerInv => AtMostOnce
  <2> SUFFICES ASSUME NestingInv, AnswerInv PROVE AtMostOnce
    OBVIOUS
  <2>1. m2b.served <= 1
    BY DEF AnswerInv, NestingInv, TypeOK, Modes
  <2>2. QED
    BY <2>1 DEF AnswerInv, AtMostOnce
<1>2. QED
  BY <1>1, Answers, PTL

(* Bluenet never gets control back with its interrupt unanswered           *)
(* (microapp.c:213, 229).                                                  *)
THEOREM InterruptsAnswered ==
    ASSUME Isrs = {}
    PROVE  Spec => []InterruptAnswered
<1>1. AnswerInv => InterruptAnswered
  BY DEF AnswerInv, InterruptAnswered
<1>2. QED
  BY <1>1, Answers, PTL

(* User code that gets back from sendMessage finds its own message,        *)
(* answered once (microapp.c:201-226).                                     *)
THEOREM AnswersDelivered ==
    ASSUME Isrs = {}
    PROVE  Spec => AnswerDelivered
<1>1. NestingInv /\ AnswerInv /\ [Next]_vars => [AnswerArrives]_vars
  <2> SUFFICES ASSUME NestingInv, AnswerInv, Next,
                      mode # "user", mode' = "user", Len(frames') < Len(frames)
               PROVE  m2b'.msg = Innermost.msg /\ m2b'.served = 1
    BY DEF AnswerArrives
  <2>1. CASE Return
    BY <2>1 DEF Return, NestingInv, ControlState, AnswerInv, shared
  <2>2. CASE AcceptInterrupt
    <3>1. Len(frames') = Len(frames)
      BY <2>2 DEF AcceptInterrupt, NestingInv, TypeOK, Acked, Saved
    <3>2. QED
      BY <3>1 DEF NestingInv, TypeOK
  <2>3. ~UserStep
    BY DEF UserStep, Request, delay, signalSetupEnd, signalLoopEnd, sendMessage, HandlerReturn, Acked, Restored, Freed
  <2>4. mode' = "user" => ~(DropInterrupt \/ BluenetStep \/ Tick \/ GenerateInterrupt \/ Abandon)
    BY DEF DropInterrupt, Signal, BluenetStep, HandleRequest, HandleOutcome, Tick,
           GenerateInterrupt, Abandon, Acked
  <2>5. QED
    BY <2>1, <2>2, <2>3, <2>4 DEF Next, LibraryStep
<1>2. QED
  BY <1>1, Answers, PTL DEF Spec, AnswerDelivered

------------------------------------------------------------------------------
(* The refinement.                                                         *)

(* The filled slots determine the level.                                   *)
LEMMA LevelDetermined ==
    ASSUME NEW L \in 0 .. MAX_INTERRUPT_DEPTH, NEW M \in 0 .. MAX_INTERRUPT_DEPTH,
           \A s \in Slots : s < L <=> s < M
    PROVE  L = M
<1>1. CASE L < M
  <2>1. L \in Slots
    BY <1>1, DepthAssumption DEF Slots
  <2>2. QED
    BY <1>1, <2>1
<1>2. CASE M < L
  <2>1. M \in Slots
    BY <1>2, DepthAssumption DEF Slots
  <2>2. QED
    BY <1>2, <2>1
<1>3. QED
  BY <1>1, <1>2

(* A step that leaves the stack alone leaves the level alone.              *)
LEMMA LevelUnchanged ==
    ASSUME NestingInv, NestingInv', UNCHANGED stack
    PROVE  CurrentLevel' = CurrentLevel
<1>1. CurrentLevel \in 0 .. MAX_INTERRUPT_DEPTH
  BY LevelInRange DEF NestingInv
<1>2. CurrentLevel' \in 0 .. MAX_INTERRUPT_DEPTH
  <2>1. TypeOK' /\ SlotsAreAStack'
    BY DEF NestingInv
  <2>2. (TypeOK /\ SlotsAreAStack => CurrentLevel \in 0 .. MAX_INTERRUPT_DEPTH)'
    BY LevelInRange, PTL
  <2>3. QED
    BY <2>1, <2>2
<1>3. \A s \in Slots : s < CurrentLevel <=> s < CurrentLevel'
  BY DEF NestingInv, SlotsAreAStack
<1>4. QED
  BY <1>1, <1>2, <1>3, LevelDetermined

(* A step that leaves the stack and the outgoing message alone is a        *)
(* stuttering step of PrivateBuffers.                                      *)
LEMMA BuffersUnchanged ==
    ASSUME NestingInv, NestingInv', UNCHANGED <<stack, m2b>>
    PROVE  UNCHANGED Buffers!vars
<1>1. CurrentLevel' = CurrentLevel
  BY LevelUnchanged
<1>2. QED
  BY <1>1 DEF Buffers!vars, LevelBuffers, Content

(* The buffers after a step, level by level.                               *)
LEMMA BufferUpdate ==
    ASSUME NEW L, NEW v,
           \A n \in 0 .. MAX_INTERRUPT_DEPTH :
              LevelBuffers'[n] = IF n = L THEN v ELSE LevelBuffers[n]
    PROVE  LevelBuffers' = [LevelBuffers EXCEPT ![L] = v]
<1> DEFINE D == 0 .. MAX_INTERRUPT_DEPTH
           F(l, st, out) == [n \in D |->
                               IF n < l THEN Content(st[n].out)
                               ELSE IF n = l THEN Content(out) ELSE Content(BlankOut)]
<1>1. LevelBuffers = F(CurrentLevel, stack, m2b) /\ LevelBuffers' = F(CurrentLevel', stack', m2b')
  BY DEF LevelBuffers, Content
<1>2. \A l, st, out : F(l, st, out) = [n \in D |-> F(l, st, out)[n]]
  OBVIOUS
<1> HIDE DEF F, D
<1>3. LevelBuffers = [n \in D |-> LevelBuffers[n]] /\ LevelBuffers' = [n \in D |-> LevelBuffers'[n]]
  BY <1>1, <1>2
<1>4. ASSUME NEW G, NEW H, G = [n \in D |-> G[n]], H = [n \in D |-> H[n]],
             \A n \in D : H[n] = IF n = L THEN v ELSE G[n]
      PROVE  H = [G EXCEPT ![L] = v]
  BY <1>4
<1>5. \A n \in D : LevelBuffers'[n] = IF n = L THEN v ELSE LevelBuffers[n]
  BY DEF D
<1> HIDE DEF LevelBuffers
<1>6. QED
  BY <1>3, <1>4, <1>5

(* Filling in the outgoing buffer is the abstract Write.                   *)
LEMMA SendWrites ==
    ASSUME NestingInv, NestingInv', NEW m \in Messages, sendMessage(m)
    PROVE  Buffers!Write
<1>1. /\ UNCHANGED stack /\ CurrentLevel' = CurrentLevel
      /\ Content(m2b') = [msg |-> m, served |-> 0]
  BY LevelUnchanged DEF sendMessage, Content
<1>2. CurrentLevel \in 0 .. MAX_INTERRUPT_DEPTH
  BY LevelInRange DEF NestingInv
<1>3. LevelBuffers' = [LevelBuffers EXCEPT ![CurrentLevel] = [msg |-> m, served |-> 0]]
  <2>1. \A n \in 0 .. MAX_INTERRUPT_DEPTH :
           LevelBuffers'[n] = IF n = CurrentLevel THEN [msg |-> m, served |-> 0]
                              ELSE LevelBuffers[n]
    BY <1>1, <1>2 DEF LevelBuffers, Content
  <2>2. QED
    BY <2>1, BufferUpdate
<1>4. QED
  BY <1>1, <1>3 DEF Buffers!Write

(* An answer of bluenet is the abstract Serve.                             *)
LEMMA RequestServes ==
    ASSUME NestingInv, NestingInv', AnswerInv, HandleRequest
    PROVE  Buffers!Serve
<1>1. /\ UNCHANGED stack /\ CurrentLevel' = CurrentLevel
      /\ m2b.served = 0 /\ m2b' = [m2b EXCEPT !.served = 1]
  BY LevelUnchanged DEF HandleRequest, AnswerInv, NestingInv, TypeOK, Outgoing
<1>2. m2b.msg # None
  <2>1. Innermost \in Frame /\ m2b.msg = Innermost.msg
    BY DEF HandleRequest, NestingInv, ControlState, TypeOK, Innermost
  <2>2. None \notin Messages
    BY MessageAssumption DEF Messages, Yields, None
  <2>3. QED
    BY <2>1, <2>2 DEF Frame
<1>3. CurrentLevel \in 0 .. MAX_INTERRUPT_DEPTH
  BY LevelInRange DEF NestingInv
<1>4. LevelBuffers[CurrentLevel] = [msg |-> m2b.msg, served |-> 0]
  BY <1>1, <1>3 DEF LevelBuffers, Content
<1>5. Content(m2b') = [msg |-> m2b.msg, served |-> 1]
  BY <1>1 DEF Content, NestingInv, TypeOK, Outgoing
<1>6. LevelBuffers' = [LevelBuffers EXCEPT ![CurrentLevel].served = 1]
  <2> DEFINE v == [msg |-> m2b.msg, served |-> 1]
  <2>1. \A n \in 0 .. MAX_INTERRUPT_DEPTH :
           LevelBuffers'[n] = IF n = CurrentLevel THEN v ELSE LevelBuffers[n]
    BY <1>1, <1>3, <1>5 DEF LevelBuffers, Content
  <2>3. [LevelBuffers[CurrentLevel] EXCEPT !.served = 1] = v
    BY <1>4
  <2> HIDE DEF v
  <2>2. LevelBuffers' = [LevelBuffers EXCEPT ![CurrentLevel] = v]
    BY <2>1, BufferUpdate
  <2>4. QED
    BY <2>2, <2>3
<1>7. QED
  BY <1>1, <1>2, <1>4, <1>6 DEF Buffers!Serve

(* Accepting an interrupt is the abstract Enter.                           *)
LEMMA AcceptEnters ==
    ASSUME NestingInv, NestingInv', AcceptInterrupt
    PROVE  Buffers!Enter
<1> DEFINE L == CurrentLevel
<1>1. getNextEmptyStackSlot = L /\ L \in Slots
  BY NextSlotIsLevel DEF NestingInv, AcceptInterrupt, Acked, Saved
<1>2. /\ stack' = [stack EXCEPT ![L] = [filled |-> TRUE, in |-> b2m, out |-> m2b]]
      /\ UNCHANGED m2b
  BY <1>1 DEF AcceptInterrupt, Acked, Saved
<1>3. CurrentLevel' = L + 1
  <2>1. Innermost.level = L /\ ~Live(Innermost) /\ frames # <<>>
    BY DEF NestingInv, AcceptInterrupt, ControlState, CurrentLevel, Acked, Saved
  <2>2. /\ Innermost'.slot = L /\ Innermost'.level = L /\ frames' # <<>>
    <3>1. frames' = [frames EXCEPT ![Len(frames)] = [@ EXCEPT !.slot = L, !.irq = b2m.msg]]
      BY <1>1 DEF AcceptInterrupt, Acked, Saved
    <3>2. frames \in Seq(Frame) /\ Len(frames) \in 1 .. Len(frames)
          /\ Innermost = frames[Len(frames)] /\ Innermost \in Frame
      BY <2>1 DEF NestingInv, TypeOK, Innermost
    <3>3. /\ Len(frames') = Len(frames)
          /\ frames'[Len(frames)] = [Innermost EXCEPT !.slot = L, !.irq = b2m.msg]
      <4> DEFINE e == [Innermost EXCEPT !.slot = L, !.irq = b2m.msg]
      <4>1. frames' = [frames EXCEPT ![Len(frames)] = e]
        BY <3>1, <3>2
      <4>2. e \in Frame
        <5>1. b2m.msg \in Interrupts
          BY DEF NestingInv, ControlState, AcceptInterrupt, Acked, Saved
        <5>2. QED
          BY <1>1, <3>2, <5>1 DEF Frame
      <4> HIDE DEF e
      <4>3. Len(frames') = Len(frames) /\ frames'[Len(frames)] = e
        BY <3>2, <4>1, <4>2, ReplaceElement
      <4>4. QED
        BY <4>3 DEF e
    <3>4. QED
      BY <2>1, <3>2, <3>3 DEF Innermost, Frame
  <2>3. QED
    BY <1>1, <2>2 DEF CurrentLevel, Live, Slots, NoSlot
<1>4. stack'[L].out = m2b /\ \A s \in Slots : s # L => stack'[s] = stack[s]
  BY <1>1, <1>2 DEF NestingInv, TypeOK
<1> HIDE DEF L
<1>5. L < MAX_INTERRUPT_DEPTH /\ L \in Nat
  BY <1>1, DepthAssumption DEF Slots
<1>6. LevelBuffers' = [LevelBuffers EXCEPT ![L + 1] = LevelBuffers[L]]
  <2>1. LevelBuffers[L] = Content(m2b)
    BY <1>5, DepthAssumption DEF LevelBuffers, L
  <2>2. \A n \in 0 .. MAX_INTERRUPT_DEPTH :
           LevelBuffers'[n] = IF n = L + 1 THEN Content(m2b) ELSE LevelBuffers[n]
    BY <1>1, <1>2, <1>3, <1>4, <1>5, DepthAssumption DEF LevelBuffers, Content, Slots, L
  <2>3. QED
    BY <2>1, <2>2, BufferUpdate
<1>7. QED
  BY <1>3, <1>5, <1>6 DEF Buffers!Enter, L

(* The return of a handler is the abstract Leave.                          *)
LEMMA HandlerLeaves ==
    ASSUME NestingInv, NestingInv', HandlerReturn
    PROVE  Buffers!Leave
<1> DEFINE L == CurrentLevel
           s == Innermost.slot
<1>1. /\ frames # <<>> /\ Live(Innermost)
      /\ m2b' = stack[s].out
      /\ stack' = [stack EXCEPT ![s].filled = FALSE]
  BY DEF HandlerReturn, Acked, Restored, Freed
<1>2. s \in Slots /\ s = L - 1
  <2>1. frames \in Seq(Frame) /\ Len(frames) \in 1 .. Len(frames)
        /\ Innermost = frames[Len(frames)] /\ Innermost \in Frame
    BY <1>1 DEF NestingInv, TypeOK, Innermost
  <2>2. s = Innermost.level /\ s \in Slots
    BY <1>1, <2>1 DEF NestingInv, SlotsAreAStack, Live, Frame
  <2>3. QED
    BY <1>1, <2>2 DEF CurrentLevel, Slots
<1>3. /\ L \in 1 .. MAX_INTERRUPT_DEPTH /\ L - 1 \in 0 .. MAX_INTERRUPT_DEPTH
  <2>1. L \in 0 .. MAX_INTERRUPT_DEPTH
    BY LevelInRange DEF NestingInv
  <2>2. QED
    BY <1>2, <2>1, DepthAssumption DEF Slots
<1>4. \A t \in Slots : stack'[t].out = stack[t].out /\ (stack'[t].filled <=> t # s /\ stack[t].filled)
  BY <1>1, <1>2 DEF NestingInv, TypeOK, StackEntry
<1> HIDE DEF L, s
<1>5. CurrentLevel' = L - 1
  <2>1. CurrentLevel' \in 0 .. MAX_INTERRUPT_DEPTH
    <3>1. TypeOK' /\ SlotsAreAStack'
      BY DEF NestingInv
    <3>2. (TypeOK /\ SlotsAreAStack => CurrentLevel \in 0 .. MAX_INTERRUPT_DEPTH)'
      BY LevelInRange, PTL
    <3>3. QED
      BY <3>1, <3>2
  <2>2. \A t \in Slots : stack[t].filled <=> t < L
    BY DEF NestingInv, SlotsAreAStack, L
  <2>3. \A t \in Slots : stack'[t].filled <=> t < CurrentLevel'
    BY DEF NestingInv, SlotsAreAStack
  <2>4. \A t \in Slots : t < CurrentLevel' <=> t < L - 1
    BY <1>2, <1>3, <1>4, <2>2, <2>3 DEF Slots
  <2>5. QED
    BY <1>3, <2>1, <2>4, LevelDetermined
<1>6. LevelBuffers' = [LevelBuffers EXCEPT ![L] = Content(BlankOut)]
  <2>1. \A n \in 0 .. MAX_INTERRUPT_DEPTH :
           LevelBuffers'[n] = IF n = L THEN Content(BlankOut) ELSE LevelBuffers[n]
    BY <1>1, <1>2, <1>3, <1>4, <1>5, DepthAssumption DEF LevelBuffers, Content, Slots, L
  <2>2. QED
    BY <2>1, BufferUpdate
<1>7. QED
  BY <1>3, <1>5, <1>6 DEF Buffers!Leave, Buffers!Blank, Content, BlankOut, L

(* With handlers that return a result of their own, sharing one outgoing   *)
(* buffer and saving it on a stack is as good as one buffer per level      *)
(* (CONTROL_FLOW.md:14-23, microapp.c:174-232).                            *)
THEOREM PrivateBuffersImplemented ==
    ASSUME Isrs = {}
    PROVE  Spec => ImplementsPrivateBuffers
<1>1. Init => Buffers!Init
  <2> SUFFICES ASSUME Init PROVE Buffers!Init
    OBVIOUS
  <2>1. CurrentLevel = 0 /\ Content(m2b) = Content(BlankOut)
    BY DEF Init, CurrentLevel
  <2>2. LevelBuffers = [n \in 0 .. MAX_INTERRUPT_DEPTH |-> Content(BlankOut)]
    BY <2>1 DEF LevelBuffers
  <2>3. QED
    BY <2>1, <2>2 DEF Buffers!Init, Buffers!Blank, Content, BlankOut
<1>2. NestingInv /\ AnswerInv /\ NestingInv' /\ [Next]_vars => [Buffers!Next]_(Buffers!vars)
  <2> SUFFICES ASSUME NestingInv, AnswerInv, NestingInv', [Next]_vars
               PROVE  Buffers!Next \/ UNCHANGED Buffers!vars
    OBVIOUS
  <2>1. CASE Request \/ delay \/ signalSetupEnd \/ signalLoopEnd
    <3>1. PICK m \in Messages : sendMessage(m)
      BY <2>1 DEF Request, delay, signalSetupEnd, signalLoopEnd, Messages, Yields
    <3>2. QED
      BY <3>1, SendWrites DEF Buffers!Next
  <2>2. CASE HandlerReturn
    BY <2>2, HandlerLeaves DEF Buffers!Next
  <2>3. CASE AcceptInterrupt
    BY <2>3, AcceptEnters DEF Buffers!Next
  <2>4. CASE HandleRequest
    BY <2>4, RequestServes DEF Buffers!Next
  <2>5. CASE DropInterrupt \/ Return \/ HandleOutcome \/ Tick \/ GenerateInterrupt \/ Abandon
    <3>1. UNCHANGED <<stack, m2b>>
      BY <2>5 DEF DropInterrupt, Return, HandleOutcome, Tick, GenerateInterrupt, Abandon, shared, Acked
    <3>2. QED
      BY <3>1, BuffersUnchanged
  <2>6. CASE UNCHANGED vars
    <3>1. UNCHANGED <<stack, m2b>>
      BY <2>6 DEF vars
    <3>2. QED
      BY <3>1, BuffersUnchanged
  <2>7. QED
    BY <2>1, <2>2, <2>3, <2>4, <2>5, <2>6 DEF Next, UserStep, LibraryStep, BluenetStep
<1>3. QED
  BY <1>1, <1>2, Answers, PTL DEF Spec, ImplementsPrivateBuffers, Buffers!Spec

------------------------------------------------------------------------------
(* Capacity, for handlers that never return ERR_BUSY.                      *)

(* Every step preserves the third invariant.                               *)
LEMMA CapacityStep ==
    ASSUME Isrs = {}, "ERR_BUSY" \notin HandlerResults
    PROVE  NestingInv /\ AnswerInv /\ CapacityInv /\ [Next]_vars => CapacityInv'
<1> SUFFICES ASSUME NestingInv, AnswerInv, CapacityInv, [Next]_vars PROVE CapacityInv'
  OBVIOUS
<1>1. CASE Request \/ delay \/ signalSetupEnd \/ signalLoopEnd
  <2>1. PICK m : sendMessage(m)
    BY <1>1 DEF Request, delay, signalSetupEnd, signalLoopEnd
  <2>2. /\ mode = "user" /\ UNCHANGED <<b2m, stack, irqAllowed>> /\ mode' \in {"user", "signalled"}
    BY <2>1 DEF sendMessage, Signal, bluenet
  <2>3. b2m.ack \in {"NO_REQUEST", "IN_PROGRESS"}
    BY <2>2 DEF AnswerInv
  <2>4. QED
    BY <2>2, <2>3 DEF CapacityInv, BusyMeansFull, EmptySlots
<1>2. CASE HandlerReturn
  <2>1. /\ \E result \in Results(stack[Innermost.slot].in.msg) : b2m' = [b2m EXCEPT !.ack = result]
        /\ mode' = "signalled"
    BY <1>2 DEF HandlerReturn, Acked, Restored, Freed
  <2>2. Results(stack[Innermost.slot].in.msg) \subseteq {"SUCCESS"}
    BY MessageAssumption, Isrs = {}, "ERR_BUSY" \notin HandlerResults DEF Results, Acks
  <2>3. b2m'.ack = "SUCCESS"
    BY <2>1, <2>2 DEF NestingInv, TypeOK, Received
  <2>4. QED
    BY <2>1, <2>3 DEF CapacityInv, BusyMeansFull
<1>3. CASE AcceptInterrupt
  <2>1. EmptySlots # {} /\ mode = "resumed" /\ mode' = "user" /\ UNCHANGED irqAllowed
    BY <1>3 DEF AcceptInterrupt, bluenet, Acked, Saved
  <2>2. QED
    BY <2>1 DEF CapacityInv, BusyMeansFull
<1>4. CASE DropInterrupt
  <2>1. EmptySlots = {} /\ UNCHANGED <<stack, irqAllowed>>
    BY <1>4 DEF DropInterrupt, bluenet, Acked
  <2>2. QED
    BY <2>1 DEF CapacityInv, BusyMeansFull, EmptySlots
<1>5. CASE HandleRequest
  <2>1. /\ mode = "signalled" /\ mode' # "signalled" /\ UNCHANGED <<b2m, stack>>
        /\ b2m.ack \in {"NO_REQUEST", "IN_PROGRESS"}
        /\ irqAllowed' = m2b.room \/ irqAllowed' = irqAllowed
    BY <1>5 DEF HandleRequest
  <2>2. m2b.room = emptySlotsInStack /\ b2m.ack # "SUCCESS"
    BY <2>1 DEF AnswerInv
  <2>3. EmptySlots' = EmptySlots
    BY <2>1 DEF EmptySlots
  <2>4. ~irqAllowed' => EmptySlots' = {}
    <3>1. CASE irqAllowed' = m2b.room
      <4>1. irqAllowed' = (EmptySlots # {})
        BY <2>2, <3>1 DEF emptySlotsInStack
      <4>2. QED
        BY <2>3, <4>1
    <3>2. CASE irqAllowed' = irqAllowed
      BY <2>1, <2>2, <2>3, <3>2 DEF CapacityInv
    <3>3. QED
      BY <2>1, <3>1, <3>2
  <2>5. QED
    BY <2>1, <2>4 DEF CapacityInv, BusyMeansFull
<1>6. CASE HandleOutcome
  <2>1. /\ mode = "signalled" /\ mode' # "signalled" /\ UNCHANGED <<b2m, stack>>
        /\ irqAllowed' = (b2m.ack # "ERR_BUSY")
    BY <1>6 DEF HandleOutcome, shared
  <2>2. QED
    BY <2>1 DEF CapacityInv, BusyMeansFull, EmptySlots
<1>7. CASE Return \/ Tick \/ GenerateInterrupt \/ Abandon
  <2>1. /\ UNCHANGED <<stack, irqAllowed>> /\ mode' # "signalled"
        /\ mode \notin {"signalled", "abandoned"} \/ mode' = "abandoned"
    BY <1>7 DEF Return, Tick, GenerateInterrupt, Abandon, bluenet, shared
  <2>2. QED
    BY <2>1 DEF CapacityInv, BusyMeansFull, EmptySlots
<1>8. CASE UNCHANGED vars
  <2>1. UNCHANGED <<mode, b2m, stack, irqAllowed>>
    BY <1>8 DEF vars, bluenet
  <2>2. QED
    BY <2>1 DEF CapacityInv, BusyMeansFull, EmptySlots
<1>9. QED
  BY <1>1, <1>2, <1>3, <1>4, <1>5, <1>6, <1>7, <1>8 DEF Next, UserStep, LibraryStep, BluenetStep

(* The third invariant, for handlers that do not return ERR_BUSY.          *)
LEMMA CapacityAlways ==
    ASSUME Isrs = {}, "ERR_BUSY" \notin HandlerResults
    PROVE  Spec => []CapacityInv
<1>1. Init => CapacityInv
  BY DEF Init, CapacityInv, BusyMeansFull
<1>2. NestingInv /\ AnswerInv /\ CapacityInv /\ [Next]_vars => CapacityInv'
  BY CapacityStep
<1>3. QED
  BY <1>1, <1>2, Answers, PTL DEF Spec

(* ERR_BUSY tells bluenet the truth: every slot is taken                   *)
(* (microapp.c:184-199).                                                   *)
THEOREM BusyIsTrue ==
    ASSUME Isrs = {}, "ERR_BUSY" \notin HandlerResults
    PROVE  Spec => []BusyMeansFull
<1>1. CapacityInv => BusyMeansFull
  BY DEF CapacityInv
<1>2. QED
  BY <1>1, CapacityAlways, PTL

(* Interrupts are only held back while the stack is full                   *)
(* (CONTROL_FLOW.md:12-13).                                                *)
THEOREM CapacityIsUsed ==
    ASSUME Isrs = {}, "ERR_BUSY" \notin HandlerResults
    PROVE  Spec => []NoLostCapacity
<1>1. CapacityInv => NoLostCapacity
  BY DEF CapacityInv, NoLostCapacity
<1>2. QED
  BY <1>1, CapacityAlways, PTL
=============================================================================
