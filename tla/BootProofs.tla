----------------------------- MODULE BootProofs -----------------------------
(***************************************************************************)
(* Boot for any interrupt lines and any bound on faults: handlers are      *)
(* atomic, requests are acknowledged, and none is taken too early.         *)
(***************************************************************************)
EXTENDS Boot, TLAPS

\* The type invariant but for the stack and the flag.
Scalars == /\ at \in 1 .. 8
           /\ ds \in {"data", "code", "none"}
           /\ gdt \in [Selectors -> {"data", "code", "none"}]
           /\ gates \subseteq {13, 32, 33}
           /\ state \in {"runs", "halted", "reset"}
           /\ base \in {8, 32}
           /\ irr \subseteq Lines /\ isr \subseteq Lines \cup {2}
           /\ faults \in 0 .. MaxFaults

\* What kernel_main has set up by each step of BootOrder.
SetUp == /\ at \in 1 .. 8
         /\ at >= 4 => gdt = KernelSegments
         /\ at >= 6 => gates = {33, 32, 13}
         /\ at >= 7 => base = 32

\* Interrupts are off until everything is set up, and inside of handlers.
Disabled == /\ IF_ => at = 8 /\ stack = <<>>
            /\ stack # <<>> => at = 8

\* A handler of a line is the outermost one and has a gate; what lies above it,
\* or alone, are fault handlers, which do not return.
WellNested ==
  \A k \in 1 .. Len(stack) :
    /\ stack[k].cs = 16
    /\ \/ stack[k].vector = 13 /\ stack[k].next \in {"segments", "report"}
       \/ k = 1 /\ stack[k].vector \in {32, 33} /\ stack[k].next \in {"body", "eoi", "iret"}

\* The line of the handler is in service until it is acknowledged, and nothing
\* else is.
InService ==
  /\ stack = <<>> => isr = {}
  /\ Len(stack) = 1 /\ stack[1].next \in {"body", "eoi"} => isr = {stack[1].vector - 32}
  /\ Len(stack) = 1 /\ stack[1].next = "iret" => isr = {}

BInv == Scalars /\ IF_ \in BOOLEAN /\ stack \in Seq(Frame) /\ SetUp /\ Disabled /\ WellNested /\ InService

USE BootAssumption

-----------------------------------------------------------------------------
\* The eight steps, by their places.
LEMMA Order == /\ Len(BootOrder) = 8
               /\ \A k \in 1 .. 8 :
                    /\ BootOrder[k] = "magic" => k = 1
                    /\ BootOrder[k] = "cli" => k = 2
                    /\ BootOrder[k] = "gdt" => k = 3
                    /\ BootOrder[k] = "master" => k = 4
                    /\ BootOrder[k] = "gates" => k = 5
                    /\ BootOrder[k] = "remap" => k = 6
                    /\ BootOrder[k] = "sti" => k = 7
  BY DEF BootOrder

\* Selector 16 is the code segment of the kernel.
LEMMA CodeSegment == /\ KernelSegments[16] = "code"
                     /\ KernelSegments \in [Selectors -> {"data", "code", "none"}]
  BY DEF KernelSegments

LEMMA TypesFollow == Scalars /\ IF_ \in BOOLEAN /\ stack \in Seq(Frame) => TypeOK
  BY Order DEF Scalars, TypeOK

LEMMA InitInvariant == Init => BInv
<1> SUFFICES ASSUME Init PROVE BInv
  OBVIOUS
<1>1. Scalars /\ stack \in Seq(Frame)
  BY DEF Init, Scalars
<1>2. SetUp /\ Disabled /\ WellNested /\ InService
  BY DEF Init, SetUp, Disabled, WellNested, InService
<1>3. IF_ \in BOOLEAN
  BY DEF Init
<1>4. QED
  BY <1>1, <1>2, <1>3 DEF BInv

-----------------------------------------------------------------------------
\* The steps of kernel_main, on an empty stack.
LEMMA KernelMainStep ==
  ASSUME BInv, KernelMain
  PROVE  BInv'
<1> USE DEF BInv
<1>1. stack = <<>> /\ stack' = stack /\ isr = {} /\ isr' = {}
  BY DEF InService, KernelMain, WrongMagic, RightMagic, Cli, InitGdt, ResetMaster, SetGates,
         PicRemap, Sti, Here, tables, controllers
<1>2. Scalars'
  <2>1. CASE WrongMagic
    BY <2>1, <1>1 DEF Scalars, WrongMagic, tables, controllers
  <2>2. CASE RightMagic \/ Cli \/ Sti
    <3>1. at \in {1, 2, 7} /\ at' = at + 1
      BY <2>2, Order DEF Scalars, RightMagic, Cli, Sti, Here
    <3>2. at' \in 1 .. 8
      BY <3>1, SMT
    <3>3. UNCHANGED <<ds, gdt, gates, state, base, irr, isr, faults>>
      BY <2>2 DEF RightMagic, Cli, Sti, tables, controllers
    <3>4. QED
      BY <3>2, <3>3 DEF Scalars
  <2>3. CASE InitGdt
    BY <2>3, <1>1, Order, CodeSegment DEF Scalars, InitGdt, Here, controllers
  <2>4. CASE ResetMaster
    BY <2>4, <1>1, Order DEF Scalars, ResetMaster, Here, tables
  <2>5. CASE SetGates
    BY <2>5, <1>1, Order DEF Scalars, SetGates, Here, controllers
  <2>6. CASE PicRemap
    BY <2>6, <1>1, Order DEF Scalars, PicRemap, Here, tables
  <2>7. QED
    BY <2>1, <2>2, <2>3, <2>4, <2>5, <2>6 DEF KernelMain
<1>3. SetUp'
  BY Order DEF SetUp, KernelMain, WrongMagic, RightMagic, Cli, InitGdt, ResetMaster, SetGates,
       PicRemap, Sti, Here, tables, controllers
<1>4. Disabled'
  BY <1>1, Order DEF SetUp, Disabled, KernelMain, WrongMagic, RightMagic, Cli, InitGdt, ResetMaster,
       SetGates, PicRemap, Sti, Here
<1>5. WellNested' /\ InService'
  BY <1>1 DEF WellNested, InService
<1>6. IF_' \in BOOLEAN
  BY DEF KernelMain, WrongMagic, RightMagic, Cli, InitGdt, ResetMaster, SetGates, PicRemap, Sti
<1>7. QED
  BY <1>1, <1>2, <1>3, <1>4, <1>5, <1>6

\* A fault on top of a handler, or alone.
LEMMA FaultStep ==
  ASSUME BInv, at = 8, GeneralProtectionFault, UNCHANGED <<at, ds, tables, base>>,
         isr' \subseteq Lines \cup {2}, irr' \subseteq Lines
  PROVE  BInv'
<1> USE DEF BInv
<1> DEFINE frame == [vector |-> 13, next |-> "segments", cs |-> RunningCS]
<1>1. /\ stack' = Append(stack, frame)
      /\ IF_' = FALSE /\ faults < MaxFaults /\ faults' = faults + 1 /\ UNCHANGED state
  BY DEF GeneralProtectionFault, SetUp, FlagInHandler, Pushed
<1>2. frame \in Frame /\ frame.cs = 16
  BY DEF Frame, RunningCS
<1>3. /\ stack' \in Seq(Frame)
      /\ Len(stack') = Len(stack) + 1
      /\ stack'[Len(stack) + 1] = frame
      /\ \A k \in 1 .. Len(stack) : stack'[k] = stack[k]
  BY <1>1, <1>2
<1>4. Len(stack) \in Nat
  OBVIOUS
<1>5. Scalars'
  BY <1>1, <1>3 DEF Scalars, tables
<1>6. SetUp' /\ Disabled'
  BY <1>1 DEF SetUp, Disabled, tables
<1>7. WellNested'
  <2> SUFFICES ASSUME NEW k \in 1 .. Len(stack')
               PROVE  /\ stack'[k].cs = 16
                      /\ \/ stack'[k].vector = 13 /\ stack'[k].next \in {"segments", "report"}
                         \/ k = 1 /\ stack'[k].vector \in {32, 33}
                                  /\ stack'[k].next \in {"body", "eoi", "iret"}
    BY DEF WellNested
  <2>1. CASE k = Len(stack) + 1
    BY <2>1, <1>2, <1>3
  <2>2. CASE k \in 1 .. Len(stack)
    BY <2>2, <1>3 DEF WellNested
  <2>3. QED
    BY <2>1, <2>2, <1>3, <1>4
<1>8. InService'
  <2>1. stack' # <<>>
    BY <1>3, <1>4
  <2>2. Len(stack') = 1 => stack'[1].next = "segments"
    <3>1. frame.next = "segments"
      OBVIOUS
    <3>2. QED
      BY <3>1, <1>3, <1>4
  <2>3. QED
    BY <2>1, <2>2 DEF InService
<1>9. IF_' \in BOOLEAN
  BY <1>1
<1>10. QED
  BY <1>3, <1>5, <1>6, <1>7, <1>8, <1>9

\* A request is taken: by its handler, or as a fault.
LEMMA TakeStep ==
  ASSUME BInv, NEW line \in Lines, Take(line)
  PROVE  BInv'
<1> USE DEF BInv
<1>1. at = 8 /\ stack = <<>> /\ isr = {}
  BY DEF Take, Disabled, InService
<1>2. line \in 0 .. 15 /\ irr' \subseteq Lines /\ isr' \subseteq Lines \cup {2}
  BY DEF Take, Scalars
<1>3. CASE base + line \in gates /\ gdt[16] = "code"
  <2> DEFINE frame == [vector |-> base + line, next |-> "body", cs |-> RunningCS]
  <2>1. /\ stack' = <<frame>> /\ IF_' = FALSE
        /\ UNCHANGED <<state, faults, at, ds, tables, base>>
    BY <1>1, <1>3 DEF Take, Pushed, FlagInHandler
  <2>2. base = 32 /\ frame.vector \in {32, 33} /\ frame \in Frame /\ frame.cs = 16
    BY <1>1, <1>2, <1>3 DEF SetUp, Frame, RunningCS
  <2>3. isr' = {frame.vector - 32}
    BY <1>1, <1>2, <2>2 DEF Take
  <2>4. Scalars' /\ stack' \in Seq(Frame)
    BY <1>2, <2>1, <2>2 DEF Scalars, tables
  <2>5. SetUp' /\ Disabled'
    BY <1>1, <2>1 DEF SetUp, Disabled, tables
  <2>6. WellNested' /\ InService'
    BY <2>1, <2>2, <2>3 DEF WellNested, InService
  <2>7. IF_' \in BOOLEAN
    BY <2>1
  <2>8. QED
    BY <2>4, <2>5, <2>6, <2>7
<1>4. CASE ~(base + line \in gates /\ gdt[16] = "code")
  BY <1>1, <1>2, <1>4, FaultStep DEF Take
<1>5. QED
  BY <1>3, <1>4

-----------------------------------------------------------------------------
\* Moving the innermost frame to its next step changes that frame only.
LEMMA AdvancedFacts ==
  ASSUME stack \in Seq(Frame), stack # <<>>,
         NEW next \in {"body", "eoi", "iret", "segments", "report"}
  PROVE  /\ Advanced(next) \in Seq(Frame)
         /\ Len(Advanced(next)) = Len(stack)
         /\ Advanced(next)[Len(stack)] = [Top EXCEPT !.next = next]
         /\ \A k \in 1 .. Len(stack) : k # Len(stack) => Advanced(next)[k] = stack[k]
<1> DEFINE n == Len(stack)
           f == [Top EXCEPT !.next = next]
<1>1. n \in Nat \ {0} /\ stack \in [1 .. n -> Frame] /\ Top \in Frame
  BY DEF Top
<1>2. f \in Frame
  BY <1>1 DEF Frame
<1>3. Advanced(next) = [stack EXCEPT ![n] = f]
  BY DEF Advanced, Top
<1> HIDE DEF f, n
<1>4. Advanced(next) \in [1 .. n -> Frame]
  BY <1>1, <1>2, <1>3
<1>5. Advanced(next) \in Seq(Frame) /\ Len(Advanced(next)) = n
  BY <1>1, <1>4
<1>6. Advanced(next)[n] = f /\ \A k \in 1 .. n : k # n => Advanced(next)[k] = stack[k]
  BY <1>1, <1>3
<1>7. QED
  BY <1>5, <1>6 DEF f, n

\* The innermost frame is a frame; one that is not of a fault is alone.
LEMMA TopFacts ==
  ASSUME BInv, stack # <<>>
  PROVE  /\ at = 8 /\ ~IF_
         /\ Len(stack) \in Nat \ {0} /\ Top \in Frame /\ Top.cs = 16
         /\ Top.next \in {"body", "eoi", "iret"} =>
              Len(stack) = 1 /\ Top = stack[1] /\ Top.vector \in {32, 33}
         /\ Top.next \in {"segments", "report"} => Top.vector = 13
<1>1. Len(stack) \in Nat \ {0} /\ Top \in Frame
  BY DEF BInv, Top
<1>2. Len(stack) \in 1 .. Len(stack)
  BY <1>1
<1>3. QED
  BY <1>1, <1>2 DEF BInv, WellNested, Disabled, Top

\* The handler's call and its acknowledgement.
LEMMA BodyEoiStep ==
  ASSUME BInv, Body \/ Eoi
  PROVE  BInv'
<1> USE DEF BInv
<1>1. stack # <<>> /\ Top.next \in {"body", "eoi"}
  BY DEF Body, Eoi, InHandler
<1>2. /\ Len(stack) = 1 /\ Top = stack[1] /\ Top \in Frame /\ Top.cs = 16
      /\ Top.vector \in {32, 33} /\ at = 8 /\ ~IF_
  BY <1>1, TopFacts
<1>3. isr = {Top.vector - 32}
  BY <1>1, <1>2 DEF InService
<1>4. \/ stack' = Advanced("eoi") /\ isr' = {Top.vector - 32}
      \/ stack' = Advanced("iret") /\ isr' = {}
  <2>1. CASE Body
    BY <2>1, <1>3 DEF Body, controllers
  <2>2. CASE Eoi
    BY <2>2, <1>2, <1>3 DEF Eoi, Rank
  <2>3. QED
    BY <2>1, <2>2
<1>5. PICK new \in {"eoi", "iret"} : /\ stack' = Advanced(new)
                                    /\ isr' = IF new = "eoi" THEN {Top.vector - 32} ELSE {}
  BY <1>4
<1>6. /\ stack' \in Seq(Frame) /\ Len(stack') = 1
      /\ stack'[1] = [Top EXCEPT !.next = new]
  BY <1>1, <1>2, <1>5, AdvancedFacts
<1>7. stack'[1].next = new /\ stack'[1].cs = 16 /\ stack'[1].vector = Top.vector
  BY <1>2, <1>6 DEF Frame
<1>8. UNCHANGED <<at, IF_, ds, gdt, gates, state, base, irr, faults>>
  BY DEF Body, Eoi, tables, controllers
<1>9. Scalars'
  <2>1. isr' \subseteq isr
    BY <1>3, <1>5
  <2>2. QED
    BY <1>8, <2>1 DEF Scalars
<1>10. SetUp' /\ Disabled'
  BY <1>2, <1>8 DEF SetUp, Disabled
<1>11. WellNested'
  <2>1. stack'[1].vector \in {32, 33} /\ stack'[1].next \in {"body", "eoi", "iret"} /\ stack'[1].cs = 16
    BY <1>2, <1>7
  <2>2. \A k \in 1 .. Len(stack') : k = 1
    BY <1>6
  <2>3. QED
    BY <2>1, <2>2 DEF WellNested
<1>12. InService'
  <2>1. stack' # <<>>
    <3>1. Len(stack') # 0
      BY <1>6
    <3>2. QED
      BY <3>1
  <2>2. QED
    BY <1>5, <1>6, <1>7, <2>1 DEF InService
<1>13. IF_' \in BOOLEAN
  BY <1>8
<1>14. QED
  BY <1>6, <1>9, <1>10, <1>11, <1>12, <1>13

\* A handler returns to the main line, through the kernel's code segment.
LEMMA IretStep ==
  ASSUME BInv, Iret
  PROVE  BInv'
<1> USE DEF BInv
<1>1. stack # <<>> /\ Top.next = "iret"
  BY DEF Iret, InHandler
<1>2. /\ Len(stack) = 1 /\ Top = stack[1] /\ Top.cs = 16 /\ at = 8
  BY <1>1, TopFacts
<1>3. gdt[Top.cs] = "code"
  BY <1>2, CodeSegment DEF SetUp
<1>4. stack' = <<>> /\ IF_' = TRUE
  BY <1>2, <1>3 DEF Iret, Popped
<1>5. UNCHANGED <<at, ds, gdt, gates, state, base, irr, isr, faults>>
  BY <1>3 DEF Iret, tables, controllers
<1>6. isr = {}
  BY <1>1, <1>2 DEF InService
<1>7. Scalars'
  BY <1>5 DEF Scalars
<1>8. SetUp' /\ Disabled'
  BY <1>2, <1>4, <1>5 DEF SetUp, Disabled
<1>9. WellNested' /\ InService'
  BY <1>4, <1>5, <1>6 DEF WellNested, InService
<1>10. IF_' \in BOOLEAN /\ stack' \in Seq(Frame)
  BY <1>4
<1>11. QED
  BY <1>7, <1>8, <1>9, <1>10

\* The fault handler loads its segments.
LEMMA LoadSegmentsStep ==
  ASSUME BInv, LoadSegments
  PROVE  BInv'
<1> USE DEF BInv
<1>1. stack # <<>> /\ Top.next = "segments" /\ stack' = Advanced("report")
  BY DEF LoadSegments, InHandler
<1>2. /\ Len(stack) \in Nat \ {0} /\ Top \in Frame /\ Top.cs = 16 /\ Top.vector = 13
      /\ at = 8 /\ ~IF_
  BY <1>1, TopFacts
<1>3. /\ stack' \in Seq(Frame) /\ Len(stack') = Len(stack)
      /\ stack'[Len(stack)] = [Top EXCEPT !.next = "report"]
      /\ \A k \in 1 .. Len(stack) : k # Len(stack) => stack'[k] = stack[k]
  BY <1>1, AdvancedFacts
<1>4. LET last == stack'[Len(stack)]
      IN last.next = "report" /\ last.cs = 16 /\ last.vector = 13
  BY <1>2, <1>3 DEF Frame
<1>5. /\ UNCHANGED <<at, IF_, gdt, gates, state, base, irr, isr, faults>>
      /\ ds' = gdt[16]
  BY DEF LoadSegments, tables, controllers
<1>6. Scalars'
  BY <1>5 DEF Scalars
<1>7. SetUp' /\ Disabled'
  BY <1>2, <1>5 DEF SetUp, Disabled
<1>8. WellNested'
  BY <1>3, <1>4 DEF WellNested
<1>9. InService'
  <2>1. stack' # <<>>
    BY <1>2, <1>3
  <2>2. Len(stack') = 1 => stack'[1].next = "report"
    BY <1>3, <1>4
  <2>3. QED
    BY <2>1, <2>2 DEF InService
<1>10. IF_' \in BOOLEAN
  BY <1>5
<1>11. QED
  BY <1>3, <1>6, <1>7, <1>8, <1>9, <1>10

\* The fault handler prints and halts, or faults again.
LEMMA ReportStep ==
  ASSUME BInv, Report
  PROVE  BInv'
<1> USE DEF BInv
<1>1. stack # <<>>
  BY DEF Report, InHandler
<1>2. at = 8
  BY <1>1, TopFacts
<1>3. CASE ds = "data"
  <2>1. /\ UNCHANGED <<at, IF_, ds, gdt, gates, stack, base, irr, isr, faults>>
        /\ state' = "halted"
    BY <1>3 DEF Report, tables, controllers
  <2>2. Scalars'
    BY <2>1 DEF Scalars
  <2>3. SetUp' /\ Disabled' /\ WellNested' /\ InService'
    BY <2>1 DEF SetUp, Disabled, WellNested, InService
  <2>4. IF_' \in BOOLEAN /\ stack' \in Seq(Frame)
    BY <2>1
  <2>5. QED
    BY <2>2, <2>3, <2>4
<1>4. CASE ds # "data"
  <2>1. /\ GeneralProtectionFault
        /\ UNCHANGED <<at, ds, tables, base, irr, isr>>
    BY <1>4 DEF Report, controllers
  <2>2. isr' \subseteq Lines \cup {2} /\ irr' \subseteq Lines
    BY <2>1 DEF Scalars
  <2>3. QED
    BY <1>2, <2>1, <2>2, FaultStep
<1>5. QED
  BY <1>3, <1>4

\* A device raises a line; or nothing happens.
LEMMA OutsideStep ==
  ASSUME BInv, (\E line \in Lines : Raise(line)) \/ UNCHANGED vars
  PROVE  BInv'
<1> USE DEF BInv
<1>1. UNCHANGED <<at, IF_, ds, gdt, gates, stack, state, base, isr, faults>>
  BY DEF Raise, vars, tables, controllers
<1>2. irr' \subseteq Lines
  BY DEF Raise, vars, controllers, Scalars
<1>3. Scalars'
  BY <1>1, <1>2 DEF Scalars
<1>4. SetUp' /\ Disabled' /\ WellNested' /\ InService'
  BY <1>1 DEF SetUp, Disabled, WellNested, InService
<1>5. IF_' \in BOOLEAN /\ stack' \in Seq(Frame)
  BY <1>1
<1>6. QED
  BY <1>3, <1>4, <1>5

\* The invariant holds at every step from the boot loader on.
THEOREM BootInvariance == Spec => []BInv
<1>1. BInv /\ [Next]_vars => BInv'
  <2> SUFFICES ASSUME BInv, [Next]_vars PROVE BInv'
    OBVIOUS
  <2>1. CASE KernelMain
    BY <2>1, KernelMainStep
  <2>2. CASE Handler
    BY <2>2, BodyEoiStep, IretStep, LoadSegmentsStep, ReportStep DEF Handler
  <2>3. CASE \E line \in Lines : Take(line)
    BY <2>3, TakeStep
  <2>4. CASE (\E line \in Lines : Raise(line)) \/ UNCHANGED vars
    BY <2>4, OutsideStep
  <2>5. QED
    BY <2>1, <2>2, <2>3, <2>4 DEF Next, Processor
<1>2. QED
  BY <1>1, InitInvariant, PTL DEF Spec

\* Types, indices into BootOrder included.
THEOREM BootTypeCorrect == Spec => []TypeOK
<1>1. BInv => TypeOK
  BY TypesFollow DEF BInv
<1>2. QED
  BY <1>1, BootInvariance, PTL

\* No handler interrupts another, whatever lines are raised and when: gates are
\* interrupt gates (kernel.c 65).
THEOREM HandlersAtomic == Spec => []HandlersDoNotNest
<1>1. BInv => HandlersDoNotNest
  BY DEF BInv, WellNested, HandlersDoNotNest, Hardware
<1>2. QED
  BY <1>1, BootInvariance, PTL

\* Every handler acknowledges its line at the controller it came from
\* (isrtable.asm 14-15, 23-24).
THEOREM RequestsAcknowledged == Spec => []Acknowledged
<1>1. BInv => Acknowledged
  BY DEF BInv, InService, Acknowledged
<1>2. QED
  BY <1>1, BootInvariance, PTL

\* Interrupts are enabled only when gates, controllers and segments are set up,
\* and the selector that a handler returns to is a code segment
\* (kernel.c 145-156).
THEOREM ReadyWhenTaken == Spec => []TakenWhenReady
<1>1. BInv => TakenWhenReady
  <2> SUFFICES ASSUME BInv, NEW k \in 1 .. Len(stack)
               PROVE  /\ base = 32 /\ gates = {33, 32, 13}
                      /\ gdt[stack[k].cs] = "code"
    BY DEF TakenWhenReady
  <2>1. stack # <<>>
    OBVIOUS
  <2>2. at = 8 /\ stack[k].cs = 16
    BY <2>1 DEF BInv, Disabled, WellNested
  <2>3. QED
    BY <2>2, CodeSegment DEF BInv, SetUp
<1>2. QED
  BY <1>1, BootInvariance, PTL
=============================================================================
