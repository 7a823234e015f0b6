-------------------------------- MODULE Boot --------------------------------
(***************************************************************************)
(* From the boot loader to the shell's loop, with interrupts: what         *)
(* kernel_main sets up and in which order, how the processor and the two   *)
(* interrupt controllers deliver a request, the assembly stubs around the  *)
(* handlers, and the general protection fault.  The other modules take     *)
(* from here that a handler is atomic for the main line.                   *)
(*                                                                         *)
(* Segments are described by their kind only: "code" (execute and read),   *)
(* "data" (read and write), "none".  What the handlers in C do, and the    *)
(* greeting and the clock set-up of kernel_main, change nothing here.      *)
(***************************************************************************)
EXTENDS Integers, Sequences

CONSTANTS
  Lines,      \* interrupt lines that devices raise
  LoaderCS,   \* code selector the boot loader leaves, 0x10 for GRUB 2
  Selectors,  \* selectors of the descriptor tables
  MaxFaults   \* bound on nested faults, for model checking

ASSUME BootAssumption ==
  /\ Lines \subseteq (0 .. 15) \ {2}
  /\ Selectors = {0, 8, 16, 24}
  /\ LoaderCS = 16
  /\ MaxFaults \in Nat \ {0, 1}

VARIABLES
  at,      \* the next step of kernel_main, as its place in BootOrder
  IF_,     \* the processor's interrupt flag
  ds,      \* the kind of segment its data registers hold
  gdt,     \* per selector: the kind of segment
  gates,   \* vectors with a gate in the interrupt descriptor table
  stack,   \* handlers entered and not left, the innermost last
  state,   \* of the processor: "runs", "halted" or "reset"
  base,    \* first vector of the master; the slave's follow on picremap
  irr,     \* lines requested and not taken
  isr,     \* lines in service
  faults   \* history: general protection faults raised

controllers == <<base, irr, isr>>
tables      == <<gdt, gates>>
vars == <<at, IF_, ds, tables, stack, state, controllers, faults>>

-----------------------------------------------------------------------------
(* The processor and the controllers *)

\* A frame: the vector, the next step of its handler, the selector it will
\* return to.
Frame == [vector : Nat, next : {"body", "eoi", "iret", "segments", "report"}, cs : Selectors]

Top == stack[Len(stack)]
Pushed(vector, next, cs) == Append(stack, [vector |-> vector, next |-> next, cs |-> cs])
Advanced(next) == [stack EXCEPT ![Len(stack)].next = next]
Popped == SubSeq(stack, 1, Len(stack) - 1)

\* The selector of the code that runs: a handler's is the one in its gate.
RunningCS == IF stack = <<>> THEN LoaderCS ELSE 16

\* Fault: the gates are trap gates, which leave the flag alone.
FlagInHandler_TrapGate == IF_

\* idt_set_gate makes interrupt gates (flags 0x8E): the flag is cleared.
FlagInHandler == FALSE

\* An exception without a gate, and without one for what follows from that,
\* resets the machine.
GeneralProtectionFault ==
  /\ faults < MaxFaults
  /\ faults' = faults + 1
  /\ IF 13 \in gates
     THEN /\ stack' = Pushed(13, "segments", RunningCS)
          /\ IF_' = FlagInHandler
          /\ UNCHANGED state
     ELSE /\ state' = "reset"
          /\ UNCHANGED <<stack, IF_>>

\* Priorities: 0, 1, the slave's lines 8 to 15 on line 2, then 3 to 7.
Rank(line) == IF line < 2 THEN line ELSE IF line = 2 THEN 2
              ELSE IF line >= 8 THEN line - 6 ELSE line + 7

\* A request waits for everything in service that ranks before it.
Waiting(line) == line \in irr /\ \A l \in isr : Rank(line) < Rank(l)
Foremost(line) == Waiting(line) /\ \A l \in irr : Waiting(l) => Rank(line) <= Rank(l)

Raise(line) == /\ line \notin irr
               /\ irr' = irr \cup {line}
               /\ UNCHANGED <<at, IF_, ds, tables, stack, state, base, isr, faults>>

\* Between two instructions the processor takes the foremost request.  A
\* vector without a gate into code is a general protection fault, with the line
\* in service.
Take(line) ==
  /\ state = "runs" /\ IF_
  /\ Foremost(line)
  /\ irr' = irr \ {line}
  /\ isr' = isr \cup {line} \cup (IF line >= 8 THEN {2} ELSE {})
  /\ IF base + line \in gates /\ gdt[16] = "code"
     THEN /\ stack' = Pushed(base + line, "body", RunningCS)
          /\ IF_' = FlagInHandler
          /\ UNCHANGED <<state, faults>>
     ELSE GeneralProtectionFault
  /\ UNCHANGED <<at, ds, tables, base>>

-----------------------------------------------------------------------------
(* The stubs isr0, isr1 and gpisr *)

InHandler(next) == state = "runs" /\ stack # <<>> /\ Top.next = next

\* Fault: the handler returns without an end of interrupt.
Body_NoEoi == /\ InHandler("body")
              /\ stack' = Advanced("iret")
              /\ UNCHANGED <<at, IF_, ds, tables, state, controllers, faults>>

\* call timer_handler or isr1_handler.
Body == /\ InHandler("body")
        /\ stack' = Advanced("eoi")
        /\ UNCHANGED <<at, IF_, ds, tables, state, controllers, faults>>

\* Fault: the end of interrupt is sent to the slave.
Eoi_ToSlave == /\ InHandler("eoi")
               /\ stack' = Advanced("iret")
               /\ isr' = {l \in isr : l < 8 \/ \E m \in isr \cap (8 .. 15) : Rank(m) < Rank(l)}
               /\ UNCHANGED <<at, IF_, ds, tables, state, base, irr, faults>>

\* out 20h, al: the master's foremost line in service is done.  The slave is
\* not told.
Eoi == /\ InHandler("eoi")
       /\ stack' = Advanced("iret")
       /\ isr' = {l \in isr : l >= 8 \/ \E m \in isr \cap (0 .. 7) : Rank(m) < Rank(l)}
       /\ UNCHANGED <<at, IF_, ds, tables, state, base, irr, faults>>

\* The flag that is restored was set: the handler was entered.
Iret == /\ InHandler("iret")
        /\ IF gdt[Top.cs] = "code"
           THEN /\ stack' = Popped
                /\ IF_' = TRUE
                /\ UNCHANGED <<state, faults>>
           ELSE GeneralProtectionFault
        /\ UNCHANGED <<at, ds, tables, controllers>>

\* mov ds, 0x10 and the rest.
LoadSegments == /\ InHandler("segments")
                /\ ds' = gdt[16]
                /\ stack' = Advanced("report")
                /\ UNCHANGED <<at, IF_, tables, state, controllers, faults>>

\* fault_handler: its first store, to the terminal's colour, needs a data
\* segment.  Then it prints and halts.
Report == /\ InHandler("report")
          /\ IF ds = "data"
             THEN /\ state' = "halted"
                  /\ UNCHANGED <<stack, IF_, faults>>
             ELSE GeneralProtectionFault
          /\ UNCHANGED <<at, ds, tables, controllers>>

Handler == Body \/ Eoi \/ Iret \/ LoadSegments \/ Report

-----------------------------------------------------------------------------
(* kernel_main *)

BootOrder == <<"magic", "cli", "gdt", "master", "gates", "remap", "sti", "loop">>

Here(step) == state = "runs" /\ stack = <<>> /\ BootOrder[at] = step

\* Not loaded by a multiboot loader: back to boot.asm, which stops.
WrongMagic == /\ Here("magic")
              /\ state' = "halted"
              /\ IF_' = FALSE
              /\ UNCHANGED <<at, ds, tables, stack, controllers, faults>>

RightMagic == /\ Here("magic")
              /\ at' = at + 1
              /\ UNCHANGED <<IF_, ds, tables, stack, state, controllers, faults>>

Cli == /\ Here("cli")
       /\ IF_' = FALSE
       /\ at' = at + 1
       /\ UNCHANGED <<ds, tables, stack, state, controllers, faults>>

\* Fault: the code segment follows the null descriptor.
KernelSegments_NoGap ==
  [s \in Selectors |-> IF s = 8 THEN "code" ELSE IF s = 16 THEN "data" ELSE "none"]

KernelSegments ==
  [s \in Selectors |-> IF s = 16 THEN "code" ELSE IF s = 24 THEN "data" ELSE "none"]

\* init_gdt.  gdt_flush returns before the far jump: no register is loaded.
InitGdt == /\ Here("gdt")
           /\ gdt' = KernelSegments
           /\ at' = at + 1
           /\ UNCHANGED <<IF_, ds, gates, stack, state, controllers, faults>>

\* outb(0x20, 0xFF) starts the master's initialisation, which picremap starts
\* again: requests and lines in service are forgotten.
ResetMaster == /\ Here("master")
               /\ irr' = irr \ (0 .. 7)
               /\ isr' = isr \ (0 .. 7)
               /\ at' = at + 1
               /\ UNCHANGED <<IF_, ds, tables, stack, state, base, faults>>

SetGates == /\ Here("gates")
            /\ gates' = {33, 32, 13}
            /\ at' = at + 1
            /\ UNCHANGED <<IF_, ds, gdt, stack, state, controllers, faults>>

\* Fault: the master's first vector is taken for a decimal number.
PicRemap_Decimal == /\ Here("remap")
                    /\ base' = 20
                    /\ irr' = {} /\ isr' = {}
                    /\ at' = at + 1
                    /\ UNCHANGED <<IF_, ds, tables, stack, state, faults>>

\* picremap: both controllers start anew at 0x20 and 0x28 with every line enabled.
PicRemap == /\ Here("remap")
            /\ base' = 32
            /\ irr' = {} /\ isr' = {}
            /\ at' = at + 1
            /\ UNCHANGED <<IF_, ds, tables, stack, state, faults>>

Sti == /\ Here("sti")
       /\ IF_' = TRUE
       /\ at' = at + 1
       /\ UNCHANGED <<ds, tables, stack, state, controllers, faults>>

KernelMain == \/ WrongMagic \/ RightMagic \/ Cli \/ InitGdt \/ ResetMaster
              \/ SetGates \/ PicRemap \/ Sti

-----------------------------------------------------------------------------
\* The loader enters with interrupts disabled, a flat data segment and tables
\* of its own; the controllers are as the firmware left them.
Init == /\ at = 1
        /\ IF_ = FALSE
        /\ ds = "data"
        /\ gdt = [s \in Selectors |-> IF s = LoaderCS THEN "code" ELSE "none"]
        /\ gates = {}
        /\ stack = <<>>
        /\ state = "runs"
        /\ base = 8
        /\ irr \in SUBSET Lines
        /\ isr = {}
        /\ faults = 0

Processor == KernelMain \/ Handler \/ \E line \in Lines : Take(line)

Next == Processor \/ \E line \in Lines : Raise(line)

\* The processor executes; no device owes it a request.
Fairness == WF_vars(Processor)

Spec == Init /\ [][Next]_vars /\ Fairness

-----------------------------------------------------------------------------
(* Properties *)

TypeOK == /\ at \in 1 .. Len(BootOrder)
          /\ IF_ \in BOOLEAN
          /\ ds \in {"data", "code", "none"}
          /\ gdt \in [Selectors -> {"data", "code", "none"}]
          /\ gates \subseteq {13, 32, 33}
          /\ stack \in Seq(Frame)
          /\ state \in {"runs", "halted", "reset"}
          /\ base \in {8, 32}
          /\ irr \subseteq Lines /\ isr \subseteq Lines \cup {2}
          /\ faults \in 0 .. MaxFaults

Hardware(k) == stack[k].vector # 13

\* The handlers of the timer and the keyboard never interrupt each other or
\* themselves: for the main line, and for each other, they are atomic.
HandlersDoNotNest ==
  \A k, l \in 1 .. Len(stack) : Hardware(k) /\ Hardware(l) => k = l

\* Whenever the main line runs, no line is left in service: none of the
\* requests to come is blocked.
Acknowledged == stack = <<>> => isr = {}

\* A request is only ever taken through the kernel's own gates and above the
\* processor's exceptions, and what it interrupted can be returned to.
TakenWhenReady ==
  \A k \in 1 .. Len(stack) : /\ base = 32 /\ gates = {33, 32, 13}
                             /\ gdt[stack[k].cs] = "code"

\* A tick of the timer is taken, unless the machine has stopped or faulted.
TickTaken == 0 \in irr ~> (0 \notin irr \/ state # "runs" \/ faults > 0)

\* "now do nothing because the handler will halt and fire" (isrtable.asm 45),
\* "HALT THE SYSTEM" (kernel.c 193): a fault leads to the dump and the end,
\* not to another fault.
FaultIsFinal == faults <= 1
=============================================================================
