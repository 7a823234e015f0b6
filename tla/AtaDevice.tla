------------------------------ MODULE AtaDevice ------------------------------
(***************************************************************************)
(* The two ATA channels and their drives, as the driver in atapio.c finds  *)
(* them.  This is hardware: it is modelled from the ATA command set and    *)
(* from how the driver uses it.  A drive raises BSY while it works and DRQ *)
(* while it wants or has words for the host; what the host writes to the   *)
(* command block while BSY or DRQ is up is ignored.  Written sectors go to *)
(* the drive's cache and reach the medium later, at a flush at the latest. *)
(***************************************************************************)
EXTENDS Integers, Sequences

CONSTANTS Present, Lbas, Words, Values, Junk

VARIABLES
  sel,    \* per channel: the drive selected
  nIEN,   \* per channel: interrupts masked at the device control register
  regs,   \* per channel: the LBA and sector count registers
  phase,  \* per drive: what it is doing
  task,   \* per drive: next sector, sectors left, words held, word reached
  cache,  \* per drive: sectors written and not yet on the medium
  media,  \* per drive: sectors on the medium
  irqs    \* channels that have interrupted the processor

device == <<sel, nIEN, regs, phase, task, cache, media, irqs>>

DriveIds == 0 .. 3
Channels == {0, 1}
Channel(d) == d \div 2

Phases == {"absent", "idle", "seek", "out", "accept", "in", "store", "flush"}
NoTask == [lba |-> 0, left |-> 0, words |-> <<>>, k |-> 0]

\* A sector as the host sees it, cached or not.
Content(d, l) == IF l \in DOMAIN cache[d] THEN cache[d][l] ELSE media[d][l]

\* An empty channel floats high; an absent drive next to a present one reads 0.
Floating(ch) == \A d \in Present : Channel(d) # ch
Bsy(ch) == Floating(ch) \/ phase[sel[ch]] \in {"seek", "accept", "store", "flush"}
Drq(ch) == Floating(ch) \/ phase[sel[ch]] \in {"out", "in"}
Listens(ch) == ~Bsy(ch) /\ ~Drq(ch)

DeviceInit ==
  /\ sel = [ch \in Channels |-> 2 * ch]
  /\ nIEN \in [Channels -> BOOLEAN]
  /\ regs = [ch \in Channels |-> [lba |-> 0, count |-> 1]]
  /\ phase = [d \in DriveIds |-> IF d \in Present THEN "idle" ELSE "absent"]
  /\ task = [d \in DriveIds |-> NoTask]
  /\ cache = [d \in Present |-> <<>>]
  /\ irqs = {}

-----------------------------------------------------------------------------
(* What a drive does on its own.  It interrupts when it is done or wants    *)
(* the host's attention, unless the host has masked its channel.            *)

Interrupts(d) == irqs' = IF nIEN[Channel(d)] THEN irqs ELSE irqs \cup {Channel(d)}

Becomes(d, p, t) == /\ phase' = [phase EXCEPT ![d] = p]
                    /\ task' = [task EXCEPT ![d] = t]

Abort(d) == /\ task[d].lba \notin Lbas
            /\ Becomes(d, "idle", NoTask)
            /\ Interrupts(d)
            /\ UNCHANGED <<cache, media>>

Seek(d) == /\ phase[d] = "seek"
           /\ \/ Abort(d)
              \/ /\ task[d].lba \in Lbas
                 /\ Becomes(d, "out", [task[d] EXCEPT !.words = Content(d, task[d].lba), !.k = 0])
                 /\ Interrupts(d)
                 /\ UNCHANGED <<cache, media>>

Accept(d) == /\ phase[d] = "accept"
             /\ \/ Abort(d)
                \/ /\ task[d].lba \in Lbas
                   /\ Becomes(d, "in", [task[d] EXCEPT !.words = <<>>])
                   /\ UNCHANGED <<cache, media, irqs>>

Store(d) == /\ phase[d] = "store"
            /\ LET l == task[d].lba
               IN cache' = [cache EXCEPT ![d] =
                              [m \in DOMAIN cache[d] \cup {l} |->
                                 IF m = l THEN task[d].words ELSE cache[d][m]]]
            /\ IF task[d].left > 1 /\ task[d].lba + 1 \in Lbas
               THEN Becomes(d, "in", [task[d] EXCEPT !.lba = @ + 1, !.left = @ - 1, !.words = <<>>])
               ELSE Becomes(d, "idle", NoTask)
            /\ Interrupts(d)
            /\ UNCHANGED media

Flush(d) == /\ phase[d] = "flush"
            /\ media' = [media EXCEPT ![d] = [l \in Lbas |-> Content(d, l)]]
            /\ cache' = [cache EXCEPT ![d] = <<>>]
            /\ Becomes(d, "idle", NoTask)
            /\ Interrupts(d)

\* The drive writes a cached sector back in its own time.
WriteBack(d, l) == /\ l \in DOMAIN cache[d]
                   /\ media' = [media EXCEPT ![d][l] = cache[d][l]]
                   /\ cache' = [cache EXCEPT ![d] = [m \in DOMAIN cache[d] \ {l} |-> cache[d][m]]]
                   /\ UNCHANGED <<phase, task, irqs>>

Works(d) == /\ Seek(d) \/ Accept(d) \/ Store(d) \/ Flush(d)
            /\ UNCHANGED <<sel, nIEN, regs>>

-----------------------------------------------------------------------------
(* What the host does to the registers *)

SelectDrive(d) ==
  LET ch == Channel(d)
  IN /\ sel' = IF Listens(ch) THEN [sel EXCEPT ![ch] = d] ELSE sel
     /\ UNCHANGED <<nIEN, regs, phase, task, cache, media, irqs>>

SetTask(ch, lba, count) ==
  regs' = IF Listens(ch) THEN [regs EXCEPT ![ch] = [lba |-> lba, count |-> count]] ELSE regs

\* A command starts the selected drive, if it is there and listens.
Command(ch, p) ==
  LET d == sel[ch]
  IN /\ IF Listens(ch) /\ d \in Present
        THEN Becomes(d, p, IF p = "flush" THEN NoTask
                           ELSE [NoTask EXCEPT !.lba = regs[ch].lba, !.left = regs[ch].count])
        ELSE UNCHANGED <<phase, task>>
     /\ UNCHANGED <<sel, nIEN, regs, cache, media, irqs>>

\* The data port as an input: the next word of the sector, if one is ready.
Offers(ch) == ~Floating(ch) /\ phase[sel[ch]] = "out"
WordOffered(ch) == IF Offers(ch) THEN task[sel[ch]].words[task[sel[ch]].k + 1] ELSE Junk

TakeWord(ch) ==
  LET d == sel[ch]
      t == task[d]
  IN /\ IF ~Offers(ch) THEN UNCHANGED <<phase, task>>
        ELSE IF t.k + 1 < Words THEN Becomes(d, "out", [t EXCEPT !.k = @ + 1])
        ELSE IF t.left > 1 THEN Becomes(d, "seek", [t EXCEPT !.lba = @ + 1, !.left = @ - 1,
                                                             !.words = <<>>, !.k = 0])
        ELSE Becomes(d, "idle", NoTask)
     /\ UNCHANGED <<sel, nIEN, regs, cache, media, irqs>>

\* The data port as an output: a word for a drive that asks for none is lost.
Wants(ch) == ~Floating(ch) /\ phase[sel[ch]] = "in"

GiveWord(ch, word) ==
  LET d == sel[ch]
      t == [task[d] EXCEPT !.words = Append(@, word)]
  IN /\ IF Wants(ch)
        THEN Becomes(d, IF Len(t.words) < Words THEN "in" ELSE "store", t)
        ELSE UNCHANGED <<phase, task>>
     /\ UNCHANGED <<sel, nIEN, regs, cache, media, irqs>>
=============================================================================
