-------------------------------- MODULE Ata --------------------------------
(***************************************************************************)
(* The PIO disk driver of atapio.c: ata_read_sector(s) and                 *)
(* ata_write_sector(s), one call at a time, port access by port access,    *)
(* with the drives of AtaDevice working beside it.  The plain functions    *)
(* are the calls with count = 1; the s functions repeat their code with a  *)
(* longer transfer loop.                                                   *)
(*                                                                         *)
(* The driver polls.  It masks the drive's interrupts because the kernel   *)
(* has no handler for them (kernel.c 151-153 sets gates 13, 32 and 33, and *)
(* picremap leaves every line enabled): one that gets through finds an     *)
(* empty gate, which is a general protection fault, and the handler of     *)
(* that one never returns.                                                 *)
(***************************************************************************)
EXTENDS AtaDevice

CONSTANTS
  CallDrives,  \* drive numbers callers ask for; drive_id is a uint8_t
  CallLbas,    \* sectors callers ask for
  CallData,    \* buffers callers write
  FirstMedia,  \* what is on the drives when the system starts
  MaxCount     \* sectors a call may ask for

\* The driver sends 28 bits of lba, in four registers.
Addresses == 0 .. 2^28 - 1

ASSUME AtaAssumption ==
  /\ Present \subseteq DriveIds
  /\ CallDrives \subseteq Nat
  /\ Lbas \subseteq Nat /\ CallLbas \subseteq Addresses
  /\ Words \in Nat \ {0}
  /\ MaxCount \in Nat \ {0}
  /\ FirstMedia \subseteq [Present -> [Lbas -> [1 .. Words -> Values]]]
  /\ Junk \notin Values

VARIABLES
  pc,      \* where the driver is
  call,    \* the call it serves
  index,   \* words transferred
  buffer,  \* the words read, in the caller's buffer
  result,  \* history: what the last call left in the caller's buffer
  stored,  \* history: sectors of this call the drive has taken over
  behind,  \* history: a word was moved that its drive was not ready for
  down     \* the machine is in its fault handler, for good

driver == <<pc, call, index, buffer, result, down, behind>>
vars   == <<device, driver, stored>>

Abstract == INSTANCE BlockStore WITH
              store <- [d \in Present |-> [l \in Lbas |-> Content(d, l)]],
              failed <- behind

Calls == Abstract!Reads \cup Abstract!Writes
NoCall == Abstract!NoCall

Points == {"free", "select", "wait_idle", "setup", "command", "wait_ready",
           "transfer", "commit", "drain", "return"}

\* Ports 0x1F0-0x1F7 for drives 0 and 1, 0x170-0x177 for 2 and 3.
Port == Channel(call.drive)
Reading == call.kind = "read"

-----------------------------------------------------------------------------
Begin(asked) == /\ pc = "free" /\ ~down
                /\ call' = asked
                /\ pc' = IF asked.drive >= 4 THEN "return" ELSE "select"
                /\ index' = 0
                /\ buffer' = IF asked.kind = "read" THEN Abstract!Untouched(asked.count) ELSE <<>>
                /\ result' = <<>>
                /\ stored' = 0
                /\ UNCHANGED <<device, down, behind>>

\* A step of the driver from one point to another.
At(point) == pc = point /\ ~down
Goto(point) == pc' = point /\ UNCHANGED <<call, index, buffer, result, stored, down, behind>>

\* Fault: the drive is not selected.
Select_Forgotten == /\ At("select")
                    /\ Goto(IF Reading THEN "wait_idle" ELSE "setup")
                    /\ UNCHANGED device

Select == /\ At("select")
          /\ SelectDrive(call.drive)
          /\ Goto(IF Reading THEN "wait_idle" ELSE "setup")

\* Only the reading functions wait for the drive before they program it.
WaitIdle == /\ At("wait_idle")
            /\ ~Bsy(Port)
            /\ Goto("setup")
            /\ UNCHANGED device

\* Fault: the interrupt mask is never written.
Setup_NoMask == /\ At("setup")
                /\ SetTask(Port, call.lba, call.count)
                /\ Goto("command")
                /\ UNCHANGED <<sel, nIEN, phase, task, cache, media, irqs>>

\* Masking, count and address.  The reading functions write the mask to port
\* 0x3F6, which is the first channel's whatever the drive; the writing ones
\* to base_port + 0x3F6, where no channel listens.
Setup == /\ At("setup")
         /\ nIEN' = IF Reading THEN [nIEN EXCEPT ![0] = TRUE] ELSE nIEN
         /\ SetTask(Port, call.lba, call.count)
         /\ Goto("command")
         /\ UNCHANGED <<sel, phase, task, cache, media, irqs>>

\* Fault: the command is never written.
IssueCommand_Forgotten == /\ At("command")
                          /\ Goto("wait_ready")
                          /\ UNCHANGED device

IssueCommand == /\ At("command")
                /\ Command(Port, IF Reading THEN "seek" ELSE "accept")
                /\ Goto("wait_ready")

\* Fault: the transfer begins without waiting for DRQ.
WaitReady_NoWait == /\ At("wait_ready")
                    /\ Goto("transfer")
                    /\ UNCHANGED device

\* Reading tests DRQ alone, writing tests BSY as well.
WaitReady == /\ At("wait_ready")
             /\ Drq(Port)
             /\ Reading \/ ~Bsy(Port)
             /\ Goto("transfer")
             /\ UNCHANGED device

\* The drive is ready for the word the transfer loop is about to move.
WordReady == IF Reading THEN Offers(Port) ELSE Wants(Port)

\* Fault: a read takes one word too many.
Transfer_OneMore == /\ At("transfer")
                    /\ index < Words * call.count \/ (Reading /\ index = Words * call.count)
                    /\ index' = index + 1
                    /\ behind' = (behind \/ ~WordReady)
                    /\ IF Reading
                       THEN /\ buffer' = Append(SubSeq(buffer, 1, index), WordOffered(Port))
                            /\ TakeWord(Port)
                       ELSE /\ GiveWord(Port, call.data[index + 1])
                            /\ UNCHANGED buffer
                    /\ UNCHANGED <<pc, call, result, stored, down>>

\* Fault: a write sends the first sector of the buffer again and again.
Transfer_SameSector == /\ At("transfer")
                       /\ index < Words * call.count
                       /\ index' = index + 1
                       /\ behind' = (behind \/ ~WordReady)
                       /\ IF Reading
                          THEN /\ buffer' = [buffer EXCEPT ![index + 1] = WordOffered(Port)]
                               /\ TakeWord(Port)
                          ELSE /\ GiveWord(Port, call.data[(index % Words) + 1])
                               /\ UNCHANGED buffer
                       /\ UNCHANGED <<pc, call, result, stored, down>>

\* One word; nothing is tested between words, nor between sectors.
Transfer == /\ At("transfer")
            /\ index < Words * call.count
            /\ index' = index + 1
            /\ behind' = (behind \/ ~WordReady)
            /\ IF Reading
               THEN /\ buffer' = [buffer EXCEPT ![index + 1] = WordOffered(Port)]
                    /\ TakeWord(Port)
               ELSE /\ GiveWord(Port, call.data[index + 1])
                    /\ UNCHANGED buffer
            /\ UNCHANGED <<pc, call, result, stored, down>>

\* After its last word a read fetches one byte more, which moves nothing.
EndTransfer == /\ At("transfer")
               /\ index = Words * call.count
               /\ Goto(IF Reading THEN "return" ELSE "commit")
               /\ UNCHANGED device

FlushCache == /\ At("commit")
              /\ Command(Port, "flush")
              /\ Goto("drain")

\* Fault: a write does not wait for the drive to finish.
Drain_NoWait == /\ At("drain")
                /\ Goto("return")
                /\ UNCHANGED device

Drain == /\ At("drain")
         /\ ~Bsy(Port)
         /\ Goto("return")
         /\ UNCHANGED device

Return == /\ At("return")
          /\ pc' = "free"
          /\ call' = NoCall
          /\ result' = buffer
          /\ index' = 0 /\ buffer' = <<>> /\ stored' = 0
          /\ UNCHANGED <<device, down, behind>>

Driver == \/ Select \/ WaitIdle \/ Setup \/ IssueCommand \/ WaitReady
          \/ Transfer \/ EndTransfer \/ FlushCache \/ Drain \/ Return

DriveWorks(d) == /\ Works(d)
                 /\ stored' = IF phase[d] = "store" THEN stored + 1 ELSE stored
                 /\ UNCHANGED driver

DriveWritesBack(d) == /\ \E l \in Lbas : WriteBack(d, l)
                      /\ UNCHANGED <<sel, nIEN, regs, driver, stored>>

\* An interrupt of either channel is delivered through an empty gate.
Stray == /\ irqs # {} /\ ~down
         /\ down' = TRUE
         /\ UNCHANGED <<device, pc, call, index, buffer, result, stored, behind>>

-----------------------------------------------------------------------------
Init == /\ DeviceInit
        /\ media \in FirstMedia
        /\ pc = "free"
        /\ call = NoCall
        /\ index = 0 /\ buffer = <<>> /\ result = <<>> /\ stored = 0
        /\ down = FALSE /\ behind = FALSE

Next == \/ \E asked \in Calls : Begin(asked)
        \/ Driver
        \/ \E d \in Present : DriveWorks(d) \/ DriveWritesBack(d)
        \/ Stray

\* The processor goes on with the driver and each drive with its command;
\* callers need not call and drives need not write back.
Fairness == /\ WF_vars(Driver)
            /\ \A d \in Present : WF_vars(DriveWorks(d))

Spec == Init /\ [][Next]_vars /\ Fairness

-----------------------------------------------------------------------------
(* Properties *)

Word == Values \cup {Junk}

TypeOK ==
  /\ sel \in [Channels -> DriveIds]
  /\ \A ch \in Channels : Channel(sel[ch]) = ch
  /\ nIEN \in [Channels -> BOOLEAN]
  /\ regs \in [Channels -> [lba : Nat, count : Nat]]
  /\ phase \in [DriveIds -> Phases]
  /\ \A d \in DriveIds : /\ task[d].lba \in Nat /\ task[d].left \in 0 .. MaxCount
                         /\ task[d].k \in 0 .. Words - 1
                         /\ Len(task[d].words) \in 0 .. Words
  /\ \A d \in Present : /\ DOMAIN cache[d] \subseteq Lbas
                        /\ \A l \in Lbas : Content(d, l) \in [1 .. Words -> Values]
  /\ irqs \subseteq Channels
  /\ pc \in Points
  /\ call \in Calls \cup {NoCall}
  /\ index \in 0 .. Words * MaxCount
  /\ stored \in 0 .. MaxCount
  /\ down \in BOOLEAN /\ behind \in BOOLEAN

\* To its callers the driver is an array of sectors: what a read returns is
\* what the last write left, a write replaces its own sectors only, and a call
\* returns only when the drive has done all of it; but a call for several
\* sectors may leave its drive behind, and from then on nothing is promised.
Implements == Abstract!Spec

\* The transfer loop moves words without looking at the drive.  Still every
\* word it writes finds the drive asking for one, and every word it reads is
\* offered, up to one place: the first word of the second or a later sector
\* (atapio.c 108, 150), where the drive may be busy with the sector before, or
\* have ended the command because the disk has no such sector.
TransferReady ==
  ~behind /\ pc = "transfer" /\ index < Words * call.count /\ ~WordReady =>
    /\ index > 0 /\ index % Words = 0
    /\ \/ phase[call.drive] \in {"seek", "store"}
       \/ call.lba + (index \div Words) \notin Lbas

\* Between calls every drive is idle, as long as none has been left behind.
\* The writing functions program the drive without waiting for it, so they rely
\* on how the call before them ended.
IdleBetweenCalls ==
  ~behind /\ pc = "free" => \A d \in Present : phase[d] = "idle"

\* A call for sectors that a present drive has comes back, unless an interrupt
\* takes the machine down meanwhile or a drive is left behind: calls after that
\* may wait for ever.
Answerable == call # NoCall /\ (\/ call.drive >= 4
                                \/ /\ call.drive \in Present
                                   /\ call.lba .. call.lba + call.count - 1 \subseteq Lbas)

Answered == Answerable ~> (pc = "free" \/ down \/ behind)

\* "tell ATA TO SHUT UP" (atapio.c 21, 99): a read from the first channel is
\* not interrupted, whatever drives there are on either, as long as none has
\* been left behind.  Of the second channel the code does not achieve it: the
\* mask goes to the first one's register all the same.
ReadKeepsQuiet == [][Reading /\ Port = 0 /\ ~behind => irqs' = irqs]_vars

\* "SHUT UP ATA" (atapio.c 54): the same for a write.
WriteKeepsQuiet == [][call.kind = "write" => irqs' = irqs]_vars

\* "Tell the drive to commit the cache to the actual storage", "Wait for flush
\* to finish" (atapio.c 76-78): when a write returns, the medium has the sector.
FlushedOnReturn ==
  pc = "return" /\ call.kind = "write" /\ call.drive < 4 => call.lba \notin DOMAIN cache[call.drive]

\* "Wait for the drive to be ready to receive the buffer", "Blast the text data
\* out to the drive buffer" (atapio.c 141, 149): when a write to sectors of a
\* drive returns, the drive has taken over all of them.
WritesLand ==
  /\ pc = "return" /\ call.kind = "write" /\ call.drive \in Present
  /\ call.lba .. call.lba + call.count - 1 \subseteq Lbas
  => stored = call.count
=============================================================================
