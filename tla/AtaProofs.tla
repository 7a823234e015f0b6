------------------------------ MODULE AtaProofs ------------------------------
(***************************************************************************)
(* Ata for every set of drives of any speed, every set of sectors, every   *)
(* size of a sector and every number of them in a call.  The driver is     *)
(* never out of step with its drive, and implements BlockStore, until it   *)
(* moves a word that the drive is not ready for; and that happens at the   *)
(* boundary between two sectors of a call only, so never where calls ask   *)
(* for one sector.                                                         *)
(***************************************************************************)
EXTENDS Ata, TLAPS

Sector == [1 .. Words -> Values]

\* Words in the first n sectors of a buffer.
Upto(n) == Words * n

Tasks == [lba : Nat, left : 0 .. MaxCount, words : Seq(Values), k : 0 .. Words - 1]

\* The types, and the drives that are not there.
DeviceOK ==
  /\ sel \in [Channels -> DriveIds] /\ \A ch \in Channels : Channel(sel[ch]) = ch
  /\ nIEN \in [Channels -> BOOLEAN]
  /\ regs \in [Channels -> [lba : Nat, count : Nat]]
  /\ phase \in [DriveIds -> Phases]
  /\ \A d \in DriveIds \ Present : phase[d] = "absent"
  /\ task \in [DriveIds -> Tasks]
  /\ \A d \in DriveIds : Len(task[d].words) <= Words
  /\ cache \in [Present -> UNION {[L -> Sector] : L \in SUBSET Lbas}]
  /\ media \in [Present -> [Lbas -> Sector]]
  /\ irqs \subseteq Channels

DriverOK ==
  /\ pc \in Points
  /\ call \in Calls \cup {NoCall}
  /\ (call = NoCall) <=> (pc = "free")
  /\ pc \notin {"free", "return"} => call.drive < 4
  /\ pc = "wait_idle" => Reading
  /\ pc \in {"commit", "drain"} => ~Reading
  /\ index \in Nat /\ stored \in Nat /\ down \in BOOLEAN
  /\ pc # "free" => index <= Upto(call.count) /\ stored <= call.count

\* Before a command is written, and when the call is over, no drive works; in
\* between only the drive of the call does.
Before   == {"free", "select", "wait_idle", "setup", "command"}
QuietRest == \A d \in Present : (pc \in Before \cup {"return"} \/ d # call.drive) => phase[d] = "idle"

\* The registers of the call's channel are set up when the command is written,
\* if anything is on the channel at all.  A read has waited for that.
Addressed ==
  /\ pc \notin {"free", "select", "return"} /\ ~Floating(Port) => sel[Port] = call.drive
  /\ pc = "command" /\ ~Floating(Port) => regs[Port] = [lba |-> call.lba, count |-> call.count]
  /\ pc \in {"setup", "command", "wait_ready", "transfer"} /\ Reading => ~Floating(Port)
  /\ pc \in {"command", "wait_ready", "transfer"} /\ Reading => nIEN[0] = TRUE

\* The drive has the first n sectors of the call.
Whole(n) == \A i \in 0 .. n - 1 : call.lba + i \in Lbas

\* The drive works on sector j of the call, counted from 0: it hands out its
\* words, asks for them, or has got them all.
Doing(p, j) == /\ phase[call.drive] = p
               /\ task[call.drive].lba = call.lba + j
               /\ task[call.drive].left = call.count - j

Taking(j) == /\ Doing("out", j)
             /\ index = Upto(j) + task[call.drive].k
             /\ task[call.drive].words = Content(call.drive, call.lba + j)

Giving(j) == /\ Doing("in", j)
             /\ Len(task[call.drive].words) < Words
             /\ index = Upto(j) + Len(task[call.drive].words)
             /\ \A i \in 1 .. Len(task[call.drive].words) :
                  task[call.drive].words[i] = call.data[Upto(j) + i]

Storing(j) == /\ Doing("store", j)
              /\ index = Upto(j + 1)
              /\ task[call.drive].words = Abstract!Slice(call.data, j)

\* Idle: done, or the next sector does not exist.
Stopped(j) == /\ phase[call.drive] = "idle"
              /\ index = Upto(j)
              /\ j < call.count => call.lba + j \notin Lbas

InRead == \E j \in 0 .. call.count :
            /\ Whole(j)
            /\ \/ Stopped(j)
               \/ j < call.count /\ Doing("seek", j) /\ index = Upto(j)
               \/ j < call.count /\ Whole(j + 1) /\ Taking(j)

InWrite == /\ Whole(stored)
           /\ \/ Stopped(stored)
              \/ stored < call.count /\ Whole(stored + 1) /\ (Giving(stored) \/ Storing(stored))

\* Driver and drive move word by word together.
InStep ==
  /\ pc \in Before \cup {"wait_ready"} \/ Reading => stored = 0
  /\ pc \in Before \cup {"wait_ready"} => index = 0
  /\ pc = "wait_ready" /\ call.drive \in Present =>
       IF Reading THEN InRead ELSE InWrite \/ Doing("accept", 0)
  /\ pc \in {"transfer", "commit", "drain"} => call.drive \in Present
  /\ pc = "transfer" => IF Reading THEN InRead ELSE InWrite
  /\ pc = "transfer" /\ index = 0 => phase[call.drive] \in {"out", "in"}
  /\ pc \in {"commit", "drain"} => index = Upto(call.count)
  /\ pc = "commit" => InWrite
  /\ pc = "drain" => \/ InWrite
                     \/ phase[call.drive] = "flush" /\ stored = call.count /\ Whole(stored)
  /\ pc = "return" /\ call.drive < 4 =>
       /\ call.drive \in Present /\ Whole(call.count)
       /\ IF Reading THEN index = Upto(call.count) ELSE stored = call.count
  /\ pc = "return" /\ call.drive >= 4 => stored = 0

\* The caller's buffer has the words taken, and is as it was but for these.
Buffered ==
  /\ call = NoCall \/ ~Reading => buffer = <<>>
  /\ Reading => buffer \in [1 .. Upto(call.count) -> Values \cup {Junk}]
  /\ Reading /\ pc \in {"transfer", "return"} /\ call.drive < 4 =>
       \A j \in 0 .. call.count - 1, w \in 1 .. Words :
         Upto(j) + w <= index => buffer[Upto(j) + w] = Content(call.drive, call.lba + j)[w]
  /\ Reading /\ (pc \notin {"transfer", "return"} \/ call.drive >= 4) =>
       buffer = Abstract!Untouched(call.count)

\* What holds while the drives keep up, and the inductive invariant.
AInv == DeviceOK /\ DriverOK /\ QuietRest /\ Addressed /\ InStep /\ Buffered
KInv == behind \in BOOLEAN /\ (~behind => AInv)

-----------------------------------------------------------------------------
(* Sectors of a buffer *)

LEMMA Numbers ==
  /\ Present \subseteq 0 .. 3 /\ CallDrives \subseteq Nat
  /\ Lbas \subseteq Nat /\ CallLbas \subseteq Nat
  /\ Words \in Nat \ {0} /\ MaxCount \in Nat \ {0} /\ Junk \notin Values
<1>1. \A n : 0 .. n \subseteq Nat
  OBVIOUS
<1>2. Addresses \subseteq Nat
  BY <1>1, Zenon DEF Addresses
<1>3. CallLbas \subseteq Nat
  BY <1>2, AtaAssumption
<1>4. QED
  BY <1>3, AtaAssumption DEF DriveIds

\* Sector after sector, a buffer grows by the words of one.
LEMMA UptoNext ==
  ASSUME NEW n \in Nat
  PROVE  /\ Upto(n) \in Nat /\ Upto(0) = 0 /\ Upto(1) = Words
         /\ Upto(n + 1) = Upto(n) + Words
  BY Numbers DEF Upto

LEMMA UptoRises ==
  ASSUME NEW m \in Nat, NEW n \in Nat, m < n
  PROVE  Upto(m) + Words <= Upto(n)
<1>1. n - m \in Nat /\ n - m >= 1 /\ n = m + (n - m)
  OBVIOUS
<1>2. \A a \in Nat, b \in Nat : a >= 1 => b <= b * a
  OBVIOUS
<1>3. Words <= Words * (n - m) /\ Words \in Nat
  BY <1>1, <1>2, Numbers
<1>4. Words * (m + (n - m)) = Words * m + Words * (n - m)
  BY <1>1, Numbers
<1>5. Words * m \in Nat /\ Words * (n - m) \in Nat
  BY <1>1, Numbers
<1>6. QED
  BY <1>1, <1>3, <1>4, <1>5 DEF Upto

LEMMA UptoSame ==
  ASSUME NEW m \in Nat, NEW n \in Nat, Upto(m) = Upto(n)
  PROVE  m = n
<1>1. Upto(m) \in Nat /\ Words \in Nat \ {0}
  BY UptoNext, Numbers
<1>2. m < n => Upto(m) + Words <= Upto(n)
  BY UptoRises
<1>3. n < m => Upto(n) + Words <= Upto(m)
  BY UptoRises
<1>4. QED
  BY <1>1, <1>2, <1>3

\* Where a word is says which of which sector it is.
LEMMA PlaceOfWord ==
  ASSUME NEW i \in Nat, NEW j \in Nat, NEW v \in 1 .. Words, NEW w \in 1 .. Words
  PROVE  /\ Upto(i) + v = Upto(j) + w => i = j /\ v = w
         /\ Upto(i) + v <= Upto(j) => i < j
         /\ i < j => Upto(i) + v <= Upto(j)
<1>1. Upto(i) \in Nat /\ Upto(j) \in Nat /\ Words \in Nat \ {0}
  BY UptoNext, Numbers
<1>2. i < j => Upto(i) + Words <= Upto(j)
  BY UptoRises
<1>3. j < i => Upto(j) + Words <= Upto(i)
  BY UptoRises
<1>4. i < j \/ j < i \/ i = j
  OBVIOUS
<1>5. CASE i = j
  BY <1>1, <1>5
<1>6. CASE i < j
  BY <1>1, <1>2, <1>6
<1>7. CASE j < i
  BY <1>1, <1>3, <1>7
<1>8. QED
  BY <1>4, <1>5, <1>6, <1>7

\* Word w of sector j is in a buffer of n sectors.
LEMMA PlaceInBuffer ==
  ASSUME NEW n \in Nat, NEW j \in 0 .. n - 1, NEW w \in 1 .. Words
  PROVE  Upto(j) + w \in 1 .. Upto(n)
<1>1. j \in Nat /\ j < n
  OBVIOUS
<1>2. Upto(j) + Words <= Upto(n)
  BY <1>1, UptoRises
<1>3. Upto(j) \in Nat /\ Upto(n) \in Nat /\ Words \in Nat
  BY <1>1, UptoNext, Numbers
<1>4. QED
  BY <1>2, <1>3

\* Every word of a buffer has its place in a sector.
LEMMA SectorOfWord ==
  ASSUME NEW n \in Nat, NEW x \in 1 .. Upto(n)
  PROVE  /\ (x - 1) \div Words \in 0 .. n - 1
         /\ ((x - 1) % Words) + 1 \in 1 .. Words
         /\ x = Upto((x - 1) \div Words) + (((x - 1) % Words) + 1)
<1> DEFINE j == (x - 1) \div Words
           r == (x - 1) % Words
<1>1. Words \in Nat \ {0} /\ Words \in Int /\ Words > 0 /\ x - 1 \in Nat
  BY UptoNext, Numbers
<1>2. r \in 0 .. Words - 1
  BY <1>1
<1>3. x - 1 = Words * j + r
  BY <1>1
<1>4. j \in Int
  BY <1>1
<1>5. j \in Nat
  BY <1>1
<1> HIDE DEF j, r
<1>6. Upto(j) = Words * j /\ Upto(j) \in Nat /\ Upto(n) \in Nat
  BY <1>5, UptoNext DEF Upto
<1>7. j < n
  <2>1. ~ n < j /\ ~ n = j
    <3>1. n < j => Upto(n) + Words <= Upto(j)
      BY <1>5, UptoRises
    <3>2. Upto(j) + r < Upto(n)
      BY <1>1, <1>2, <1>3, <1>6
    <3>3. QED
      BY <1>1, <1>2, <1>6, <3>1, <3>2
  <2>2. QED
    BY <1>5, <2>1
<1>8. x = Upto(j) + (r + 1) /\ r + 1 \in 1 .. Words /\ j \in 0 .. n - 1
  BY <1>1, <1>2, <1>3, <1>5, <1>6, <1>7
<1>9. QED
  BY <1>8 DEF j, r

-----------------------------------------------------------------------------
(* What the steps have in common *)

LEMMA CallFacts ==
  ASSUME NEW asked \in Calls
  PROVE  /\ asked.kind \in {"read", "write"} /\ asked.drive \in CallDrives
         /\ asked.drive \in Nat /\ asked.lba \in CallLbas /\ asked.lba \in Nat
         /\ asked.count \in 1 .. MaxCount /\ asked.count \in Nat /\ asked # NoCall
         /\ asked.kind = "write" => asked.data \in [1 .. Upto(asked.count) -> Values]
<1>1. \A a \in 1 .. MaxCount : a \in Nat
  BY Numbers
<1>2. NoCall.kind = "none"
  BY DEF NoCall, Abstract!NoCall
<1>3. CASE asked \in Abstract!Reads
  <2>1. /\ asked.kind = "read" /\ asked.drive \in CallDrives /\ asked.lba \in CallLbas
        /\ asked.count \in 1 .. MaxCount
    BY <1>3 DEF Abstract!Reads
  <2>2. asked.count \in Nat /\ asked.drive \in Nat /\ asked.lba \in Nat
    BY <1>1, <2>1, Numbers, Zenon
  <2>3. asked.kind # "write" /\ asked # NoCall
    BY <1>2, <2>1
  <2>4. QED
    BY <2>1, <2>2, <2>3
<1>4. CASE asked \in Abstract!Writes
  <2>1. PICK n \in 1 .. MaxCount :
           asked \in [kind : {"write"}, drive : CallDrives, lba : CallLbas, count : {n},
                      data : Abstract!Buffer(n)]
    BY <1>4 DEF Abstract!Writes
  <2>2. /\ asked.kind = "write" /\ asked.drive \in CallDrives /\ asked.lba \in CallLbas
        /\ asked.count = n /\ asked.data \in Abstract!Buffer(n)
    BY <2>1
  <2>3. asked.data \in [1 .. Upto(asked.count) -> Values]
    BY <2>2 DEF Abstract!Buffer, Upto
  <2>4. asked.count \in Nat /\ asked.drive \in Nat /\ asked.lba \in Nat
    BY <1>1, <2>2, Numbers, Zenon
  <2>5. asked # NoCall
    BY <1>2, <2>2
  <2>6. QED
    BY <2>2, <2>3, <2>4, <2>5
<1>5. QED
  BY <1>3, <1>4 DEF Calls

\* A drive that is there is heard on its channel.
LEMMA PresentHeard ==
  ASSUME NEW d \in Present
  PROVE  d \in DriveIds /\ Channel(d) \in Channels /\ ~Floating(Channel(d))
<1>1. d \in 0 .. 3 /\ d \in DriveIds
  BY Numbers DEF DriveIds
<1>2. Channel(d) \in Channels
  BY <1>1 DEF Channel, Channels
<1>3. QED
  BY <1>1, <1>2 DEF Floating

\* A channel whose drives are all idle listens.
LEMMA IdleListens ==
  ASSUME DeviceOK, NEW ch \in Channels, ~Floating(ch), \A d \in Present : phase[d] = "idle"
  PROVE  Listens(ch) /\ ~Bsy(ch) /\ ~Drq(ch)
<1>1. sel[ch] \in DriveIds
  BY DEF DeviceOK
<1>2. phase[sel[ch]] \in {"idle", "absent"}
  BY <1>1 DEF DeviceOK
<1>3. QED
  BY <1>2 DEF Listens, Bsy, Drq

\* The host sees a sector of a drive in the cache or on the medium.
LEMMA ContentType ==
  ASSUME DeviceOK, NEW d \in Present, NEW l \in Lbas
  PROVE  Content(d, l) \in Sector
<1>1. media[d][l] \in Sector
  BY DEF DeviceOK
<1>2. PICK L \in SUBSET Lbas : cache[d] \in [L -> Sector]
  BY DEF DeviceOK
<1>3. l \in DOMAIN cache[d] => cache[d][l] \in Sector
  BY <1>2
<1>4. QED
  BY <1>1, <1>3 DEF Content

\* A sector is a sequence of words.
LEMMA SectorIsSeq ==
  ASSUME NEW s \in Sector
  PROVE  /\ s \in Seq(Values) /\ Len(s) = Words /\ DOMAIN s = 1 .. Words
         /\ \A i \in 1 .. Words : s[i] \in Values
<1>1. Words \in Nat
  BY Numbers
<1>2. QED
  BY <1>1 DEF Sector

\* A sector of the data of a write.
LEMMA SliceIsSector ==
  ASSUME NEW n \in Nat, NEW data \in [1 .. Upto(n) -> Values], NEW j \in 0 .. n - 1
  PROVE  /\ Abstract!Slice(data, j) \in Sector
         /\ \A w \in 1 .. Words : /\ Abstract!Slice(data, j)[w] = data[Upto(j) + w]
                                  /\ data[Upto(j) + w] \in Values
<1>1. j \in Nat /\ j * Words = Upto(j)
  BY Numbers DEF Upto
<1>2. \A w \in 1 .. Words : data[Upto(j) + w] \in Values
  BY PlaceInBuffer
<1>3. Abstract!Slice(data, j) = [w \in 1 .. Words |-> data[Upto(j) + w]]
  BY <1>1 DEF Abstract!Slice
<1>4. QED
  BY <1>2, <1>3 DEF Sector

\* One drive goes on to another phase.
LEMMA BecomesStep ==
  ASSUME DeviceOK, NEW d \in DriveIds, NEW p \in Phases, NEW t \in Tasks, Len(t.words) <= Words,
         Becomes(d, p, t), d \notin Present => p = "absent"
  PROVE  /\ phase' \in [DriveIds -> Phases] /\ task' \in [DriveIds -> Tasks]
         /\ phase'[d] = p /\ task'[d] = t
         /\ \A e \in DriveIds : e # d => phase'[e] = phase[e] /\ task'[e] = task[e]
         /\ \A e \in DriveIds \ Present : phase'[e] = "absent"
         /\ \A e \in DriveIds : Len(task'[e].words) <= Words
<1>1. /\ phase \in [DriveIds -> Phases] /\ task \in [DriveIds -> Tasks]
      /\ phase' = [phase EXCEPT ![d] = p] /\ task' = [task EXCEPT ![d] = t]
      /\ \A e \in DriveIds \ Present : phase[e] = "absent"
      /\ \A e \in DriveIds : Len(task[e].words) <= Words
  BY DEF DeviceOK, Becomes
<1>2. /\ phase' \in [DriveIds -> Phases] /\ task' \in [DriveIds -> Tasks]
      /\ phase'[d] = p /\ task'[d] = t
      /\ \A e \in DriveIds : e # d => phase'[e] = phase[e] /\ task'[e] = task[e]
  BY <1>1
<1>3. QED
  BY <1>1, <1>2

LEMMA NoTaskIsTask ==
  NoTask \in Tasks /\ Len(NoTask.words) = 0 /\ 0 <= Words
<1>1. <<>> \in Seq(Values) /\ Len(<<>>) = 0 /\ 0 \in 0 .. Words - 1 /\ 0 <= Words
      /\ 0 \in 0 .. MaxCount
  BY Numbers
<1>2. QED
  BY <1>1 DEF NoTask, Tasks

LEMMA TaskOf ==
  ASSUME NEW a, NEW b
  PROVE  [NoTask EXCEPT !.lba = a, !.left = b] = [lba |-> a, left |-> b, words |-> <<>>, k |-> 0]
<1>1. [NoTask EXCEPT !.lba = a, !.left = b]
        = [f \in {"lba", "left", "words", "k"} |->
             IF f = "left" THEN b ELSE IF f = "lba" THEN a ELSE NoTask[f]]
  BY DEF NoTask
<1>2. QED
  BY <1>1 DEF NoTask

\* A drive that only changes its phase and task, and interrupts or not.
LEMMA DeviceStep ==
  ASSUME DeviceOK, NEW d \in DriveIds, NEW p \in Phases, NEW t \in Tasks, Len(t.words) <= Words,
         Becomes(d, p, t), d \notin Present => p = "absent",
         UNCHANGED <<sel, nIEN, regs, cache, media>>, irqs' \subseteq Channels
  PROVE  DeviceOK'
  BY BecomesStep DEF DeviceOK

\* The call being served.
LEMMA CallServed ==
  ASSUME AInv, pc # "free"
  PROVE  /\ call \in Calls /\ call # NoCall /\ call.kind \in {"read", "write"}
         /\ call.drive \in Nat /\ call.lba \in Nat
         /\ call.count \in 1 .. MaxCount /\ call.count \in Nat /\ call.count > 0
         /\ ~Reading => call.data \in [1 .. Upto(call.count) -> Values]
         /\ pc # "return" => call.drive \in DriveIds /\ Port \in Channels
         /\ call.drive \in Present => call.drive \in DriveIds /\ Port \in Channels /\ ~Floating(Port)
         /\ pc # "return" /\ ~Floating(Port) => sel[Port] \in DriveIds
<1>1. call \in Calls /\ call # NoCall
  BY DEF AInv, DriverOK
<1>2. /\ call.kind \in {"read", "write"} /\ call.drive \in Nat /\ call.lba \in Nat
      /\ call.count \in 1 .. MaxCount /\ call.count \in Nat
      /\ call.kind = "write" => call.data \in [1 .. Upto(call.count) -> Values]
  BY <1>1, CallFacts
<1>3. pc # "return" => call.drive \in DriveIds /\ Port \in Channels
  <2> SUFFICES ASSUME pc # "return" PROVE call.drive \in DriveIds /\ Port \in Channels
    OBVIOUS
  <2>1. call.drive < 4
    BY DEF AInv, DriverOK
  <2>2. QED
    BY <1>2, <2>1 DEF DriveIds, Port, Channel, Channels
<1>4. call.drive \in Present => call.drive \in DriveIds /\ Port \in Channels /\ ~Floating(Port)
  BY PresentHeard DEF Port
<1>5. call.count > 0
  BY <1>2
<1>6. QED
  BY <1>1, <1>2, <1>3, <1>4, <1>5 DEF Reading, AInv, DeviceOK

\* What is said of driver and drive stays while neither moves.
LEMMA StandsStill ==
  ASSUME UNCHANGED <<phase, task, cache, media, call, index, stored>>
  PROVE  /\ UNCHANGED <<Port, Reading, InRead, InWrite>>
         /\ Floating(Port)' = Floating(Port)
         /\ \A n : Whole(n)' = Whole(n)
         /\ \A p, j : Doing(p, j)' = Doing(p, j)
<1>1. UNCHANGED <<Port, Reading>> /\ Floating(Port)' = Floating(Port)
  BY DEF Port, Reading, Floating
<1>2. \A n : Whole(n)' = Whole(n)
  BY DEF Whole
<1>3. \A p, j : Doing(p, j)' = Doing(p, j)
  BY DEF Doing
<1>4. \A j : /\ Taking(j)' = Taking(j) /\ Giving(j)' = Giving(j)
             /\ Storing(j)' = Storing(j) /\ Stopped(j)' = Stopped(j)
  BY <1>3 DEF Taking, Giving, Storing, Stopped, Content
<1>5. UNCHANGED <<InRead, InWrite>>
  BY <1>2, <1>3, <1>4 DEF InRead, InWrite
<1>6. QED
  BY <1>1, <1>2, <1>3, <1>5

-----------------------------------------------------------------------------
(* The driver's steps *)

LEMMA InitAInv == Init => AInv
<1> SUFFICES ASSUME Init PROVE AInv
  OBVIOUS
<1> USE DEF Init, DeviceInit
<1>1. DeviceOK
  <2>1. sel \in [Channels -> DriveIds] /\ \A ch \in Channels : Channel(sel[ch]) = ch
    BY DEF Channels, DriveIds, Channel
  <2>2. /\ nIEN \in [Channels -> BOOLEAN] /\ regs \in [Channels -> [lba : Nat, count : Nat]]
        /\ phase \in [DriveIds -> Phases] /\ \A d \in DriveIds \ Present : phase[d] = "absent"
    BY DEF Phases
  <2>3. task \in [DriveIds -> Tasks] /\ \A d \in DriveIds : Len(task[d].words) <= Words
    BY NoTaskIsTask
  <2>4. cache \in [Present -> UNION {[L -> Sector] : L \in SUBSET Lbas}]
    <3>1. <<>> \in [{} -> Sector] /\ {} \in SUBSET Lbas
      OBVIOUS
    <3>2. QED
      BY <3>1
  <2>5. media \in [Present -> [Lbas -> Sector]]
    BY AtaAssumption DEF Sector
  <2>6. QED
    BY <2>1, <2>2, <2>3, <2>4, <2>5 DEF DeviceOK
<1>2. NoCall.kind = "none"
  BY DEF NoCall, Abstract!NoCall
<1>3. \A d \in Present : phase[d] = "idle"
  BY Numbers DEF DriveIds
<1>4. pc = "free" /\ call = NoCall /\ index = 0 /\ stored = 0 /\ down = FALSE /\ buffer = <<>>
  OBVIOUS
<1> HIDE DEF Init, DeviceInit
<1>5. DriverOK
  BY <1>2, <1>4 DEF DriverOK, Reading, Points
<1>6. InStep
  BY <1>4 DEF InStep, Before
<1>7. QuietRest /\ Addressed
  BY <1>3, <1>4 DEF QuietRest, Addressed
<1>8. Buffered
  BY <1>2, <1>4 DEF Buffered, Reading
<1>9. QED
  BY <1>1, <1>5, <1>6, <1>7, <1>8 DEF AInv

LEMMA BeginStep ==
  ASSUME AInv, NEW asked \in Calls, Begin(asked)
  PROVE  AInv'
<1>1. /\ pc = "free" /\ call' = asked
      /\ pc' = (IF asked.drive >= 4 THEN "return" ELSE "select")
      /\ index' = 0 /\ stored' = 0 /\ down' = down
      /\ buffer' = (IF asked.kind = "read" THEN Abstract!Untouched(asked.count) ELSE <<>>)
      /\ UNCHANGED <<sel, nIEN, regs, phase, task, cache, media, irqs>>
  BY DEF Begin, device
<1>2. /\ asked.kind \in {"read", "write"} /\ asked.drive \in Nat /\ asked.count \in Nat
      /\ asked # NoCall
  BY CallFacts
<1>3. /\ Abstract!Untouched(asked.count) \in [1 .. Upto(asked.count) -> Values \cup {Junk}]
      /\ Upto(asked.count) \in Nat
  BY <1>2, UptoNext DEF Abstract!Untouched, Upto
<1>4. DeviceOK'
  BY <1>1 DEF AInv, DeviceOK
<1>5. DriverOK'
  <2>1. index' <= Upto(call'.count) /\ stored' <= call'.count
    BY <1>1, <1>2, <1>3
  <2>2. Upto(call.count)' = Upto(call'.count)
    BY DEF Upto
  <2>3. pc' \in {"return", "select"} /\ down' \in BOOLEAN /\ (pc' # "return" => call'.drive < 4)
    BY <1>1, <1>2 DEF AInv, DriverOK
  <2>4. call' \in Calls /\ call' # NoCall /\ index' \in Nat /\ stored' \in Nat
    BY <1>1, <1>2
  <2>5. QED
    BY <2>1, <2>2, <2>3, <2>4 DEF DriverOK, Points
<1>6. QuietRest' /\ Addressed'
  BY <1>1 DEF AInv, QuietRest, Before, Addressed
<1>7. InStep'
  <2>1. pc' = "return" => ~(call'.drive < 4)
    BY <1>1, <1>2
  <2>2. pc' \in {"return", "select"} /\ stored' = 0 /\ index' = 0
    BY <1>1
  <2>3. QED
    BY <2>1, <2>2 DEF InStep, Before
<1>8. Buffered'
  <2>1. pc' \in {"transfer", "return"} => ~(call'.drive < 4)
    BY <1>1, <1>2
  <2>2. Reading' <=> asked.kind = "read"
    BY <1>1 DEF Reading
  <2>3. /\ asked.kind = "read" => buffer' = Abstract!Untouched(asked.count)
        /\ asked.kind # "read" => buffer' = <<>>
    BY <1>1
  <2>4. Abstract!Untouched(call.count)' = Abstract!Untouched(call'.count)
        /\ Upto(call.count)' = Upto(call'.count)
    BY DEF Abstract!Untouched, Upto
  <2>5. call' # NoCall
    BY <1>1, <1>2
  <2>6. QED
    BY <1>1, <1>3, <2>1, <2>2, <2>3, <2>4, <2>5 DEF Buffered
<1>9. QED
  BY <1>4, <1>5, <1>6, <1>7, <1>8 DEF AInv

LEMMA SelectStep ==
  ASSUME AInv, Select
  PROVE  AInv'
<1>1. /\ pc = "select" /\ pc' = (IF Reading THEN "wait_idle" ELSE "setup")
      /\ sel' = (IF Listens(Port) THEN [sel EXCEPT ![Port] = call.drive] ELSE sel)
      /\ UNCHANGED <<nIEN, regs, phase, task, cache, media, irqs, call, index, buffer,
                     stored, down>>
  BY DEF Select, At, Goto, SelectDrive, Port
<1>2. call.drive \in DriveIds /\ Port \in Channels /\ Channel(call.drive) = Port
  BY <1>1, CallServed DEF Port
<1>3. ~Floating(Port) => Listens(Port)
  BY <1>1, <1>2, IdleListens DEF AInv, QuietRest, Before
<1>4. DeviceOK'
  BY <1>1, <1>2 DEF AInv, DeviceOK
<1>5. sel \in [Channels -> DriveIds]
  BY DEF AInv, DeviceOK
<1>6. ~Floating(Port) => sel'[Port] = call.drive
  BY <1>1, <1>2, <1>3, <1>5
<1>7. UNCHANGED <<Port, Reading>> /\ Floating(Port)' = Floating(Port)
  BY <1>1 DEF Port, Reading, Floating
<1>8. DriverOK'
  BY <1>1 DEF AInv, DriverOK, Points, Reading, Upto
<1>9. QuietRest'
  BY <1>1 DEF AInv, QuietRest, Before
<1>10. Addressed'
  BY <1>1, <1>6, <1>7 DEF AInv, Addressed
<1>11. InStep'
  BY <1>1 DEF AInv, InStep, Before
<1>12. Buffered'
  BY <1>1 DEF AInv, Buffered, Reading, Upto, Abstract!Untouched
<1>13. QED
  BY <1>4, <1>8, <1>9, <1>10, <1>11, <1>12 DEF AInv

LEMMA WaitIdleStep ==
  ASSUME AInv, WaitIdle
  PROVE  AInv'
<1>1. /\ pc = "wait_idle" /\ pc' = "setup" /\ ~Bsy(Port)
      /\ UNCHANGED <<sel, nIEN, regs, phase, task, cache, media, irqs, call, index, buffer,
                     stored, down>>
  BY DEF WaitIdle, At, Goto, device
<1>2. ~Floating(Port)
  BY <1>1 DEF Bsy
<1>3. UNCHANGED <<Port, Reading>> /\ Floating(Port)' = Floating(Port)
  BY <1>1 DEF Port, Reading, Floating
<1>4. DeviceOK'
  BY <1>1 DEF AInv, DeviceOK
<1>5. DriverOK' /\ QuietRest'
  BY <1>1 DEF AInv, DriverOK, Points, Reading, QuietRest, Before, Upto
<1>6. Addressed'
  BY <1>1, <1>2, <1>3 DEF AInv, Addressed
<1>7. InStep'
  BY <1>1 DEF AInv, InStep, Before
<1>8. Buffered'
  BY <1>1 DEF AInv, Buffered, Reading, Upto, Abstract!Untouched
<1>9. QED
  BY <1>4, <1>5, <1>6, <1>7, <1>8 DEF AInv

LEMMA SetupStep ==
  ASSUME AInv, Setup
  PROVE  AInv'
<1>1. /\ pc = "setup" /\ pc' = "command"
      /\ nIEN' = (IF Reading THEN [nIEN EXCEPT ![0] = TRUE] ELSE nIEN)
      /\ regs' = (IF Listens(Port)
                  THEN [regs EXCEPT ![Port] = [lba |-> call.lba, count |-> call.count]] ELSE regs)
      /\ UNCHANGED <<sel, phase, task, cache, media, irqs, call, index, buffer, stored, down>>
  BY DEF Setup, At, Goto, SetTask
<1>2. Port \in Channels /\ call.lba \in Nat /\ call.count \in Nat /\ 0 \in Channels
  BY <1>1, CallServed DEF Channels
<1>3. ~Floating(Port) => Listens(Port)
  BY <1>1, <1>2, IdleListens DEF AInv, QuietRest, Before
<1>4. nIEN \in [Channels -> BOOLEAN] /\ regs \in [Channels -> [lba : Nat, count : Nat]]
  BY DEF AInv, DeviceOK
<1>5. /\ nIEN' \in [Channels -> BOOLEAN] /\ regs' \in [Channels -> [lba : Nat, count : Nat]]
      /\ Reading => nIEN'[0] = TRUE
      /\ ~Floating(Port) => regs'[Port] = [lba |-> call.lba, count |-> call.count]
  BY <1>1, <1>2, <1>3, <1>4
<1>6. DeviceOK'
  BY <1>1, <1>5 DEF AInv, DeviceOK
<1>7. UNCHANGED <<Port, Reading>> /\ Floating(Port)' = Floating(Port)
  BY <1>1 DEF Port, Reading, Floating
<1>8. DriverOK' /\ QuietRest'
  BY <1>1 DEF AInv, DriverOK, Points, Reading, QuietRest, Before, Upto
<1>9. Addressed'
  BY <1>1, <1>5, <1>7 DEF AInv, Addressed
<1>10. InStep'
  BY <1>1 DEF AInv, InStep, Before
<1>11. Buffered'
  BY <1>1 DEF AInv, Buffered, Reading, Upto, Abstract!Untouched
<1>12. QED
  BY <1>6, <1>8, <1>9, <1>10, <1>11 DEF AInv

\* The command reaches the call's drive, if it is there, with the call's sectors.
LEMMA CommandReaches ==
  ASSUME AInv, pc = "command", NEW p, p # "flush", Command(Port, p)
  PROVE  IF call.drive \in Present
         THEN Becomes(call.drive, p, [lba |-> call.lba, left |-> call.count, words |-> <<>>, k |-> 0])
         ELSE UNCHANGED <<phase, task>>
<1>1. Port \in Channels /\ (call.drive \in Present => ~Floating(Port))
  BY CallServed
<1>2. IF Listens(Port) /\ sel[Port] \in Present
      THEN Becomes(sel[Port], p, [NoTask EXCEPT !.lba = regs[Port].lba, !.left = regs[Port].count])
      ELSE UNCHANGED <<phase, task>>
  BY DEF Command
<1>3. CASE Floating(Port)
  <2>1. ~Listens(Port)
    BY <1>3 DEF Listens, Bsy
  <2>2. QED
    BY <1>1, <1>2, <1>3, <2>1
<1>4. CASE ~Floating(Port)
  <2>1. /\ sel[Port] = call.drive /\ regs[Port].lba = call.lba /\ regs[Port].count = call.count
    BY <1>4 DEF AInv, Addressed
  <2>2. Listens(Port)
    BY <1>1, <1>4, IdleListens DEF AInv, QuietRest, Before
  <2>3. [NoTask EXCEPT !.lba = regs[Port].lba, !.left = regs[Port].count]
          = [lba |-> call.lba, left |-> call.count, words |-> <<>>, k |-> 0]
    BY <2>1, TaskOf, Zenon
  <2>4. QED
    BY <1>2, <2>1, <2>2, <2>3
<1>5. QED
  BY <1>3, <1>4

LEMMA IssueCommandStep ==
  ASSUME AInv, IssueCommand
  PROVE  AInv'
<1> DEFINE p == IF Reading THEN "seek" ELSE "accept"
           t == [lba |-> call.lba, left |-> call.count, words |-> <<>>, k |-> 0]
           d == call.drive
<1>1. /\ pc = "command" /\ pc' = "wait_ready" /\ Command(Port, p)
      /\ UNCHANGED <<call, index, buffer, stored, down>>
  BY DEF IssueCommand, At, Goto
<1>2. /\ IF d \in Present THEN Becomes(d, p, t) ELSE UNCHANGED <<phase, task>>
      /\ UNCHANGED <<sel, nIEN, regs, cache, media, irqs>>
  BY <1>1, CommandReaches DEF Command
<1>3. /\ d \in DriveIds /\ Port \in Channels /\ call.lba \in Nat
      /\ call.count \in 0 .. MaxCount /\ call.count \in Nat /\ call.count > 0
  BY <1>1, CallServed
<1>4. p \in Phases /\ t \in Tasks /\ Len(t.words) = 0 /\ 0 <= Words
  BY <1>3, Numbers DEF Phases, Tasks
<1>5. irqs' \subseteq Channels
  BY <1>2 DEF AInv, DeviceOK
<1>6. DeviceOK'
  <2>1. CASE d \in Present
    BY <1>2, <1>3, <1>4, <1>5, <2>1, DeviceStep DEF AInv
  <2>2. CASE d \notin Present
    BY <1>2, <2>2 DEF AInv, DeviceOK
  <2>3. QED
    BY <2>1, <2>2
<1>7. /\ d \in Present => phase'[d] = p /\ task'[d] = t
      /\ \A e \in Present : e # d => phase'[e] = "idle"
  <2>1. \A e \in Present : phase[e] = "idle" /\ e \in DriveIds
    BY <1>1, PresentHeard DEF AInv, QuietRest, Before
  <2>2. CASE d \in Present
    BY <1>2, <1>3, <1>4, <2>1, <2>2, BecomesStep DEF AInv
  <2>3. CASE d \notin Present
    BY <1>2, <2>1, <2>3
  <2>4. QED
    BY <2>2, <2>3
<1>8. DriverOK'
  BY <1>1 DEF AInv, DriverOK, Points, Reading, Upto
<1>9. QuietRest'
  BY <1>1, <1>7 DEF QuietRest, Before
<1>10. UNCHANGED <<Port, Reading>> /\ Floating(Port)' = Floating(Port)
  BY <1>1 DEF Port, Reading, Floating
<1>11. Addressed'
  BY <1>1, <1>2, <1>10 DEF AInv, Addressed
<1>12. InStep'
  <2>1. stored' = 0 /\ index' = 0
    BY <1>1 DEF AInv, InStep, Before
  <2>2. d \in Present => /\ phase'[call'.drive] = p
                        /\ task'[call'.drive].lba = call'.lba + 0
                        /\ task'[call'.drive].left = call'.count - 0
    <3>1. call.lba + 0 = call.lba /\ call.count - 0 = call.count /\ call' = call
      BY <1>1, <1>3
    <3> HIDE DEF p
    <3>2. QED
      BY <1>7, <3>1
  <2>3. d \in Present => IF Reading THEN Doing("seek", 0)' ELSE Doing("accept", 0)'
    BY <2>2 DEF Doing
  <2>4. Whole(0)'
    <3>1. \A i \in 0 .. -1 : FALSE
      OBVIOUS
    <3>2. 0 - 1 = -1
      OBVIOUS
    <3>3. QED
      BY <3>1, <3>2 DEF Whole
  <2>5. d \in Present /\ Reading => InRead'
    <3> SUFFICES ASSUME d \in Present, Reading PROVE InRead'
      OBVIOUS
    <3>1. 0 \in 0 .. call'.count /\ 0 < call'.count /\ index' = Upto(0)
      BY <1>1, <1>3, <2>1, UptoNext
    <3>2. Doing("seek", 0)'
      BY <2>3
    <3>3. 0 < call'.count /\ Doing("seek", 0)' /\ index' = Upto(0)
      BY <3>1, <3>2
    <3>4. QED
      BY <2>4, <3>1, <3>3 DEF InRead
  <2>6. QED
    BY <1>1, <1>10, <2>1, <2>3, <2>5 DEF InStep, Before
<1>13. Buffered'
  BY <1>1 DEF AInv, Buffered, Reading, Upto, Abstract!Untouched
<1>14. QED
  BY <1>6, <1>8, <1>9, <1>11, <1>12, <1>13 DEF AInv


\* The wait for DRQ ends only at a drive that has the first sector.
LEMMA WaitReadyStep ==
  ASSUME AInv, WaitReady
  PROVE  AInv'
<1> DEFINE d == call.drive
<1>1. /\ pc = "wait_ready" /\ pc' = "transfer" /\ Drq(Port) /\ (Reading \/ ~Bsy(Port))
      /\ UNCHANGED <<sel, nIEN, regs, phase, task, cache, media, irqs, call, index, buffer,
                     stored, down>>
  BY DEF WaitReady, At, Goto, device
<1>2. d \in DriveIds /\ Port \in Channels
  BY <1>1, CallServed
<1>3. ~Floating(Port)
  BY <1>1 DEF AInv, Addressed, Bsy
<1>4. sel[Port] = d /\ phase[d] \in {"out", "in"}
  BY <1>1, <1>3 DEF AInv, Addressed, Drq
<1>5. d \in Present
  BY <1>2, <1>4 DEF AInv, DeviceOK
<1>6. index = 0 /\ stored = 0
  BY <1>1 DEF AInv, InStep
<1>7. IF Reading THEN InRead ELSE InWrite
  BY <1>1, <1>4, <1>5 DEF AInv, InStep, Doing
<1>8. UNCHANGED <<Port, Reading, InRead, InWrite>> /\ Floating(Port)' = Floating(Port)
  BY <1>1, StandsStill
<1>9. DeviceOK'
  BY <1>1 DEF AInv, DeviceOK
<1>10. DriverOK'
  BY <1>1 DEF AInv, DriverOK, Points, Reading, Upto
<1>11. QuietRest' /\ Addressed'
  BY <1>1, <1>3, <1>8 DEF AInv, QuietRest, Before, Addressed
<1>12. InStep'
  BY <1>1, <1>4, <1>5, <1>6, <1>7, <1>8 DEF InStep, Before
<1>13. Buffered'
  <2>1. \A j \in 0 .. call.count - 1, w \in 1 .. Words : ~ Upto(j) + w <= index'
    <3> TAKE j \in 0 .. call.count - 1, w \in 1 .. Words
    <3>1. j \in Nat /\ w > 0 /\ w \in Nat
      BY Numbers
    <3>2. Upto(j) \in Nat
      BY <3>1, UptoNext
    <3>3. QED
      BY <1>1, <1>6, <3>1, <3>2
  <2>2. /\ call = NoCall \/ ~Reading => buffer = <<>>
        /\ Reading => buffer \in [1 .. Upto(call.count) -> Values \cup {Junk}]
        /\ ~(d >= 4) /\ call # NoCall
    BY <1>1, <1>2, CallServed DEF AInv, Buffered, DriverOK
  <2>3. UNCHANGED Upto(call.count)
    BY <1>1 DEF Upto
  <2>4. \A j \in 0 .. call'.count - 1, w \in 1 .. Words : ~ Upto(j) + w <= index'
    BY <1>1, <2>1
  <2>5. QED
    BY <1>1, <1>8, <2>2, <2>3, <2>4 DEF Buffered
<1>14. QED
  BY <1>9, <1>10, <1>11, <1>12, <1>13 DEF AInv

\* Sequences of the same length and elements are the same.
LEMMA SameSeq ==
  ASSUME NEW S, NEW s \in Seq(S), NEW t \in Seq(S), Len(s) = Len(t),
         \A i \in 1 .. Len(s) : s[i] = t[i]
  PROVE  s = t
  OBVIOUS

\* While it transfers, the driver faces the drive of the call.
LEMMA Facing ==
  ASSUME AInv, pc \in {"transfer", "commit", "drain"}
  PROVE  /\ call.drive \in Present /\ call.drive \in DriveIds
         /\ Port \in Channels /\ ~Floating(Port) /\ sel[Port] = call.drive
         /\ call.drive < 4 /\ Channel(call.drive) = Port
         /\ task[call.drive] \in Tasks
         /\ \A e \in Present : e # call.drive => phase[e] = "idle"
<1>1. call.drive \in Present
  BY DEF AInv, InStep
<1>2. /\ call.drive \in DriveIds /\ Port \in Channels /\ ~Floating(Port)
  BY <1>1, CallServed
<1>3. sel[Port] = call.drive
  BY <1>2 DEF AInv, Addressed
<1>4. QED
  BY <1>1, <1>2, <1>3 DEF AInv, DeviceOK, DriverOK, Port, QuietRest

\* The words read so far are of sectors the drive has.
LEMMA ReadBehind ==
  ASSUME AInv, Reading, pc \in {"transfer", "return"}, call.drive < 4,
         NEW j \in 0 .. call.count - 1, NEW w \in 1 .. Words, Upto(j) + w <= index
  PROVE  call.drive \in Present /\ call.lba + j \in Lbas
<1>1. call.count \in Nat /\ j \in Nat /\ call.lba \in Nat
  BY CallServed
<1>2. CASE pc = "transfer"
  <2>1. call.drive \in Present /\ InRead
    BY <1>2 DEF AInv, InStep
  <2>2. PICK n \in 0 .. call.count :
          /\ Whole(n)
          /\ \/ Stopped(n)
             \/ n < call.count /\ Doing("seek", n) /\ index = Upto(n)
             \/ n < call.count /\ Whole(n + 1) /\ Taking(n)
    BY <2>1 DEF InRead
  <2>3. n \in Nat
    BY <1>1
  <2>4. CASE index = Upto(n)
    <3>1. j < n
      BY <1>1, <2>3, <2>4, PlaceOfWord
    <3>2. QED
      BY <1>1, <2>1, <2>2, <2>3, <3>1 DEF Whole
  <2>5. CASE Whole(n + 1) /\ Taking(n)
    <3>1. task[call.drive].k \in 0 .. Words - 1 /\ index = Upto(n) + task[call.drive].k
      BY <2>1, <2>5, PresentHeard DEF Taking, AInv, DeviceOK, Tasks
    <3>2. index \in Nat /\ index <= Upto(n + 1) /\ Upto(n + 1) \in Nat /\ Upto(j) \in Nat
      BY <1>1, <2>3, <3>1, UptoNext, Numbers
    <3>3. Upto(j) + w <= Upto(n + 1)
      BY <1>1, <2>3, <3>1, <3>2, UptoNext, Numbers
    <3>4. j < n + 1
      BY <1>1, <2>3, <3>3, PlaceOfWord
    <3>5. QED
      BY <1>1, <2>1, <2>3, <2>5, <3>4 DEF Whole
  <2>6. QED
    BY <2>2, <2>4, <2>5 DEF Stopped
<1>3. CASE pc = "return"
  BY <1>1, <1>3 DEF AInv, InStep, Whole
<1>4. QED
  BY <1>2, <1>3

\* A word read is the next of the drive's sector.  With the last of a sector
\* the drive goes on to the next, if the call asked for it.
LEMMA TakeStep ==
  ASSUME AInv, Transfer, WordReady, Reading
  PROVE  AInv'
<1> DEFINE d == call.drive
           t == task[d]
           s(j) == Content(d, call.lba + j)
           p == IF t.k + 1 < Words THEN "out" ELSE IF t.left > 1 THEN "seek" ELSE "idle"
           n == IF t.k + 1 < Words THEN [t EXCEPT !.k = @ + 1]
                ELSE IF t.left > 1
                THEN [t EXCEPT !.lba = @ + 1, !.left = @ - 1, !.words = <<>>, !.k = 0]
                ELSE NoTask
<1>1. /\ pc = "transfer" /\ pc' = pc /\ index < Words * call.count /\ index' = index + 1
      /\ buffer' = [buffer EXCEPT ![index + 1] = WordOffered(Port)]
      /\ TakeWord(Port)
      /\ UNCHANGED <<call, stored, down, sel, nIEN, regs, cache, media, irqs>>
  BY DEF Transfer, At, TakeWord
<1>2. /\ d \in Present /\ d \in DriveIds
      /\ Port \in Channels /\ ~Floating(Port) /\ sel[Port] = d /\ d < 4 /\ t \in Tasks
      /\ \A e \in Present : e # d => phase[e] = "idle"
  BY <1>1, Facing
<1>3. Words \in Nat \ {0} /\ call.count \in Nat /\ call.lba \in Nat /\ call # NoCall
  BY <1>1, Numbers, CallServed
<1>4. Offers(Port) /\ phase[d] = "out"
  BY <1>2 DEF WordReady, Offers
<1>5. PICK j \in 0 .. call.count : j < call.count /\ Whole(j + 1) /\ Taking(j)
  BY <1>1, <1>4 DEF AInv, InStep, InRead, Stopped, Doing
<1>6. /\ j \in Nat /\ t.lba = call.lba + j /\ t.left = call.count - j /\ t.words = s(j)
      /\ index = Upto(j) + t.k /\ call.lba + j \in Lbas
  BY <1>3, <1>5 DEF Taking, Doing, Whole
<1>7. /\ t.k \in Nat /\ t.k < Words /\ t.k + 1 \in 1 .. Words /\ t.left \in 0 .. MaxCount
      /\ t.lba \in Nat /\ t.words \in Seq(Values)
  BY <1>2, <1>3 DEF Tasks
<1>8. s(j) \in Sector /\ s(j)[t.k + 1] \in Values
  BY <1>2, <1>6, <1>7, ContentType, SectorIsSeq DEF AInv
<1>9. WordOffered(Port) = s(j)[t.k + 1]
  BY <1>2, <1>4, <1>6 DEF WordOffered
<1>10. Becomes(d, p, n)
  <2>1. IF t.k + 1 < Words THEN Becomes(d, "out", [t EXCEPT !.k = @ + 1])
        ELSE IF t.left > 1
        THEN Becomes(d, "seek", [t EXCEPT !.lba = @ + 1, !.left = @ - 1, !.words = <<>>, !.k = 0])
        ELSE Becomes(d, "idle", NoTask)
    BY <1>1, <1>2, <1>4 DEF TakeWord
  <2> HIDE DEF t
  <2>2. QED
    BY <2>1
<1>11. /\ n \in Tasks /\ p \in Phases /\ Len(n.words) <= Words
       /\ t.k + 1 < Words => n.lba = t.lba /\ n.left = t.left /\ n.k = t.k + 1 /\ n.words = t.words
       /\ ~ t.k + 1 < Words /\ t.left > 1 => n.lba = t.lba + 1 /\ n.left = t.left - 1
  <2> HIDE DEF t
  <2>1. CASE t.k + 1 < Words
    <3>1. n = [t EXCEPT !.k = t.k + 1] /\ p = "out"
      BY <1>2, <2>1 DEF Tasks
    <3>2. t.k + 1 \in 0 .. Words - 1
      BY <1>3, <1>7, <2>1
    <3> HIDE DEF n, p
    <3>3. /\ n \in Tasks /\ n.lba = t.lba /\ n.left = t.left /\ n.k = t.k + 1
          /\ n.words = t.words
      BY <1>2, <3>1, <3>2 DEF Tasks
    <3>4. Len(t.words) <= Words
      BY <1>2 DEF AInv, DeviceOK, t
    <3>5. QED
      BY <2>1, <3>1, <3>3, <3>4 DEF Phases
  <2>2. CASE ~ t.k + 1 < Words /\ t.left > 1
    <3>1. /\ n = [t EXCEPT !.lba = t.lba + 1, !.left = t.left - 1, !.words = <<>>, !.k = 0]
          /\ p = "seek"
      BY <1>2, <2>2 DEF Tasks
    <3>2. /\ t.lba + 1 \in Nat /\ t.left - 1 \in 0 .. MaxCount /\ 0 \in 0 .. Words - 1
          /\ <<>> \in Seq(Values) /\ Len(<<>>) = 0 /\ 0 <= Words
      BY <1>3, <1>7, <2>2, Numbers
    <3> HIDE DEF n, p
    <3>3. n \in Tasks /\ n.lba = t.lba + 1 /\ n.left = t.left - 1 /\ n.words = <<>>
      BY <1>2, <3>1, <3>2 DEF Tasks
    <3>4. QED
      BY <2>2, <3>1, <3>2, <3>3 DEF Phases
  <2>3. CASE ~ t.k + 1 < Words /\ ~ t.left > 1
    BY <2>3, NoTaskIsTask DEF Phases
  <2>4. QED
    BY <2>1, <2>2, <2>3
<1> HIDE DEF n
<1>12. DeviceOK'
  <2>1. irqs' \subseteq Channels
    BY <1>1 DEF AInv, DeviceOK
  <2> HIDE DEF p
  <2>2. QED
    BY <1>1, <1>2, <1>10, <1>11, <2>1, DeviceStep DEF AInv
<1>13. /\ phase'[d] = p /\ task'[d] = n
       /\ \A e \in DriveIds : e # d => phase'[e] = phase[e]
  <2> HIDE DEF p
  <2>1. QED
    BY <1>2, <1>10, <1>11, BecomesStep DEF AInv
<1>14. index \in Nat /\ index' <= Upto(call.count)
  BY <1>1, <1>3 DEF AInv, DriverOK, Upto
<1>15. UNCHANGED <<Port, Reading, Upto(call.count)>> /\ Floating(Port)' = Floating(Port)
  BY <1>1 DEF Port, Reading, Floating, Upto
<1>16. DriverOK'
  BY <1>1, <1>14, <1>15 DEF AInv, DriverOK
<1>17. QuietRest'
  BY <1>1, <1>2, <1>13, PresentHeard DEF QuietRest, Before
<1>18. Addressed'
  BY <1>1, <1>15 DEF AInv, Addressed
<1>19. Whole(j + 1)' /\ s(j)' = s(j)
  BY <1>1, <1>5 DEF Whole, Content
<1>20. InRead'
  <2>1. call' = call /\ d' = d /\ Upto(j)' = Upto(j) /\ Upto(j + 1)' = Upto(j + 1)
    BY <1>1 DEF Upto
  <2>2. Upto(j + 1) = Upto(j) + Words /\ Upto(j) \in Nat /\ j + 1 \in 0 .. call.count
    BY <1>3, <1>5, <1>6, UptoNext
  <2>3. CASE t.k + 1 < Words
    <3>1. /\ task'[d].lba = call.lba + j /\ task'[d].left = call.count - j
          /\ task'[d].words = s(j) /\ index' = Upto(j) + task'[d].k /\ phase'[d] = "out"
      BY <1>1, <1>6, <1>7, <1>11, <1>13, <2>2, <2>3
    <3>2. Taking(j)'
      BY <1>19, <2>1, <3>1 DEF Taking, Doing
    <3>3. Whole(j)'
      BY <1>3, <1>6, <1>19 DEF Whole
    <3>4. QED
      BY <1>1, <1>5, <1>19, <2>1, <3>2, <3>3 DEF InRead
  <2>4. CASE ~ t.k + 1 < Words
    <3>1. index' = Upto(j + 1)
      <4> HIDE DEF t
      <4>1. t.k + 1 = Words
        BY <1>3, <1>7, <2>4
      <4>2. QED
        BY <1>1, <1>3, <1>6, <1>7, <2>2, <4>1
    <3>2. CASE t.left > 1
      <4>1. /\ task'[d].lba = call.lba + (j + 1) /\ task'[d].left = call.count - (j + 1)
            /\ phase'[d] = "seek" /\ j + 1 < call.count
        BY <1>3, <1>6, <1>11, <1>13, <2>4, <3>2
      <4>2. Doing("seek", j + 1)'
        BY <2>1, <4>1 DEF Doing
      <4>3. QED
        BY <1>19, <2>1, <2>2, <3>1, <4>1, <4>2 DEF InRead
    <3>3. CASE ~ t.left > 1
      <4>1. ~(j + 1 < call.count)
        BY <1>3, <1>6, <3>3
      <4>2. Stopped(j + 1)'
        BY <1>13, <2>1, <2>4, <3>1, <3>3, <4>1 DEF Stopped
      <4>3. QED
        BY <1>19, <2>1, <2>2, <4>2 DEF InRead
    <3>4. QED
      BY <3>2, <3>3
  <2>5. QED
    BY <2>3, <2>4
<1>21. InStep'
  <2>1. index' # 0
    BY <1>1, <1>14
  <2>2. QED
    BY <1>1, <1>2, <1>15, <1>20, <2>1 DEF AInv, InStep, Before
<1>22. Buffered'
  <2> DEFINE c(i) == Content(d, call.lba + i)
  <2>1. /\ buffer \in [1 .. Upto(call.count) -> Values \cup {Junk}]
        /\ \A i \in 0 .. call.count - 1, w \in 1 .. Words :
             Upto(i) + w <= index => buffer[Upto(i) + w] = c(i)[w]
    BY <1>1, <1>2 DEF AInv, Buffered
  <2>2. index + 1 \in 1 .. Upto(call.count) /\ index + 1 = Upto(j) + (t.k + 1)
    <3> HIDE DEF t
    <3>1. Upto(j) \in Nat /\ Upto(call.count) \in Nat
      BY <1>3, <1>6, UptoNext
    <3>2. QED
      BY <1>1, <1>6, <1>7, <1>14, <3>1
  <2>3. /\ buffer' \in [1 .. Upto(call.count) -> Values \cup {Junk}]
        /\ \A x \in 1 .. Upto(call.count) :
             buffer'[x] = IF x = index + 1 THEN c(j)[t.k + 1] ELSE buffer[x]
    <3> HIDE DEF t, s, c
    <3>1. WordOffered(Port) \in Values /\ WordOffered(Port) = s(j)[t.k + 1] /\ s(j) = c(j)
      BY <1>8, <1>9 DEF s, c
    <3>2. QED
      BY <1>1, <2>1, <2>2, <3>1
  <2>4. \A i \in 0 .. call.count - 1, w \in 1 .. Words :
          Upto(i) + w <= index' => buffer'[Upto(i) + w] = c(i)[w]
    <3> SUFFICES ASSUME NEW i \in 0 .. call.count - 1, NEW w \in 1 .. Words,
                        Upto(i) + w <= index'
                 PROVE  buffer'[Upto(i) + w] = c(i)[w]
      OBVIOUS
    <3>1. i \in Nat /\ Upto(i) \in Nat /\ w \in Nat
      BY <1>3, UptoNext
    <3>2. Upto(i) + w \in 1 .. Upto(call.count)
      BY <1>3, PlaceInBuffer
    <3> HIDE DEF c, t
    <3>3. CASE Upto(i) + w = index + 1
      <4>1. i = j /\ w = t.k + 1
        BY <1>6, <1>7, <2>2, <3>1, <3>3, PlaceOfWord
      <4>2. QED
        BY <2>3, <3>2, <3>3, <4>1
    <3>4. CASE Upto(i) + w # index + 1
      <4>1. Upto(i) + w <= index
        BY <1>1, <1>14, <3>1, <3>4
      <4>2. QED
        BY <2>1, <2>3, <3>2, <3>4, <4>1
    <3>5. QED
      BY <3>3, <3>4
  <2>5. \A i \in 0 .. call'.count - 1, w \in 1 .. Words :
          Upto(i) + w <= index' => buffer'[Upto(i) + w] = Content(call.drive, call.lba + i)'[w]
    BY <1>1, <2>4 DEF Content
  <2>6. call' = call /\ Reading' = TRUE /\ pc' = "transfer" /\ ~(call'.drive >= 4)
        /\ call'.drive \in Nat
    BY <1>1, <1>2, <1>15, CallServed
  <2>7. QED
    BY <1>3, <1>15, <2>3, <2>5, <2>6 DEF Buffered
<1>23. QED
  BY <1>12, <1>16, <1>17, <1>18, <1>21, <1>22 DEF AInv

\* A word written is the next of the sector the drive asks for; with the last
\* the drive has the sector and begins to store it.
LEMMA GiveStep ==
  ASSUME AInv, Transfer, WordReady, ~Reading
  PROVE  AInv'
<1> DEFINE d == call.drive
           t == task[d]
           m == Len(t.words)
           w == call.data[index + 1]
           v == Append(t.words, w)
           n == [t EXCEPT !.words = Append(@, w)]
           p == IF m + 1 < Words THEN "in" ELSE "store"
<1>1. /\ pc = "transfer" /\ pc' = pc /\ index < Words * call.count /\ index' = index + 1
      /\ buffer' = buffer
      /\ GiveWord(Port, w)
      /\ UNCHANGED <<call, stored, down, sel, nIEN, regs, cache, media, irqs>>
  BY DEF Transfer, At, GiveWord
<1>2. /\ d \in Present /\ d \in DriveIds
      /\ Port \in Channels /\ ~Floating(Port) /\ sel[Port] = d /\ d < 4 /\ t \in Tasks
      /\ \A e \in Present : e # d => phase[e] = "idle"
  BY <1>1, Facing
<1>3. /\ Words \in Nat \ {0} /\ call.count \in Nat /\ call.lba \in Nat /\ call # NoCall
      /\ call.data \in [1 .. Upto(call.count) -> Values]
  BY <1>1, Numbers, CallServed
<1>4. Wants(Port) /\ phase[d] = "in"
  BY <1>2 DEF WordReady, Wants
<1>5. stored < call.count /\ Whole(stored) /\ Whole(stored + 1) /\ Giving(stored)
  BY <1>1, <1>4 DEF AInv, InStep, InWrite, Stopped, Storing, Doing
<1>6. /\ stored \in Nat /\ t.lba = call.lba + stored /\ t.left = call.count - stored
      /\ m < Words /\ index = Upto(stored) + m
      /\ \A i \in 1 .. m : t.words[i] = call.data[Upto(stored) + i]
  BY <1>5 DEF Giving, Doing, AInv, DriverOK
<1>7. t.words \in Seq(Values) /\ m \in Nat /\ m + 1 \in 1 .. Words /\ t.left \in 0 .. MaxCount
  <2>1. t.words \in Seq(Values) /\ t.left \in 0 .. MaxCount
    BY <1>2 DEF Tasks
  <2>2. m \in Nat
    BY <2>1
  <2>3. m + 1 \in 1 .. Words
    <3> HIDE DEF m
    <3>1. QED
      BY <1>3, <1>6, <2>2
  <2>4. QED
    BY <2>1, <2>2, <2>3
<1>8. /\ index \in Nat /\ Upto(stored) \in Nat /\ index + 1 = Upto(stored) + (m + 1)
      /\ index + 1 \in 1 .. Upto(call.count) /\ index' <= Upto(call.count)
  <2>1. index \in Nat /\ Upto(stored) \in Nat /\ Upto(call.count) \in Nat
    BY <1>3, <1>6, UptoNext DEF AInv, DriverOK
  <2>2. index < Upto(call.count)
    BY <1>1 DEF Upto
  <2> HIDE DEF m
  <2>3. QED
    BY <1>1, <1>6, <1>7, <2>1, <2>2
<1>9. w \in Values
  BY <1>3, <1>8
<1>10. /\ v \in Seq(Values) /\ Len(v) = m + 1
       /\ \A i \in 1 .. m + 1 : v[i] = call.data[Upto(stored) + i]
  <2> DEFINE u == t.words
  <2>1. u \in Seq(Values) /\ Len(u) = m /\ \A i \in 1 .. m : u[i] = call.data[Upto(stored) + i]
    BY <1>6, <1>7
  <2>2. w = call.data[Upto(stored) + (m + 1)]
    BY <1>8
  <2> HIDE DEF m, u, w
  <2>3. /\ Append(u, w) \in Seq(Values) /\ Len(Append(u, w)) = m + 1
        /\ \A i \in 1 .. m : Append(u, w)[i] = u[i]
        /\ Append(u, w)[m + 1] = w
    BY <1>7, <1>9, <2>1
  <2>4. \A i \in 1 .. m + 1 : i \in 1 .. m \/ i = m + 1
    BY <1>7
  <2>5. \A i \in 1 .. m + 1 : Append(u, w)[i] = call.data[Upto(stored) + i]
    BY <2>1, <2>2, <2>3, <2>4, Zenon
  <2>6. QED
    BY <2>3, <2>5 DEF u
<1>11. n \in Tasks /\ n.lba = t.lba /\ n.left = t.left /\ n.words = v
  <2>1. n = [t EXCEPT !.words = v]
    OBVIOUS
  <2> HIDE DEF v, t
  <2>2. /\ [t EXCEPT !.words = v] \in Tasks
        /\ [t EXCEPT !.words = v].lba = t.lba /\ [t EXCEPT !.words = v].left = t.left
        /\ [t EXCEPT !.words = v].words = v
    BY <1>2, <1>10 DEF Tasks
  <2>3. QED
    BY <2>1, <2>2, Zenon
<1>12. Becomes(d, p, n)
  <2>1. Becomes(d, IF Len(n.words) < Words THEN "in" ELSE "store", n)
    BY <1>1, <1>2, <1>4 DEF GiveWord
  <2>2. Len(n.words) = m + 1
    BY <1>10, <1>11
  <2>3. (IF Len(n.words) < Words THEN "in" ELSE "store") = p
    BY <2>2, Zenon
  <2>4. QED
    BY <2>1, <2>3, Zenon
<1> HIDE DEF n, m, v, w
<1>13. p \in Phases /\ Len(n.words) <= Words
  BY <1>3, <1>7, <1>10, <1>11 DEF Phases
<1>14. DeviceOK'
  <2>1. irqs' \subseteq Channels
    BY <1>1 DEF AInv, DeviceOK
  <2> HIDE DEF p
  <2>2. QED
    BY <1>1, <1>2, <1>11, <1>12, <1>13, <2>1, DeviceStep DEF AInv
<1>15. /\ phase'[d] = p /\ task'[d] = n
       /\ \A e \in DriveIds : e # d => phase'[e] = phase[e]
  <2> HIDE DEF p
  <2>1. QED
    BY <1>2, <1>11, <1>12, <1>13, BecomesStep DEF AInv
<1>16. UNCHANGED <<Port, Reading, Upto(call.count)>> /\ Floating(Port)' = Floating(Port)
  BY <1>1 DEF Port, Reading, Floating, Upto
<1>17. DriverOK'
  BY <1>1, <1>8, <1>16 DEF AInv, DriverOK
<1>18. QuietRest'
  BY <1>1, <1>2, <1>15, PresentHeard DEF QuietRest, Before
<1>19. Addressed'
  BY <1>1, <1>16 DEF AInv, Addressed
<1>20. UNCHANGED <<Upto(stored), Upto(stored + 1), Whole(stored), Whole(stored + 1)>>
  BY <1>1 DEF Upto, Whole
<1>21. /\ task'[d].lba = call.lba + stored /\ task'[d].left = call.count - stored
       /\ task'[d].words = v
  BY <1>6, <1>11, <1>15
<1>22. m + 1 < Words => Giving(stored)'
  <2> SUFFICES ASSUME m + 1 < Words PROVE Giving(stored)'
    OBVIOUS
  <2>1. Doing("in", stored)'
    BY <1>1, <1>15, <1>21 DEF Doing
  <2>2. /\ Len(v) < Words /\ index' = Upto(stored) + Len(v)
        /\ \A i \in 1 .. Len(v) : v[i] = call.data[Upto(stored) + i]
    BY <1>1, <1>8, <1>10
  <2>3. QED
    BY <1>1, <1>20, <1>21, <2>1, <2>2 DEF Giving
<1>23. ~ m + 1 < Words => Storing(stored)'
  <2> SUFFICES ASSUME ~ m + 1 < Words PROVE Storing(stored)'
    OBVIOUS
  <2>1. m + 1 = Words
    BY <1>3, <1>7
  <2>2. Doing("store", stored)'
    BY <1>1, <1>15, <1>21 DEF Doing
  <2>3. index' = Upto(stored + 1)
    BY <1>1, <1>6, <1>8, <2>1, UptoNext
  <2> DEFINE s == Abstract!Slice(call.data, stored)
  <2>4. stored \in 0 .. call.count - 1
    BY <1>3, <1>5, <1>6
  <2>5. s \in Sector /\ \A i \in 1 .. Words : s[i] = call.data[Upto(stored) + i]
    BY <1>3, <2>4, SliceIsSector
  <2>6. s \in Seq(Values) /\ Len(s) = Words
    BY <2>5, SectorIsSeq
  <2> HIDE DEF s
  <2>7. v = s
    BY <1>10, <2>1, <2>5, <2>6, SameSeq
  <2>8. s' = s
    BY <1>1 DEF s, Abstract!Slice
  <2>9. task'[d].words = Abstract!Slice(call.data, stored)'
    BY <1>21, <2>7, <2>8 DEF s
  <2>10. QED
    BY <1>1, <1>20, <2>2, <2>3, <2>9 DEF Storing
<1>24. InWrite'
  BY <1>1, <1>5, <1>20, <1>22, <1>23 DEF InWrite
<1>25. InStep'
  <2>1. index' # 0
    BY <1>1, <1>8
  <2>2. QED
    BY <1>1, <1>2, <1>16, <1>24, <2>1 DEF AInv, InStep, Before
<1>26. Buffered'
  BY <1>1, <1>16 DEF AInv, Buffered
<1>27. QED
  BY <1>14, <1>17, <1>18, <1>19, <1>25, <1>26 DEF AInv

\* When the words of a call have all been read, its drive is done.
LEMMA ReadDone ==
  ASSUME AInv, pc = "transfer", Reading, index = Upto(call.count)
  PROVE  phase[call.drive] = "idle" /\ Whole(call.count)
<1>1. call.drive \in Present /\ task[call.drive] \in Tasks /\ call.count \in Nat
  BY Facing, CallServed
<1>2. PICK j \in 0 .. call.count :
        /\ Whole(j)
        /\ \/ Stopped(j)
           \/ j < call.count /\ Doing("seek", j) /\ index = Upto(j)
           \/ j < call.count /\ Whole(j + 1) /\ Taking(j)
  BY DEF AInv, InStep, InRead
<1>3. j \in Nat
  BY <1>1
<1>4. ~(j < call.count /\ Taking(j))
  <2> SUFFICES ASSUME j < call.count, Taking(j) PROVE FALSE
    OBVIOUS
  <2>1. task[call.drive].k \in 0 .. Words - 1 /\ index = Upto(j) + task[call.drive].k
    BY <1>1 DEF Taking, Tasks
  <2>2. Upto(j) + Words <= Upto(call.count) /\ Upto(j) \in Nat /\ Words \in Nat
    BY <1>1, <1>3, UptoRises, UptoNext, Numbers
  <2>3. QED
    BY <2>1, <2>2
<1>5. index = Upto(j) /\ (Stopped(j) \/ j < call.count)
  BY <1>2, <1>4 DEF Stopped
<1>6. j = call.count
  BY <1>1, <1>3, <1>5, UptoSame
<1>7. Stopped(j)
  BY <1>1, <1>5, <1>6
<1>8. QED
  BY <1>2, <1>6, <1>7 DEF Stopped

\* When the words of a call have all been written, its drive is done, or has
\* the last sector to store.
LEMMA WriteDone ==
  ASSUME AInv, pc \in {"commit", "drain"}, InWrite
  PROVE  \/ phase[call.drive] = "store"
         \/ phase[call.drive] = "idle" /\ stored = call.count /\ Whole(stored)
<1>1. /\ index = Upto(call.count) /\ call.count \in Nat /\ stored \in Nat
  BY CallServed DEF AInv, InStep, DriverOK
<1>2. CASE Stopped(stored)
  <2>1. stored = call.count
    BY <1>1, <1>2, UptoSame DEF Stopped
  <2>2. QED
    BY <1>2, <2>1 DEF InWrite, Stopped
<1>3. CASE stored < call.count /\ Giving(stored)
  <2>1. /\ Len(task[call.drive].words) < Words
        /\ index = Upto(stored) + Len(task[call.drive].words)
    BY <1>3 DEF Giving
  <2>2. Len(task[call.drive].words) \in Nat
    <3>1. task[call.drive].words \in Seq(Values)
      BY Facing DEF Tasks
    <3>2. QED
      BY <3>1
  <2>3. Upto(stored) + Words <= Upto(call.count) /\ Upto(stored) \in Nat /\ Words \in Nat
    BY <1>1, <1>3, UptoRises, UptoNext, Numbers
  <2>4. QED
    BY <1>1, <2>1, <2>2, <2>3
<1>4. CASE Storing(stored)
  BY <1>4 DEF Storing, Doing
<1>5. QED
  BY <1>2, <1>3, <1>4 DEF InWrite

LEMMA EndTransferStep ==
  ASSUME AInv, EndTransfer
  PROVE  AInv'
<1>1. /\ pc = "transfer" /\ index = Words * call.count
      /\ pc' = (IF Reading THEN "return" ELSE "commit")
      /\ UNCHANGED <<sel, nIEN, regs, phase, task, cache, media, irqs, call, index, buffer,
                     stored, down>>
  BY DEF EndTransfer, At, Goto, device
<1>2. /\ call.drive \in Present /\ call.drive < 4
      /\ \A e \in Present : e # call.drive => phase[e] = "idle"
  BY <1>1, Facing
<1>3. /\ UNCHANGED <<Port, Reading, InWrite>> /\ Floating(Port)' = Floating(Port)
      /\ \A n : Whole(n)' = Whole(n)
  BY <1>1, StandsStill
<1>4. index = Upto(call.count)
  BY <1>1 DEF Upto
<1>5. Reading => phase[call.drive] = "idle" /\ Whole(call.count) /\ stored = 0
  BY <1>1, <1>4, ReadDone DEF AInv, InStep
<1>6. ~Reading => InWrite
  BY <1>1 DEF AInv, InStep
<1>7. DeviceOK'
  BY <1>1 DEF AInv, DeviceOK
<1>8. UNCHANGED Upto(call.count)
  BY <1>1 DEF Upto
<1>9. DriverOK'
  BY <1>1, <1>2, <1>3, <1>8 DEF AInv, DriverOK, Points
<1>10. QuietRest'
  BY <1>1, <1>2, <1>5 DEF QuietRest, Before
<1>11. Addressed'
  BY <1>1, <1>3 DEF AInv, Addressed
<1>12. Whole(call.count)' = Whole(call.count)
  BY <1>1 DEF Whole
<1>13. InStep'
  <2>1. ~(call.drive >= 4)
    BY <1>1, <1>2, CallServed
  <2>2. QED
    BY <1>1, <1>2, <1>3, <1>4, <1>5, <1>6, <1>8, <1>12, <2>1 DEF InStep, Before
<1>14. Buffered'
  <2>1. \A j : Content(call.drive, call.lba + j)' = Content(call.drive, call.lba + j)
    BY <1>1 DEF Content
  <2>2. CASE Reading
    <3>1. /\ buffer \in [1 .. Upto(call.count) -> Values \cup {Junk}]
          /\ \A j \in 0 .. call.count - 1, w \in 1 .. Words :
               Upto(j) + w <= index => buffer[Upto(j) + w] = Content(call.drive, call.lba + j)[w]
      BY <1>1, <1>2, <2>2 DEF AInv, Buffered
    <3>2. \A j \in 0 .. call'.count - 1, w \in 1 .. Words :
            Upto(j) + w <= index' => buffer'[Upto(j) + w] = Content(call.drive, call.lba + j)'[w]
      BY <1>1, <2>1, <3>1
    <3>3. call # NoCall /\ ~(call.drive >= 4)
      BY <1>1, <1>2, CallServed
    <3>4. pc' = "return" /\ call' = call /\ buffer' = buffer
      BY <1>1, <2>2
    <3>5. QED
      BY <1>3, <1>8, <2>2, <3>1, <3>2, <3>3, <3>4 DEF Buffered
  <2>3. CASE ~Reading
    BY <1>1, <1>3, <2>3 DEF AInv, Buffered
  <2>4. QED
    BY <2>2, <2>3
<1>15. QED
  BY <1>7, <1>9, <1>10, <1>11, <1>13, <1>14 DEF AInv

LEMMA FlushCacheStep ==
  ASSUME AInv, FlushCache
  PROVE  AInv'
<1> DEFINE d == call.drive
<1>1. /\ pc = "commit" /\ pc' = "drain" /\ Command(Port, "flush")
      /\ UNCHANGED <<call, index, buffer, stored, down, sel, nIEN, regs, cache, media, irqs>>
  BY DEF FlushCache, At, Goto, Command
<1>2. /\ d \in Present /\ d \in DriveIds /\ Port \in Channels /\ ~Floating(Port)
      /\ sel[Port] = d /\ \A e \in Present : e # d => phase[e] = "idle"
  BY <1>1, Facing
<1>3. InWrite
  BY <1>1 DEF AInv, InStep
<1>4. IF Listens(Port) THEN Becomes(d, "flush", NoTask) ELSE UNCHANGED <<phase, task>>
  BY <1>1, <1>2 DEF Command
<1>5. Listens(Port) => stored = call.count /\ Whole(stored)
  BY <1>1, <1>2, <1>3, WriteDone DEF Listens, Bsy
<1>6. /\ UNCHANGED <<Port, Reading, Upto(call.count), Whole(stored)>>
      /\ Floating(Port)' = Floating(Port)
  BY <1>1 DEF Port, Reading, Floating, Upto, Whole
<1>7. /\ DeviceOK' /\ QuietRest'
      /\ InWrite' \/ (phase'[d] = "flush" /\ stored' = call'.count /\ Whole(stored)')
  <2>1. CASE Listens(Port)
    <3>1. irqs' \subseteq Channels /\ "flush" \in Phases
      BY <1>1 DEF AInv, DeviceOK, Phases
    <3>2. NoTask \in Tasks /\ Len(NoTask.words) <= Words
      BY NoTaskIsTask
    <3>3. DeviceOK'
      BY <1>1, <1>2, <1>4, <2>1, <3>1, <3>2, DeviceStep DEF AInv
    <3>4. phase'[d] = "flush" /\ \A e \in DriveIds : e # d => phase'[e] = phase[e]
      BY <1>2, <1>4, <2>1, <3>1, <3>2, BecomesStep DEF AInv
    <3>5. QuietRest'
      BY <1>1, <1>2, <3>4, PresentHeard DEF QuietRest, Before
    <3>6. QED
      BY <1>1, <1>5, <1>6, <2>1, <3>3, <3>4, <3>5
  <2>2. CASE ~Listens(Port)
    <3>1. UNCHANGED <<phase, task>>
      BY <1>4, <2>2
    <3>2. DeviceOK'
      BY <1>1, <3>1 DEF AInv, DeviceOK
    <3>3. QuietRest'
      BY <1>1, <1>2, <3>1 DEF QuietRest, Before
    <3>4. InWrite'
      BY <1>1, <1>3, <3>1, StandsStill
    <3>5. QED
      BY <3>2, <3>3, <3>4
  <2>3. QED
    BY <2>1, <2>2
<1>8. DriverOK'
  BY <1>1, <1>6 DEF AInv, DriverOK, Points
<1>9. Addressed'
  BY <1>1, <1>6 DEF AInv, Addressed
<1>10. InStep'
  BY <1>1, <1>6, <1>7 DEF AInv, DriverOK, InStep, Before
<1>11. Buffered'
  BY <1>1, <1>6 DEF AInv, DriverOK, Buffered
<1>12. QED
  BY <1>7, <1>8, <1>9, <1>10, <1>11 DEF AInv

LEMMA DrainStep ==
  ASSUME AInv, Drain
  PROVE  AInv'
<1> DEFINE d == call.drive
<1>1. /\ pc = "drain" /\ pc' = "return" /\ ~Bsy(Port)
      /\ UNCHANGED <<sel, nIEN, regs, phase, task, cache, media, irqs, call, index, buffer,
                     stored, down>>
  BY DEF Drain, At, Goto, device
<1>2. /\ d \in Present /\ d < 4 /\ ~Floating(Port)
      /\ sel[Port] = d /\ \A e \in Present : e # d => phase[e] = "idle"
  BY <1>1, Facing
<1>3. phase[d] # "store" /\ phase[d] # "flush"
  BY <1>2, <1>1 DEF Bsy
<1>4. phase[d] = "idle" /\ stored = call.count /\ Whole(call.count)
  BY <1>1, <1>3, WriteDone DEF AInv, InStep
<1>5. /\ UNCHANGED <<Port, Reading, Upto(call.count), Whole(call.count)>>
      /\ Floating(Port)' = Floating(Port)
  BY <1>1 DEF Port, Reading, Floating, Upto, Whole
<1>6. DeviceOK'
  BY <1>1 DEF AInv, DeviceOK
<1>7. DriverOK'
  BY <1>1, <1>5 DEF AInv, DriverOK, Points
<1>8. QuietRest'
  BY <1>1, <1>2, <1>4 DEF QuietRest, Before
<1>9. Addressed'
  BY <1>1, <1>5 DEF AInv, Addressed
<1>10. ~Reading /\ ~(d >= 4)
  BY <1>1, <1>2, CallServed DEF AInv, DriverOK
<1>11. InStep'
  BY <1>1, <1>2, <1>4, <1>5, <1>10 DEF InStep, Before
<1>12. Buffered'
  BY <1>1, <1>5, <1>10 DEF AInv, Buffered
<1>13. QED
  BY <1>6, <1>7, <1>8, <1>9, <1>11, <1>12 DEF AInv

LEMMA ReturnStep ==
  ASSUME AInv, Return
  PROVE  AInv'
<1>1. /\ pc = "return" /\ pc' = "free" /\ call' = NoCall /\ index' = 0 /\ buffer' = <<>>
      /\ stored' = 0
      /\ UNCHANGED <<sel, nIEN, regs, phase, task, cache, media, irqs, down>>
  BY DEF Return, At, device
<1>2. NoCall.kind = "none"
  BY DEF NoCall, Abstract!NoCall
<1>3. \A e \in Present : phase[e] = "idle"
  BY <1>1 DEF AInv, QuietRest
<1>4. DeviceOK'
  BY <1>1 DEF AInv, DeviceOK
<1>5. DriverOK'
  BY <1>1, <1>2 DEF AInv, DriverOK, Points, Reading
<1>6. QuietRest' /\ Addressed'
  BY <1>1, <1>3 DEF QuietRest, Before, Addressed
<1>7. InStep'
  BY <1>1 DEF InStep, Before
<1>8. Buffered'
  BY <1>1, <1>2 DEF Buffered, Reading
<1>9. QED
  BY <1>4, <1>5, <1>6, <1>7, <1>8 DEF AInv

\* A step that moves neither driver nor drives.
LEMMA RestStep ==
  ASSUME AInv, UNCHANGED <<device, pc, call, index, buffer, stored>>, down' \in BOOLEAN
  PROVE  AInv'
<1>1. UNCHANGED <<sel, nIEN, regs, phase, task, cache, media, irqs, pc, call, index, buffer,
                  stored>>
  BY DEF device
<1>2. /\ UNCHANGED <<Port, Reading, InRead, InWrite>> /\ Floating(Port)' = Floating(Port)
      /\ \A p, j : Doing(p, j)' = Doing(p, j)
  BY <1>1, StandsStill
<1>3. UNCHANGED <<Upto(call.count), Whole(call.count), Whole(stored)>>
  BY <1>1 DEF Upto, Whole
<1>4. DeviceOK' /\ DriverOK'
  BY <1>1, <1>2, <1>3 DEF AInv, DeviceOK, DriverOK
<1>5. QuietRest' /\ Addressed'
  BY <1>1, <1>2 DEF AInv, QuietRest, Addressed
<1>6. InStep'
  BY <1>1, <1>2, <1>3 DEF AInv, InStep
<1>7. Buffered'
  BY <1>1, <1>2, <1>3 DEF AInv, Buffered, Content, Abstract!Untouched
<1>8. QED
  BY <1>4, <1>5, <1>6, <1>7 DEF AInv

LEMMA StrayStep ==
  ASSUME AInv, Stray
  PROVE  AInv'
  BY RestStep DEF Stray

-----------------------------------------------------------------------------
(* The drives' steps *)

LEMMA WholeGrows ==
  ASSUME NEW j \in Nat, Whole(j), call.lba + j \in Lbas
  PROVE  Whole(j + 1)
<1>1. \A i \in 0 .. (j + 1) - 1 : i \in 0 .. j - 1 \/ i = j
  OBVIOUS
<1>2. QED
  BY <1>1 DEF Whole

\* Only the drive of the call works, and only while the driver waits for it,
\* transfers words, or has given it a sector.
LEMMA WorkingDrive ==
  ASSUME AInv, NEW d \in Present, phase[d] # "idle"
  PROVE  /\ d = call.drive /\ d \in DriveIds /\ pc \in {"wait_ready", "transfer", "commit", "drain"}
         /\ pc # "free" /\ Port \in Channels /\ ~Floating(Port) /\ Channel(d) = Port
         /\ call.lba \in Nat /\ call.count \in Nat /\ call.count > 0
         /\ phase[d] = "seek" =>
              /\ Reading /\ pc \in {"wait_ready", "transfer"}
              /\ \E j \in 0 .. call.count :
                   Whole(j) /\ j < call.count /\ Doing("seek", j) /\ index = Upto(j)
         /\ phase[d] = "accept" => ~Reading /\ pc = "wait_ready" /\ Doing("accept", 0)
         /\ phase[d] = "store" => /\ ~Reading /\ pc \in {"transfer", "commit", "drain"}
                                  /\ stored < call.count /\ Whole(stored + 1) /\ Storing(stored)
         /\ phase[d] = "flush" => /\ ~Reading /\ pc = "drain"
                                  /\ stored = call.count /\ Whole(stored)
<1>1. d = call.drive /\ pc \notin Before \cup {"return"}
  BY DEF AInv, QuietRest
<1>2. pc \in {"wait_ready", "transfer", "commit", "drain"} /\ pc # "free"
  BY <1>1 DEF AInv, DriverOK, Points, Before
<1>3. /\ d \in DriveIds /\ Port \in Channels /\ ~Floating(Port) /\ Channel(d) = Port
      /\ call.lba \in Nat /\ call.count \in Nat /\ call.count > 0
  BY <1>1, <1>2, CallServed DEF Port
<1>4. Reading => pc \in {"wait_ready", "transfer"} /\ InRead
  BY <1>1, <1>2 DEF AInv, DriverOK, InStep
<1>5. ~Reading => \/ InWrite
                  \/ pc = "wait_ready" /\ Doing("accept", 0)
                  \/ pc = "drain" /\ phase[d] = "flush" /\ stored = call.count /\ Whole(stored)
  BY <1>1, <1>2 DEF AInv, InStep
<1>6. InRead => phase[d] \in {"idle", "seek", "out"}
  BY <1>1 DEF InRead, Stopped, Doing, Taking
<1>7. InWrite => phase[d] \in {"idle", "in", "store"}
  BY <1>1 DEF InWrite, Stopped, Doing, Giving, Storing
<1>8. CASE phase[d] = "seek"
  <2>1. Reading
    BY <1>1, <1>5, <1>7, <1>8 DEF Doing
  <2>2. \E j \in 0 .. call.count :
          Whole(j) /\ j < call.count /\ Doing("seek", j) /\ index = Upto(j)
    BY <1>1, <1>4, <1>8, <2>1 DEF InRead, Stopped, Doing, Taking
  <2>3. QED
    BY <1>1, <1>2, <1>3, <1>4, <1>8, <2>1, <2>2
<1>9. CASE phase[d] = "accept"
  BY <1>1, <1>2, <1>3, <1>4, <1>5, <1>6, <1>7, <1>9
<1>10. CASE phase[d] = "store"
  <2>1. ~Reading
    BY <1>4, <1>6, <1>10
  <2>2. InWrite
    BY <1>1, <1>5, <1>10, <2>1 DEF Doing
  <2>3. stored < call.count /\ Whole(stored + 1) /\ Storing(stored)
    BY <1>1, <1>10, <2>2 DEF InWrite, Stopped, Giving, Doing
  <2>4. pc # "wait_ready"
    <3>1. stored \in Nat /\ stored + 1 \in Nat
      BY DEF AInv, DriverOK
    <3>2. Upto(stored + 1) = Upto(stored) + Words /\ Upto(stored) \in Nat
      BY <3>1, UptoNext
    <3>3. index = Upto(stored + 1)
      BY <2>3 DEF Storing
    <3>4. index # 0
      BY <3>2, <3>3, Numbers
    <3>5. QED
      BY <3>4 DEF AInv, InStep
  <2>5. QED
    BY <1>1, <1>2, <1>3, <1>10, <2>1, <2>3, <2>4
<1>11. CASE phase[d] = "flush"
  BY <1>1, <1>2, <1>3, <1>4, <1>5, <1>6, <1>7, <1>11 DEF Doing
<1>12. QED
  BY <1>1, <1>2, <1>3, <1>8, <1>9, <1>10, <1>11

\* The driver does not see a step of its drive, but for the registers.
LEMMA DriverRests ==
  ASSUME AInv, UNCHANGED <<driver, sel, nIEN, regs>>, stored' \in Nat, stored' <= call.count,
         \A e \in Present : e # call.drive => phase'[e] = phase[e],
         pc \notin Before \cup {"return"}
  PROVE  /\ DriverOK' /\ QuietRest' /\ Addressed'
         /\ UNCHANGED <<Port, Reading, Upto(call.count)>> /\ Floating(Port)' = Floating(Port)
         /\ UNCHANGED <<pc, call, index, buffer>>
         /\ \A n : Whole(n)' = Whole(n)
<1>1. UNCHANGED <<pc, call, index, buffer, result, down, sel, nIEN, regs>>
  BY DEF driver
<1>2. UNCHANGED <<Port, Reading, Upto(call.count)>> /\ Floating(Port)' = Floating(Port)
  BY <1>1 DEF Port, Reading, Floating, Upto
<1>3. DriverOK'
  BY <1>1, <1>2 DEF AInv, DriverOK
<1>4. QuietRest'
  BY <1>1 DEF AInv, QuietRest
<1>5. Addressed'
  BY <1>1, <1>2 DEF AInv, Addressed
<1>6. \A n : Whole(n)' = Whole(n)
  BY <1>1 DEF Whole
<1>7. QED
  BY <1>1, <1>2, <1>3, <1>4, <1>5, <1>6

\* Interrupts come from a channel.
LEMMA InterruptsFrom ==
  ASSUME DeviceOK, NEW d \in Present, irqs' = irqs \/ Interrupts(d)
  PROVE  irqs' \subseteq Channels
  BY PresentHeard DEF DeviceOK, Interrupts

\* The drive has found a sector of a read, or has no such sector.
LEMMA SeekStep ==
  ASSUME AInv, NEW d \in Present, Seek(d), UNCHANGED <<driver, sel, nIEN, regs, stored>>
  PROVE  AInv'
<1>1. phase[d] = "seek"
  BY DEF Seek
<1>2. /\ d = call.drive /\ d \in DriveIds /\ pc \in {"wait_ready", "transfer"} /\ Reading
      /\ pc # "free" /\ call.lba \in Nat /\ call.count \in Nat
  BY <1>1, WorkingDrive
<1>3. PICK j \in 0 .. call.count :
        Whole(j) /\ j < call.count /\ Doing("seek", j) /\ index = Upto(j)
  BY <1>1, WorkingDrive
<1> DEFINE l == call.lba + j
           s == Content(d, l)
           t == task[d]
           n == IF l \in Lbas THEN [t EXCEPT !.words = s, !.k = 0] ELSE NoTask
           p == IF l \in Lbas THEN "out" ELSE "idle"
<1>4. t.lba = l /\ t.left = call.count - j /\ t \in Tasks /\ j \in Nat
  BY <1>2, <1>3 DEF Doing, AInv, DeviceOK
<1>5. /\ Becomes(d, p, n) /\ Interrupts(d) /\ UNCHANGED <<cache, media>>
  <2>1. task[d].lba = l
    BY <1>4
  <2>2. \/ /\ l \notin Lbas /\ Becomes(d, "idle", NoTask)
           /\ Interrupts(d) /\ UNCHANGED <<cache, media>>
        \/ /\ l \in Lbas /\ Becomes(d, "out", [task[d] EXCEPT !.words = Content(d, l), !.k = 0])
           /\ Interrupts(d) /\ UNCHANGED <<cache, media>>
    <3> HIDE DEF l
    <3>1. QED
      BY <2>1 DEF Seek, Abort
  <2> HIDE DEF l
  <2>3. QED
    BY <2>2
<1>6. /\ p \in Phases /\ n \in Tasks /\ Len(n.words) <= Words
      /\ l \in Lbas => n.lba = t.lba /\ n.left = t.left /\ n.words = s /\ n.k = 0
  <2>1. CASE l \in Lbas
    <3>1. s \in Seq(Values) /\ Len(s) = Words /\ 0 \in 0 .. Words - 1 /\ Words \in Nat
      <4> HIDE DEF l
      <4>1. s \in Sector
        BY <2>1, ContentType DEF AInv
      <4> HIDE DEF s
      <4>2. s \in Seq(Values) /\ Len(s) = Words
        BY <4>1, SectorIsSeq
      <4>3. 0 \in 0 .. Words - 1 /\ Words \in Nat
        BY Numbers
      <4>4. QED
        BY <4>2, <4>3
    <3> HIDE DEF s, t
    <3>2. n = [t EXCEPT !.words = s, !.k = 0] /\ p = "out"
      BY <2>1
    <3> HIDE DEF n, p
    <3>3. /\ n \in Tasks /\ n.lba = t.lba /\ n.left = t.left /\ n.words = s /\ n.k = 0
      BY <1>4, <3>1, <3>2 DEF Tasks
    <3>4. QED
      BY <3>1, <3>2, <3>3 DEF Phases
  <2>2. CASE l \notin Lbas
    BY <2>2, NoTaskIsTask DEF Phases
  <2>3. QED
    BY <2>1, <2>2
<1> HIDE DEF n
<1>7. /\ phase'[d] = p /\ task'[d] = n
      /\ \A e \in DriveIds : e # d => phase'[e] = phase[e]
  <2> HIDE DEF p
  <2>1. QED
    BY <1>2, <1>5, <1>6, BecomesStep DEF AInv
<1>8. DeviceOK'
  <2>1. irqs' \subseteq Channels
    BY <1>5, InterruptsFrom DEF AInv
  <2> HIDE DEF p
  <2>2. QED
    BY <1>2, <1>5, <1>6, <2>1, DeviceStep DEF AInv
<1>9. /\ DriverOK' /\ QuietRest' /\ Addressed' /\ UNCHANGED <<Port, Reading, Upto(call.count)>>
      /\ UNCHANGED <<pc, call, index, buffer>> /\ \A i : Whole(i)' = Whole(i)
  <2>1. \A e \in Present : e # call.drive => phase'[e] = phase[e]
    BY <1>2, <1>7, PresentHeard
  <2>2. stored' \in Nat /\ stored' <= call.count /\ pc \notin Before \cup {"return"}
    BY <1>2 DEF AInv, DriverOK, Before
  <2>3. QED
    BY <2>1, <2>2, DriverRests
<1>10. InRead'
  <2>1. /\ call' = call /\ index' = Upto(j) /\ Upto(j)' = Upto(j) /\ Whole(j)' /\ j \in 0 .. call'.count
        /\ j < call'.count
    BY <1>3, <1>9 DEF Upto
  <2>2. CASE l \in Lbas
    <3>1. Whole(j + 1)'
      BY <1>3, <1>4, <1>9, <2>2, WholeGrows
    <3>2. /\ task'[d].lba = call.lba + j /\ task'[d].left = call.count - j
          /\ phase'[d] = "out" /\ task'[d].words = s /\ task'[d].k = 0
      BY <1>4, <1>6, <1>7, <2>2
    <3>3. Content(call.drive, call.lba + j)' = s
      BY <1>2, <1>5, <2>1 DEF Content
    <3>4. Upto(j) + 0 = Upto(j)
      BY <1>4, UptoNext
    <3>5. Taking(j)'
      BY <1>2, <2>1, <3>2, <3>3, <3>4 DEF Taking, Doing
    <3>6. QED
      BY <2>1, <3>1, <3>5 DEF InRead
  <2>3. CASE l \notin Lbas
    <3>1. Stopped(j)'
      BY <1>2, <1>7, <2>1, <2>3 DEF Stopped
    <3>2. QED
      BY <2>1, <3>1 DEF InRead
  <2>4. QED
    BY <2>2, <2>3
<1>11. InStep'
  <2>1. pc = "transfer" => index # 0
    BY <1>1, <1>2 DEF AInv, InStep
  <2>2. QED
    BY <1>2, <1>9, <1>10, <2>1 DEF AInv, InStep, Before
<1>12. Buffered'
  <2>1. \A i : Content(call.drive, call.lba + i)' = Content(call.drive, call.lba + i)
    BY <1>5, <1>9 DEF Content
  <2>2. QED
    BY <1>2, <1>9, <2>1 DEF AInv, Buffered, Abstract!Untouched
<1>13. QED
  BY <1>8, <1>9, <1>11, <1>12 DEF AInv

\* The drive asks for the first sector of a write, or has no such sector.
LEMMA AcceptStep ==
  ASSUME AInv, NEW d \in Present, Accept(d), UNCHANGED <<driver, sel, nIEN, regs, stored>>
  PROVE  AInv'
<1> DEFINE t == task[d]
           n == IF call.lba \in Lbas THEN [t EXCEPT !.words = <<>>] ELSE NoTask
           p == IF call.lba \in Lbas THEN "in" ELSE "idle"
<1>1. phase[d] = "accept"
  BY DEF Accept
<1>2. /\ d = call.drive /\ d \in DriveIds /\ pc = "wait_ready" /\ ~Reading /\ Doing("accept", 0)
      /\ pc # "free" /\ call.lba \in Nat /\ call.count \in Nat /\ call.count > 0
  BY <1>1, WorkingDrive
<1>3. t.lba = call.lba /\ t.left = call.count /\ t \in Tasks
  BY <1>2 DEF Doing, AInv, DeviceOK
<1>4. Becomes(d, p, n) /\ UNCHANGED <<cache, media>> /\ (irqs' = irqs \/ Interrupts(d))
  BY <1>3 DEF Accept, Abort
<1>5. /\ p \in Phases /\ n \in Tasks /\ Len(n.words) <= Words
      /\ call.lba \in Lbas => n.lba = t.lba /\ n.left = t.left /\ n.words = <<>>
  <2>1. CASE call.lba \in Lbas
    <3>1. <<>> \in Seq(Values) /\ Len(<<>>) = 0 /\ 0 <= Words
      BY Numbers
    <3> HIDE DEF t
    <3>2. n = [t EXCEPT !.words = <<>>] /\ p = "in"
      BY <2>1
    <3> HIDE DEF n, p
    <3>3. n \in Tasks /\ n.lba = t.lba /\ n.left = t.left /\ n.words = <<>>
      BY <1>3, <3>1, <3>2 DEF Tasks
    <3>4. QED
      BY <3>1, <3>2, <3>3 DEF Phases
  <2>2. CASE call.lba \notin Lbas
    BY <2>2, NoTaskIsTask DEF Phases
  <2>3. QED
    BY <2>1, <2>2
<1> HIDE DEF n
<1>6. /\ phase'[d] = p /\ task'[d] = n
      /\ \A e \in DriveIds : e # d => phase'[e] = phase[e]
  <2> HIDE DEF p
  <2>1. QED
    BY <1>2, <1>4, <1>5, BecomesStep DEF AInv
<1>7. DeviceOK'
  <2>1. irqs' \subseteq Channels
    BY <1>4, InterruptsFrom DEF AInv
  <2> HIDE DEF p
  <2>2. QED
    BY <1>2, <1>4, <1>5, <2>1, DeviceStep DEF AInv
<1>8. /\ DriverOK' /\ QuietRest' /\ Addressed' /\ UNCHANGED <<Port, Reading, Upto(call.count)>>
      /\ UNCHANGED <<pc, call, index, buffer>> /\ \A i : Whole(i)' = Whole(i)
  <2>1. \A e \in Present : e # call.drive => phase'[e] = phase[e]
    BY <1>2, <1>6, PresentHeard
  <2>2. stored' \in Nat /\ stored' <= call.count /\ pc \notin Before \cup {"return"}
    BY <1>2 DEF AInv, DriverOK, Before
  <2>3. QED
    BY <2>1, <2>2, DriverRests
<1>9. index = 0 /\ stored = 0 /\ stored' = 0 /\ index' = 0 /\ call' = call
  BY <1>2, <1>8 DEF AInv, InStep
<1>10. InWrite'
  <2>1. Whole(0)
    <3>1. \A i \in 0 .. -1 : FALSE
      OBVIOUS
    <3>2. 0 - 1 = -1
      OBVIOUS
    <3>3. QED
      BY <3>1, <3>2 DEF Whole
  <2>2. Upto(0) = 0 /\ Upto(0)' = Upto(0)
    BY UptoNext DEF Upto
  <2>3. Whole(stored)'
    BY <1>9, <2>1 DEF Whole
  <2>4. CASE call.lba \in Lbas
    <3>1. Whole(1)
      <4>1. call.lba + 0 = call.lba
        BY <1>2
      <4>2. Whole(0 + 1)
        BY <2>1, <2>4, <4>1, WholeGrows
      <4>3. QED
        BY <4>2
    <3>2. Whole(stored + 1)'
      BY <1>9, <3>1 DEF Whole
    <3>3. /\ task'[d].lba = call.lba + 0 /\ task'[d].left = call.count - 0
          /\ phase'[d] = "in" /\ task'[d].words = <<>>
      BY <1>2, <1>3, <1>5, <1>6, <2>4
    <3>4. Doing("in", stored)'
      BY <1>2, <1>9, <3>3 DEF Doing
    <3>5. /\ Len(<<>>) = 0 /\ 0 < Words /\ 0 = 0 + 0 /\ \A i \in 1 .. 0 : FALSE
      BY Numbers
    <3>6. Upto(stored)' = 0
      BY <1>9, <2>2
    <3>7. task'[call'.drive].words = <<>>
      BY <1>2, <1>9, <3>3
    <3>8. Giving(stored)'
      BY <1>9, <3>4, <3>5, <3>6, <3>7 DEF Giving
    <3>9. QED
      BY <1>2, <1>9, <2>3, <3>2, <3>8 DEF InWrite
  <2>5. CASE call.lba \notin Lbas
    <3>1. call.lba + 0 = call.lba
      BY <1>2
    <3>2. Stopped(stored)'
      BY <1>2, <1>6, <1>9, <2>2, <2>5, <3>1 DEF Stopped
    <3>3. QED
      BY <2>3, <3>2 DEF InWrite
  <2>6. QED
    BY <2>4, <2>5
<1>11. InStep'
  BY <1>2, <1>8, <1>9, <1>10 DEF InStep, Before
<1>12. Buffered'
  BY <1>2, <1>8 DEF AInv, Buffered
<1>13. QED
  BY <1>7, <1>8, <1>11, <1>12 DEF AInv

\* What is cached of a drive are sectors of it.
LEMMA CacheIs ==
  ASSUME NEW c, NEW L \in SUBSET Lbas, DOMAIN c = L, c = [l \in L |-> c[l]],
         \A l \in L : c[l] \in Sector
  PROVE  c \in UNION {[M -> Sector] : M \in SUBSET Lbas}
<1>1. c \in [L -> Sector]
  OBVIOUS
<1>2. QED
  BY <1>1

LEMMA CachedSectors ==
  ASSUME DeviceOK, NEW d \in Present
  PROVE  /\ DOMAIN cache[d] \subseteq Lbas
         /\ \A l \in DOMAIN cache[d] : cache[d][l] \in Sector
<1>1. PICK L \in SUBSET Lbas : cache[d] \in [L -> Sector]
  BY DEF DeviceOK
<1>2. QED
  BY <1>1

\* A stored sector is what the host sees from then on, of the others nothing
\* changes.
LEMMA StoreContent ==
  ASSUME DeviceOK, NEW d \in Present, Store(d), task[d].lba \in Lbas, task[d].words \in Sector
  PROVE  /\ cache' \in [Present -> UNION {[L -> Sector] : L \in SUBSET Lbas}]
         /\ media' = media
         /\ \A e \in Present, m \in Lbas :
              Content(e, m)' = IF e = d /\ m = task[d].lba THEN task[d].words ELSE Content(e, m)
<1> DEFINE l == task[d].lba
           w == task[d].words
           L == DOMAIN cache[d] \cup {l}
           c == [m \in L |-> IF m = l THEN w ELSE cache[d][m]]
           T == UNION {[M -> Sector] : M \in SUBSET Lbas}
<1>1. cache' = [cache EXCEPT ![d] = c] /\ media' = media
  BY DEF Store
<1>2. cache \in [Present -> T]
  BY DEF DeviceOK
<1>3. c \in T
  <2>1. L \in SUBSET Lbas
    BY CachedSectors
  <2>2. \A m \in L : c[m] \in Sector
    BY CachedSectors
  <2>3. DOMAIN c = L /\ c = [m \in L |-> c[m]]
    OBVIOUS
  <2> HIDE DEF c, L
  <2>4. QED
    BY <2>1, <2>2, <2>3, CacheIs
<1>4. \A e \in Present : cache'[e] = IF e = d THEN c ELSE cache[e]
  BY <1>1, <1>2
<1>5. cache' \in [Present -> T]
  <2> HIDE DEF c, T
  <2>1. QED
    BY <1>1, <1>2, <1>3
<1>6. \A e \in Present, m \in Lbas :
        Content(e, m)' = IF e = d /\ m = l THEN w ELSE Content(e, m)
  <2> TAKE e \in Present, m \in Lbas
  <2>1. Content(e, m)' = IF m \in DOMAIN cache'[e] THEN cache'[e][m] ELSE media[e][m]
    BY <1>1 DEF Content
  <2>2. CASE e = d
    <3>1. cache'[e] = c
      BY <1>4, <2>2
    <3>2. DOMAIN c = L /\ (m \in L => c[m] = IF m = l THEN w ELSE cache[d][m])
      OBVIOUS
    <3>3. m \in L <=> (m = l \/ m \in DOMAIN cache[d])
      OBVIOUS
    <3> HIDE DEF c, L, l, w
    <3>4. QED
      BY <2>1, <2>2, <3>1, <3>2, <3>3 DEF Content
  <2>3. CASE e # d
    BY <1>4, <2>1, <2>3 DEF Content
  <2>4. QED
    BY <2>2, <2>3
<1>7. QED
  BY <1>1, <1>5, <1>6

\* A flush, and writing a sector back, leave what the host sees as it was.
LEMMA FlushContent ==
  ASSUME DeviceOK, NEW d \in Present, Flush(d)
  PROVE  /\ cache' \in [Present -> UNION {[L -> Sector] : L \in SUBSET Lbas}]
         /\ media' \in [Present -> [Lbas -> Sector]]
         /\ \A e \in Present, m \in Lbas : Content(e, m)' = Content(e, m)
<1> DEFINE T == UNION {[M -> Sector] : M \in SUBSET Lbas}
           f == [l \in Lbas |-> Content(d, l)]
<1>1. cache' = [cache EXCEPT ![d] = <<>>] /\ media' = [media EXCEPT ![d] = f]
  BY DEF Flush
<1>2. cache \in [Present -> T] /\ media \in [Present -> [Lbas -> Sector]]
  BY DEF DeviceOK
<1>3. <<>> \in T
  <2>1. <<>> \in [{} -> Sector] /\ {} \in SUBSET Lbas
    OBVIOUS
  <2>2. QED
    BY <2>1
<1>4. f \in [Lbas -> Sector]
  BY ContentType
<1>5. cache' \in [Present -> T] /\ media' \in [Present -> [Lbas -> Sector]]
  <2> HIDE DEF f, T
  <2>1. QED
    BY <1>1, <1>2, <1>3, <1>4
<1>6. \A e \in Present, m \in Lbas : Content(e, m)' = Content(e, m)
  <2> TAKE e \in Present, m \in Lbas
  <2>1. Content(e, m)' = IF m \in DOMAIN cache'[e] THEN cache'[e][m] ELSE media'[e][m]
    BY DEF Content
  <2>2. CASE e = d
    <3>1. cache'[e] = <<>> /\ media'[e] = f
      <4> HIDE DEF f, T
      <4>1. QED
        BY <1>1, <1>2, <2>2
    <3>2. m \notin DOMAIN <<>> /\ f[m] = Content(d, m)
      OBVIOUS
    <3>3. QED
      BY <2>1, <2>2, <3>1, <3>2, Zenon
  <2>3. CASE e # d
    <3> HIDE DEF f, T
    <3>1. cache'[e] = cache[e] /\ media'[e] = media[e]
      BY <1>1, <1>2, <2>3
    <3>2. QED
      BY <2>1, <3>1 DEF Content
  <2>4. QED
    BY <2>2, <2>3
<1>7. QED
  BY <1>5, <1>6

LEMMA WriteBackContent ==
  ASSUME DeviceOK, NEW d \in Present, NEW l \in Lbas, WriteBack(d, l)
  PROVE  /\ cache' \in [Present -> UNION {[L -> Sector] : L \in SUBSET Lbas}]
         /\ media' \in [Present -> [Lbas -> Sector]]
         /\ \A e \in Present, m \in Lbas : Content(e, m)' = Content(e, m)
<1> DEFINE T == UNION {[M -> Sector] : M \in SUBSET Lbas}
           L == DOMAIN cache[d] \ {l}
           c == [m \in L |-> cache[d][m]]
           f == [media[d] EXCEPT ![l] = cache[d][l]]
<1>1. /\ l \in DOMAIN cache[d]
      /\ cache' = [cache EXCEPT ![d] = c] /\ media' = [media EXCEPT ![d] = f]
  BY DEF WriteBack
<1>2. cache \in [Present -> T] /\ media \in [Present -> [Lbas -> Sector]]
  BY DEF DeviceOK
<1>3. c \in T
  <2>1. L \in SUBSET Lbas
    BY CachedSectors
  <2>2. \A m \in L : c[m] \in Sector
    BY CachedSectors
  <2>3. DOMAIN c = L /\ c = [m \in L |-> c[m]]
    OBVIOUS
  <2> HIDE DEF c, L
  <2>4. QED
    BY <2>1, <2>2, <2>3, CacheIs
<1>4. /\ f \in [Lbas -> Sector]
      /\ \A m \in Lbas : f[m] = IF m = l THEN cache[d][l] ELSE media[d][m]
  <2>1. cache[d][l] \in Sector /\ media[d] \in [Lbas -> Sector]
    BY <1>1, <1>2, CachedSectors
  <2>2. QED
    BY <2>1
<1>5. cache' \in [Present -> T] /\ media' \in [Present -> [Lbas -> Sector]]
  <2> HIDE DEF f, T, c
  <2>1. QED
    BY <1>1, <1>2, <1>3, <1>4
<1>6. \A e \in Present, m \in Lbas : Content(e, m)' = Content(e, m)
  <2> TAKE e \in Present, m \in Lbas
  <2>1. Content(e, m)' = IF m \in DOMAIN cache'[e] THEN cache'[e][m] ELSE media'[e][m]
    BY DEF Content
  <2>2. CASE e = d
    <3>1. cache'[e] = c /\ media'[e] = f
      <4> HIDE DEF f, T, c
      <4>1. QED
        BY <1>1, <1>2, <2>2
    <3>2. /\ m \in DOMAIN c <=> m \in DOMAIN cache[d] /\ m # l
          /\ m \in DOMAIN c => c[m] = cache[d][m]
      OBVIOUS
    <3> HIDE DEF c, f
    <3>3. QED
      BY <1>1, <1>4, <2>1, <2>2, <3>1, <3>2 DEF Content
  <2>3. CASE e # d
    <3> HIDE DEF f, T, c
    <3>1. cache'[e] = cache[e] /\ media'[e] = media[e]
      BY <1>1, <1>2, <2>3
    <3>2. QED
      BY <2>1, <3>1 DEF Content
  <2>4. QED
    BY <2>2, <2>3
<1>7. QED
  BY <1>5, <1>6

\* The drive has taken over a sector of a write, and asks for the next if the
\* call has one and the drive has it.
LEMMA StoreStep ==
  ASSUME AInv, NEW d \in Present, Store(d), UNCHANGED <<driver, sel, nIEN, regs>>,
         stored' = stored + 1
  PROVE  AInv'
<1> DEFINE t == task[d]
           more == t.left > 1 /\ t.lba + 1 \in Lbas
           n == IF more THEN [t EXCEPT !.lba = @ + 1, !.left = @ - 1, !.words = <<>>] ELSE NoTask
           p == IF more THEN "in" ELSE "idle"
<1>1. phase[d] = "store"
  BY DEF Store
<1>2. /\ d = call.drive /\ d \in DriveIds /\ ~Reading /\ pc \in {"transfer", "commit", "drain"}
      /\ stored < call.count /\ Whole(stored + 1) /\ Storing(stored)
      /\ pc # "free" /\ call.lba \in Nat /\ call.count \in Nat
  BY <1>1, WorkingDrive
<1>3. /\ t.lba = call.lba + stored /\ t.left = call.count - stored /\ t \in Tasks
      /\ t.words = Abstract!Slice(call.data, stored) /\ index = Upto(stored + 1)
      /\ stored \in Nat /\ stored + 1 \in Nat
  BY <1>2 DEF Storing, Doing, AInv, DeviceOK, DriverOK
<1>4. t.lba \in Lbas /\ t.words \in Sector
  <2>1. stored \in 0 .. (stored + 1) - 1 /\ stored \in 0 .. call.count - 1
    BY <1>2, <1>3
  <2>2. call.data \in [1 .. Upto(call.count) -> Values]
    BY <1>2, CallServed
  <2>3. Abstract!Slice(call.data, stored) \in Sector
    BY <1>2, <2>1, <2>2, SliceIsSector
  <2>4. QED
    BY <1>2, <1>3, <2>1, <2>3 DEF Whole
<1>5. /\ cache' \in [Present -> UNION {[L -> Sector] : L \in SUBSET Lbas}]
      /\ media' = media
  BY <1>4, StoreContent DEF AInv
<1>6. Becomes(d, p, n) /\ Interrupts(d)
  BY DEF Store
<1>7. /\ p \in Phases /\ n \in Tasks /\ Len(n.words) <= Words
      /\ more => n.lba = t.lba + 1 /\ n.left = t.left - 1 /\ n.words = <<>>
  <2>1. CASE more
    <3>1. t.left > 1 /\ t.left \in 0 .. MaxCount /\ t.lba \in Nat
      BY <1>3, <2>1 DEF Tasks
    <3>2. /\ t.lba + 1 \in Nat /\ t.left - 1 \in 0 .. MaxCount
          /\ <<>> \in Seq(Values) /\ Len(<<>>) = 0 /\ 0 <= Words
      <4> HIDE DEF t
      <4>1. QED
        BY <3>1, Numbers
    <3> HIDE DEF t
    <3>3. n = [t EXCEPT !.lba = t.lba + 1, !.left = t.left - 1, !.words = <<>>] /\ p = "in"
      BY <1>3, <2>1 DEF Tasks
    <3> HIDE DEF n, p
    <3>4. n \in Tasks /\ n.lba = t.lba + 1 /\ n.left = t.left - 1 /\ n.words = <<>>
      BY <1>3, <3>2, <3>3 DEF Tasks
    <3>5. QED
      BY <3>2, <3>3, <3>4 DEF Phases
  <2>2. CASE ~more
    BY <2>2, NoTaskIsTask DEF Phases
  <2>3. QED
    BY <2>1, <2>2
<1> HIDE DEF n
<1>8. /\ phase' \in [DriveIds -> Phases] /\ task' \in [DriveIds -> Tasks]
      /\ phase'[d] = p /\ task'[d] = n
      /\ \A e \in DriveIds : e # d => phase'[e] = phase[e]
      /\ \A e \in DriveIds \ Present : phase'[e] = "absent"
      /\ \A e \in DriveIds : Len(task'[e].words) <= Words
  <2> HIDE DEF p
  <2>1. QED
    BY <1>2, <1>6, <1>7, BecomesStep DEF AInv
<1>9. DeviceOK'
  <2>1. irqs' \subseteq Channels
    BY <1>6, InterruptsFrom DEF AInv
  <2>2. QED
    BY <1>5, <1>8, <2>1 DEF AInv, DeviceOK
<1>10. /\ DriverOK' /\ QuietRest' /\ Addressed' /\ UNCHANGED <<Port, Reading, Upto(call.count)>>
       /\ UNCHANGED <<pc, call, index, buffer>> /\ \A i : Whole(i)' = Whole(i)
  <2>1. \A e \in Present : e # call.drive => phase'[e] = phase[e]
    BY <1>2, <1>8, PresentHeard
  <2>2. stored' \in Nat /\ stored' <= call.count /\ pc \notin Before \cup {"return"}
    BY <1>2, <1>3 DEF Before
  <2>3. QED
    BY <2>1, <2>2, DriverRests
<1>11. InWrite'
  <2>1. call' = call /\ index' = Upto(stored + 1) /\ Upto(stored)' = Upto(stored + 1)
    BY <1>3, <1>10 DEF Upto
  <2>2. Whole(stored)'
    BY <1>2, <1>10 DEF Whole
  <2>3. CASE more
    <3>1. Whole(stored + 1)'
      <4>1. call.lba + (stored + 1) \in Lbas
        BY <1>2, <1>3, <2>3
      <4>2. Whole((stored + 1) + 1)
        BY <1>2, <1>3, <4>1, WholeGrows
      <4>3. QED
        BY <1>10, <4>2 DEF Whole
    <3>2. /\ task'[d].lba = call.lba + (stored + 1) /\ task'[d].left = call.count - (stored + 1)
          /\ phase'[d] = "in" /\ task'[d].words = <<>> /\ stored + 1 < call.count
      <4>1. t.left > 1 /\ task'[d].lba = t.lba + 1 /\ task'[d].left = t.left - 1
            /\ phase'[d] = "in" /\ task'[d].words = <<>>
        <5> HIDE DEF t
        <5>1. QED
          BY <1>7, <1>8, <2>3
      <4> HIDE DEF t
      <4>2. QED
        BY <1>2, <1>3, <4>1
    <3>3. Doing("in", stored)'
      BY <1>2, <2>1, <3>2 DEF Doing
    <3>4. /\ Len(<<>>) = 0 /\ 0 < Words /\ Upto(stored + 1) = Upto(stored + 1) + 0
          /\ \A i \in 1 .. 0 : FALSE
      BY <1>3, UptoNext, Numbers
    <3>5. task'[call'.drive].words = <<>> /\ index' = Upto(stored)' + 0
      BY <1>2, <2>1, <3>2, <3>4
    <3>6. Giving(stored)'
      BY <3>3, <3>4, <3>5 DEF Giving
    <3>7. QED
      BY <2>1, <2>2, <3>1, <3>2, <3>6 DEF InWrite
  <2>4. CASE ~more
    <3>1. stored + 1 < call.count => call.lba + (stored + 1) \notin Lbas
      <4> HIDE DEF t
      <4>1. ~(t.left > 1 /\ t.lba + 1 \in Lbas)
        BY <2>4
      <4>2. t.lba + 1 = call.lba + (stored + 1) /\ (stored + 1 < call.count => t.left > 1)
        BY <1>2, <1>3
      <4>3. QED
        BY <4>1, <4>2
    <3>2. Stopped(stored)'
      BY <1>2, <1>3, <1>8, <2>1, <2>4, <3>1 DEF Stopped
    <3>3. QED
      BY <2>2, <3>2 DEF InWrite
  <2>5. QED
    BY <2>3, <2>4
<1>12. InStep'
  <2>1. index # 0
    BY <1>3, UptoNext, Numbers
  <2>2. QED
    BY <1>2, <1>10, <1>11, <2>1 DEF AInv, InStep, Before
<1>13. Buffered'
  BY <1>2, <1>10 DEF AInv, Buffered
<1>14. QED
  BY <1>9, <1>10, <1>12, <1>13 DEF AInv

\* The drive has emptied its cache.
LEMMA FlushStep ==
  ASSUME AInv, NEW d \in Present, Flush(d), UNCHANGED <<driver, sel, nIEN, regs, stored>>
  PROVE  AInv'
<1>1. phase[d] = "flush"
  BY DEF Flush
<1>2. /\ d = call.drive /\ d \in DriveIds /\ ~Reading /\ pc = "drain"
      /\ stored = call.count /\ Whole(stored)
  BY <1>1, WorkingDrive
<1>3. Becomes(d, "idle", NoTask) /\ Interrupts(d)
  BY DEF Flush
<1>4. /\ cache' \in [Present -> UNION {[L -> Sector] : L \in SUBSET Lbas}]
      /\ media' \in [Present -> [Lbas -> Sector]]
  BY FlushContent DEF AInv
<1>5. "idle" \in Phases /\ NoTask \in Tasks /\ Len(NoTask.words) <= Words
  BY NoTaskIsTask DEF Phases
<1>6. /\ phase' \in [DriveIds -> Phases] /\ task' \in [DriveIds -> Tasks]
      /\ phase'[d] = "idle"
      /\ \A e \in DriveIds : e # d => phase'[e] = phase[e]
      /\ \A e \in DriveIds \ Present : phase'[e] = "absent"
      /\ \A e \in DriveIds : Len(task'[e].words) <= Words
  BY <1>2, <1>3, <1>5, BecomesStep DEF AInv
<1>7. DeviceOK'
  <2>1. irqs' \subseteq Channels
    BY <1>3, InterruptsFrom DEF AInv
  <2>2. QED
    BY <1>4, <1>6, <2>1 DEF AInv, DeviceOK
<1>8. /\ DriverOK' /\ QuietRest' /\ Addressed' /\ UNCHANGED <<Port, Reading, Upto(call.count)>>
      /\ UNCHANGED <<pc, call, index, buffer>> /\ \A i : Whole(i)' = Whole(i)
  <2>1. \A e \in Present : e # call.drive => phase'[e] = phase[e]
    BY <1>2, <1>6, PresentHeard
  <2>2. stored' \in Nat /\ stored' <= call.count /\ pc \notin Before \cup {"return"}
    BY <1>2 DEF AInv, DriverOK, Before
  <2>3. QED
    BY <2>1, <2>2, DriverRests
<1>9. InWrite'
  <2>1. index' = Upto(stored)'
    BY <1>2, <1>8 DEF AInv, InStep, Upto
  <2>2. ~(stored < call.count)
    <3>1. stored \in Nat
      BY DEF AInv, DriverOK
    <3>2. QED
      BY <1>2, <3>1
  <2>3. Stopped(stored)'
    BY <1>2, <1>6, <1>8, <2>1, <2>2 DEF Stopped
  <2>4. Whole(stored)'
    BY <1>2, <1>8 DEF Whole
  <2>5. QED
    BY <2>3, <2>4 DEF InWrite
<1>10. InStep'
  BY <1>2, <1>8, <1>9 DEF AInv, InStep, Before
<1>11. Buffered'
  BY <1>2, <1>8 DEF AInv, Buffered
<1>12. QED
  BY <1>7, <1>8, <1>10, <1>11 DEF AInv

LEMMA WorksStep ==
  ASSUME AInv, NEW d \in Present, DriveWorks(d)
  PROVE  AInv'
<1>1. /\ Seek(d) \/ Accept(d) \/ Store(d) \/ Flush(d)
      /\ UNCHANGED <<driver, sel, nIEN, regs>>
      /\ stored' = IF phase[d] = "store" THEN stored + 1 ELSE stored
  BY DEF DriveWorks, Works
<1>2. CASE Seek(d)
  <2>1. phase[d] = "seek"
    BY <1>2 DEF Seek
  <2>2. QED
    BY <1>1, <1>2, <2>1, SeekStep
<1>3. CASE Accept(d)
  <2>1. phase[d] = "accept"
    BY <1>3 DEF Accept
  <2>2. QED
    BY <1>1, <1>3, <2>1, AcceptStep
<1>4. CASE Store(d)
  <2>1. phase[d] = "store"
    BY <1>4 DEF Store
  <2>2. QED
    BY <1>1, <1>4, <2>1, StoreStep
<1>5. CASE Flush(d)
  <2>1. phase[d] = "flush"
    BY <1>5 DEF Flush
  <2>2. QED
    BY <1>1, <1>5, <2>1, FlushStep
<1>6. QED
  BY <1>1, <1>2, <1>3, <1>4, <1>5

\* A cached sector that reaches the medium is no other sector to the host.
LEMMA WritesBackStep ==
  ASSUME AInv, NEW d \in Present, DriveWritesBack(d)
  PROVE  AInv'
<1>1. PICK l \in Lbas : WriteBack(d, l)
  BY DEF DriveWritesBack
<1>2. /\ cache' \in [Present -> UNION {[L -> Sector] : L \in SUBSET Lbas}]
      /\ media' \in [Present -> [Lbas -> Sector]]
      /\ \A e \in Present, m \in Lbas : Content(e, m)' = Content(e, m)
  BY <1>1, WriteBackContent DEF AInv
<1>3. UNCHANGED <<sel, nIEN, regs, phase, task, irqs, pc, call, index, buffer, stored, down>>
  BY <1>1 DEF DriveWritesBack, WriteBack, driver
<1>4. UNCHANGED <<Port, Reading, Upto(call.count)>> /\ Floating(Port)' = Floating(Port)
  BY <1>3 DEF Port, Reading, Floating, Upto
<1>5. DeviceOK' /\ DriverOK' /\ QuietRest' /\ Addressed'
  <2>1. DeviceOK'
    BY <1>2, <1>3 DEF AInv, DeviceOK
  <2>2. QED
    BY <1>3, <1>4, <2>1 DEF AInv, DriverOK, QuietRest, Addressed
<1>6. /\ \A n : Whole(n)' = Whole(n)
      /\ \A p, j : Doing(p, j)' = Doing(p, j)
      /\ UNCHANGED <<Whole(stored), Whole(stored + 1), Whole(call.count)>>
  BY <1>3 DEF Whole, Doing
<1>7. UNCHANGED InWrite
  <2>1. UNCHANGED <<Stopped(stored), Giving(stored), Storing(stored)>>
    BY <1>3 DEF Stopped, Giving, Storing, Doing, Upto, Abstract!Slice
  <2>2. QED
    BY <1>3, <1>6, <2>1 DEF InWrite
<1>8. ASSUME NEW j, call.drive \in Present, call.lba + j \in Lbas
      PROVE  Content(call.drive, call.lba + j)' = Content(call.drive, call.lba + j)
  <2>1. Content(call.drive, call.lba + j)'
          = IF call.lba + j \in DOMAIN cache'[call.drive] THEN cache'[call.drive][call.lba + j]
            ELSE media'[call.drive][call.lba + j]
    BY <1>3 DEF Content
  <2> DEFINE e == call.drive
             m == call.lba + j
  <2>2. e \in Present /\ m \in Lbas
    BY <1>8
  <2>3. Content(e, m)' = (IF m \in DOMAIN cache'[e] THEN cache'[e][m] ELSE media'[e][m])
    BY <2>1
  <2>4. \A f \in Present, k \in Lbas :
          (IF k \in DOMAIN cache'[f] THEN cache'[f][k] ELSE media'[f][k]) = Content(f, k)
    BY <1>2 DEF Content
  <2> HIDE DEF e, m
  <2>5. QED
    BY <2>2, <2>3, <2>4, Zenon DEF e, m
<1>9. call.drive \in Present /\ InRead => InRead'
  <2> SUFFICES ASSUME call.drive \in Present, InRead PROVE InRead'
    OBVIOUS
  <2>1. PICK j \in 0 .. call.count :
          /\ Whole(j)
          /\ \/ Stopped(j)
             \/ j < call.count /\ Doing("seek", j) /\ index = Upto(j)
             \/ j < call.count /\ Whole(j + 1) /\ Taking(j)
    BY DEF InRead
  <2>2. Stopped(j)' = Stopped(j) /\ Upto(j)' = Upto(j)
    BY <1>3 DEF Stopped, Upto
  <2>3. Whole(j + 1) => Taking(j)' = Taking(j)
    <3> SUFFICES ASSUME Whole(j + 1) PROVE Taking(j)' = Taking(j)
      OBVIOUS
    <3>1. j \in 0 .. (j + 1) - 1
      OBVIOUS
    <3>2. Content(call.drive, call.lba + j)' = Content(call.drive, call.lba + j)
      BY <1>8, <3>1 DEF Whole
    <3>3. QED
      BY <1>3, <1>6, <2>2, <3>2 DEF Taking
  <2>4. QED
    BY <1>3, <1>6, <2>1, <2>2, <2>3 DEF InRead
<1>10. InStep'
  BY <1>3, <1>4, <1>6, <1>7, <1>9 DEF AInv, InStep
<1>11. Buffered'
  <2>1. ASSUME Reading, pc \in {"transfer", "return"}, call.drive < 4,
               NEW j \in 0 .. call.count - 1, NEW w \in 1 .. Words, Upto(j) + w <= index
        PROVE  buffer[Upto(j) + w] = Content(call.drive, call.lba + j)'[w]
    <3>1. Content(call.drive, call.lba + j)' = Content(call.drive, call.lba + j)
      BY <1>8, <2>1, ReadBehind
    <3>2. buffer[Upto(j) + w] = Content(call.drive, call.lba + j)[w]
      BY <2>1 DEF AInv, Buffered
    <3>3. QED
      BY <3>1, <3>2
  <2>2. Abstract!Untouched(call.count)' = Abstract!Untouched(call.count)
    BY <1>3 DEF Abstract!Untouched
  <2>3. QED
    BY <1>3, <1>4, <2>1, <2>2 DEF AInv, Buffered
<1>12. QED
  BY <1>5, <1>10, <1>11 DEF AInv

\* The driver never catches up, and only its transfer loop falls behind.
LEMMA BehindStep ==
  ASSUME [Next]_vars
  PROVE  behind' = behind \/ (Transfer /\ behind' = (behind \/ ~WordReady))
  BY DEF Next, Driver, Begin, Select, WaitIdle, Setup, IssueCommand, WaitReady, Transfer,
         EndTransfer, FlushCache, Drain, Return, Goto, DriveWorks, DriveWritesBack, Stray, driver,
         vars

\* A step that leaves no drive behind.
LEMMA StepAInv ==
  ASSUME AInv, [Next]_vars, ~behind'
  PROVE  AInv'
<1>1. ASSUME NEW asked \in Calls, Begin(asked) PROVE AInv'
  BY <1>1, BeginStep
<1>2. CASE Select
  BY <1>2, SelectStep
<1>3. CASE WaitIdle
  BY <1>3, WaitIdleStep
<1>4. CASE Setup
  BY <1>4, SetupStep
<1>5. CASE IssueCommand
  BY <1>5, IssueCommandStep
<1>6. CASE WaitReady
  BY <1>6, WaitReadyStep
<1>7. CASE Transfer
  <2>1. WordReady
    BY <1>7 DEF Transfer
  <2>2. QED
    BY <1>7, <2>1, TakeStep, GiveStep
<1>8. CASE EndTransfer
  BY <1>8, EndTransferStep
<1>9. CASE FlushCache
  BY <1>9, FlushCacheStep
<1>10. CASE Drain
  BY <1>10, DrainStep
<1>11. CASE Return
  BY <1>11, ReturnStep
<1>12. ASSUME NEW d \in Present, DriveWorks(d) \/ DriveWritesBack(d) PROVE AInv'
  BY <1>12, WorksStep, WritesBackStep
<1>13. CASE Stray
  BY <1>13, StrayStep
<1>14. CASE UNCHANGED vars
  <2>1. UNCHANGED <<device, pc, call, index, buffer, stored, down>>
    BY <1>14 DEF vars, driver
  <2>2. down' \in BOOLEAN
    BY <2>1 DEF AInv, DriverOK
  <2>3. QED
    BY <2>1, <2>2, RestStep
<1>15. QED
  BY <1>1, <1>2, <1>3, <1>4, <1>5, <1>6, <1>7, <1>8, <1>9, <1>10, <1>11, <1>12, <1>13, <1>14
     DEF Next, Driver

LEMMA InitKInv == Init => KInv
  BY InitAInv DEF Init, KInv

LEMMA NextKInv == KInv /\ [Next]_vars => KInv'
  BY BehindStep, StepAInv DEF KInv

\* The wait before the transfer is one for every word of the first sector.
LEMMA FirstSectorReady ==
  ASSUME AInv, pc = "transfer", index < Words
  PROVE  WordReady
<1>1. /\ ~Floating(Port) /\ sel[Port] = call.drive /\ call.count \in Nat
      /\ index \in Nat /\ stored \in Nat /\ Words \in Nat /\ task[call.drive] \in Tasks
  BY Facing, CallServed, Numbers DEF AInv, DriverOK
<1>2. \A j \in Nat : index = Upto(j) => index = 0
  <2> SUFFICES ASSUME NEW j \in Nat, index = Upto(j) PROVE index = 0
    OBVIOUS
  <2>1. j # 0 => Upto(0) + Words <= Upto(j)
    BY UptoRises
  <2>2. Upto(0) = 0
    BY UptoNext
  <2>3. QED
    BY <1>1, <2>1, <2>2
<1>3. phase[call.drive] \in {"out", "in"}
  <2>1. CASE index = 0
    BY <2>1 DEF AInv, InStep
  <2>2. CASE index # 0
    <3>1. CASE Reading
      <4>1. PICK j \in 0 .. call.count :
              Stopped(j) \/ (Doing("seek", j) /\ index = Upto(j)) \/ Taking(j)
        <5>1. InRead
          BY <3>1 DEF AInv, InStep
        <5>2. QED
          BY <5>1 DEF InRead
      <4>2. j \in Nat
        BY <1>1
      <4>3. Taking(j)
        BY <1>2, <2>2, <4>1, <4>2 DEF Stopped
      <4>4. QED
        BY <4>3 DEF Taking, Doing
    <3>2. CASE ~Reading
      <4>1. Stopped(stored) \/ Giving(stored) \/ Storing(stored)
        BY <3>2 DEF AInv, InStep, InWrite
      <4>2. Giving(stored)
        BY <1>1, <1>2, <2>2, <4>1 DEF Stopped, Storing
      <4>3. QED
        BY <4>2 DEF Giving, Doing
    <3>3. QED
      BY <3>1, <3>2
  <2>3. QED
    BY <2>1, <2>2
<1>4. IF Reading THEN phase[call.drive] = "out" ELSE phase[call.drive] = "in"
  BY <1>3 DEF AInv, InStep, InRead, InWrite, Stopped, Taking, Giving, Storing, Doing
<1>5. QED
  BY <1>1, <1>4 DEF WordReady, Offers, Wants

\* At the boundary between two sectors the drive is busy with the one before,
\* or has found that there is no next one.
LEMMA BetweenSectors ==
  ASSUME AInv, pc = "transfer", index < Words * call.count, ~WordReady
  PROVE  \E j \in Nat \ {0} : /\ index = Upto(j)
                             /\ \/ phase[call.drive] \in {"seek", "store"}
                                \/ call.lba + j \notin Lbas
<1>1. /\ ~Floating(Port) /\ sel[Port] = call.drive /\ call.count \in Nat
      /\ index \in Nat /\ stored \in Nat /\ Words \in Nat
  BY Facing, CallServed, Numbers DEF AInv, DriverOK
<1>2. index >= Words
  BY <1>1, FirstSectorReady
<1>3. phase[call.drive] # (IF Reading THEN "out" ELSE "in")
  BY <1>1 DEF WordReady, Offers, Wants
<1>4. \A j \in Nat : index = Upto(j) => j # 0 /\ j < call.count
  <2> SUFFICES ASSUME NEW j \in Nat, index = Upto(j) PROVE j # 0 /\ j < call.count
    OBVIOUS
  <2>1. Upto(0) = 0 /\ Words > 0
    BY UptoNext, Numbers
  <2>2. Upto(call.count) = Words * call.count
    BY DEF Upto
  <2>3. call.count < j => Upto(call.count) + Words <= Upto(j)
    BY <1>1, UptoRises
  <2>4. Upto(call.count) \in Nat
    BY <1>1, UptoNext
  <2>5. QED
    BY <1>1, <1>2, <2>1, <2>2, <2>3, <2>4
<1>5. CASE Reading
  <2>1. InRead
    BY <1>5 DEF AInv, InStep
  <2>2. PICK j \in 0 .. call.count :
          Stopped(j) \/ (Doing("seek", j) /\ index = Upto(j)) \/ Taking(j)
    BY <2>1 DEF InRead
  <2>3. ~Taking(j) /\ j \in Nat
    BY <1>1, <1>3, <1>5 DEF Taking, Doing
  <2>4. index = Upto(j)
    BY <2>2, <2>3 DEF Stopped
  <2>5. j # 0 /\ j < call.count
    BY <1>4, <2>3, <2>4
  <2>6. phase[call.drive] = "seek" \/ call.lba + j \notin Lbas
    BY <2>2, <2>3, <2>5 DEF Stopped, Doing
  <2>7. QED
    BY <2>3, <2>4, <2>5, <2>6
<1>6. CASE ~Reading
  <2>1. InWrite
    BY <1>6 DEF AInv, InStep
  <2>2. ~Giving(stored)
    BY <1>3, <1>6 DEF Giving, Doing
  <2>3. CASE Stopped(stored)
    <3>1. index = Upto(stored)
      BY <2>3 DEF Stopped
    <3>2. stored # 0 /\ stored < call.count
      BY <1>1, <1>4, <3>1
    <3>3. call.lba + stored \notin Lbas
      BY <2>3, <3>2 DEF Stopped
    <3>4. QED
      BY <1>1, <3>1, <3>2, <3>3
  <2>4. CASE Storing(stored)
    <3>1. index = Upto(stored + 1) /\ phase[call.drive] = "store"
      BY <2>4 DEF Storing, Doing
    <3>2. stored + 1 \in Nat \ {0}
      BY <1>1
    <3>3. QED
      BY <3>1, <3>2
  <2>5. QED
    BY <2>1, <2>2, <2>3, <2>4 DEF InWrite
<1>7. QED
  BY <1>5, <1>6

\* The words of whole sectors, counted back.
LEMMA WholeSectors ==
  ASSUME NEW j \in Nat \ {0}
  PROVE  Upto(j) > 0 /\ Upto(j) % Words = 0 /\ Upto(j) \div Words = j
<1>1. Words \in Nat /\ Words > 0 /\ j \in Nat /\ j > 0
  BY Numbers
<1>2. Upto(0) + Words <= Upto(j) /\ Upto(0) = 0 /\ Upto(j) \in Nat
  BY <1>1, UptoRises, UptoNext
<1> DEFINE q == Upto(j) \div Words
           m == Upto(j) % Words
<1>3. Upto(j) = Words * q + m /\ m \in 0 .. Words - 1 /\ q \in Nat
  BY <1>1, <1>2
<1> HIDE DEF q, m
<1>4. Upto(q) = Words * q /\ Upto(q) \in Nat
  BY <1>3, UptoNext DEF Upto
<1>5. q < j => Upto(q) + Words <= Upto(j)
  BY <1>1, <1>3, UptoRises
<1>6. j < q => Upto(j) + Words <= Upto(q)
  BY <1>1, <1>3, UptoRises
<1>7. q = j /\ m = 0
  BY <1>1, <1>2, <1>3, <1>4, <1>5, <1>6
<1>8. QED
  BY <1>1, <1>2, <1>7 DEF q, m

LEMMA AInvReady == KInv => TransferReady
<1> SUFFICES ASSUME AInv, pc = "transfer", index < Words * call.count, ~WordReady
             PROVE  /\ index > 0 /\ index % Words = 0
                    /\ \/ phase[call.drive] \in {"seek", "store"}
                       \/ call.lba + (index \div Words) \notin Lbas
  BY DEF TransferReady, KInv
<1>1. PICK j \in Nat \ {0} : /\ index = Upto(j)
                            /\ \/ phase[call.drive] \in {"seek", "store"}
                               \/ call.lba + j \notin Lbas
  BY BetweenSectors
<1>2. QED
  BY <1>1, WholeSectors

\* A call that leaves its drive behind is one for several sectors.
LEMMA OnlySeveral ==
  ASSUME AInv, [Next]_vars, ~behind, behind'
  PROVE  Transfer /\ call # NoCall /\ call.count > 1
<1>1. Transfer /\ ~WordReady
  BY BehindStep
<1>2. pc = "transfer" /\ index < Words * call.count
  BY <1>1 DEF Transfer, At
<1>3. call # NoCall /\ call.count \in Nat /\ Words \in Nat /\ index \in Nat
  BY <1>2, CallServed, Numbers DEF AInv, DriverOK
<1>4. index >= Words
  BY <1>1, <1>2, <1>3, FirstSectorReady
<1>5. call.count # 0 /\ call.count # 1
  <2>1. Words * 0 = 0 /\ Words * 1 = Words
    BY <1>3
  <2>2. QED
    BY <1>2, <1>3, <1>4, <2>1
<1>6. QED
  BY <1>1, <1>3, <1>5

\* Driver and drive stay in step, whatever the drives, their speed, the
\* sectors, their size and the number of them in a call, until a drive is left
\* behind (atapio.c 3-157).
THEOREM AtaInvariance == Spec => []KInv
<1>1. Init => KInv
  BY InitKInv
<1>2. KInv /\ [Next]_vars => KInv'
  BY NextKInv
<1>3. QED
  BY <1>1, <1>2, PTL DEF Spec

\* Where calls ask for one sector, the functions of atapio.c 3-79, no drive is
\* ever left behind.
THEOREM OneSectorNeverBehind ==
  ASSUME MaxCount = 1
  PROVE  Spec => []~behind
<1>1. Init => ~behind
  BY DEF Init
<1>2. KInv /\ ~behind /\ [Next]_vars => ~behind'
  <2> SUFFICES ASSUME AInv, ~behind, [Next]_vars, behind' PROVE FALSE
    BY DEF KInv
  <2>1. Transfer /\ call.count > 1
    BY OnlySeveral
  <2>2. pc # "free"
    BY <2>1 DEF Transfer, At
  <2>3. call.count \in Nat /\ call.count <= MaxCount
    BY <2>2, CallServed
  <2>4. QED
    BY <2>1, <2>3
<1>3. QED
  BY <1>1, <1>2, AtaInvariance, PTL DEF Spec

LEMMA AInvTypes == AInv /\ behind \in BOOLEAN => TypeOK
<1> SUFFICES ASSUME AInv, behind \in BOOLEAN PROVE TypeOK
  OBVIOUS
<1>1. \A d \in DriveIds : /\ task[d].lba \in Nat /\ task[d].left \in 0 .. MaxCount
                          /\ task[d].k \in 0 .. Words - 1
                          /\ Len(task[d].words) \in 0 .. Words
  BY Numbers DEF AInv, DeviceOK, Tasks
<1>2. \A d \in Present : /\ DOMAIN cache[d] \subseteq Lbas
                         /\ \A l \in Lbas : Content(d, l) \in [1 .. Words -> Values]
  BY CachedSectors, ContentType DEF AInv, Sector
<1>3. index \in 0 .. Words * MaxCount /\ stored \in 0 .. MaxCount
  <2>1. CASE pc = "free"
    <3>1. index = 0 /\ stored = 0
      BY <2>1 DEF AInv, InStep, Before
    <3>2. Upto(MaxCount) \in Nat /\ MaxCount \in Nat
      BY UptoNext, Numbers
    <3>3. QED
      BY <3>1, <3>2 DEF Upto
  <2>2. CASE pc # "free"
    <3>1. /\ index \in Nat /\ stored \in Nat /\ index <= Upto(call.count) /\ stored <= call.count
          /\ call.count \in Nat /\ call.count <= MaxCount /\ MaxCount \in Nat /\ Words \in Nat
      BY <2>2, CallServed, Numbers DEF AInv, DriverOK
    <3>2. call.count < MaxCount => Upto(call.count) + Words <= Upto(MaxCount)
      BY <3>1, UptoRises
    <3>3. Upto(call.count) \in Nat /\ Upto(MaxCount) \in Nat
      BY <3>1, UptoNext
    <3>4. index <= Upto(MaxCount)
      BY <3>1, <3>2, <3>3
    <3>5. QED
      BY <3>1, <3>3, <3>4 DEF Upto
  <2>3. QED
    BY <2>1, <2>2
<1>4. QED
  BY <1>1, <1>2, <1>3 DEF TypeOK, AInv, DeviceOK, DriverOK

\* TypeOK for every set of drives and sectors, every size of a sector and every
\* number of them in a call, until a drive is left behind.
THEOREM AtaTypeCorrect == Spec => [](behind \/ TypeOK)
<1>1. KInv => behind \/ TypeOK
  BY AInvTypes DEF KInv
<1>2. QED
  BY <1>1, AtaInvariance, PTL

\* The transfer loops (atapio.c 30-33, 72-74, 108-111, 150-152) test nothing
\* between words, and need not inside a sector: the drive has, or wants, every
\* word they move, but for the first of the second and later sectors.
THEOREM WordsAreReady == Spec => []TransferReady
<1>1. KInv => TransferReady
  BY AInvReady
<1>2. QED
  BY <1>1, AtaInvariance, PTL

\* A call leaves every drive idle, which the writing functions rely on when
\* they program a drive without waiting for it (atapio.c 53-61, 131-139),
\* unless a drive has been left behind.
THEOREM DrivesIdleBetweenCalls == Spec => []IdleBetweenCalls
<1>1. KInv => IdleBetweenCalls
  BY DEF KInv, AInv, QuietRest, Before, IdleBetweenCalls
<1>2. QED
  BY <1>1, AtaInvariance, PTL

\* Every reading function writes the mask of the first channel (atapio.c 21,
\* 99), and while a read is served only its own drive works.
LEMMA QuietStep ==
  ASSUME AInv, Next, Reading, Port = 0
  PROVE  irqs' = irqs
<1>1. ASSUME NEW d \in Present, DriveWorks(d) PROVE irqs' = irqs
  <2>1. phase[d] \in {"seek", "accept", "store", "flush"}
    BY <1>1 DEF DriveWorks, Works, Seek, Accept, Store, Flush
  <2>2. phase[d] = "seek" /\ d = call.drive /\ pc \in {"wait_ready", "transfer"}
    BY <2>1, WorkingDrive
  <2>3. nIEN[0] = TRUE
    BY <2>2 DEF AInv, Addressed
  <2>4. Channel(d) = 0
    BY <2>2 DEF Port
  <2>5. Interrupts(d) \/ irqs' = irqs
    BY <1>1 DEF DriveWorks, Works, Seek, Accept, Store, Flush, Abort
  <2>6. QED
    BY <2>3, <2>4, <2>5 DEF Interrupts
<1>2. ASSUME NEW d \in Present, DriveWritesBack(d) PROVE irqs' = irqs
  BY <1>2 DEF DriveWritesBack, WriteBack
<1>3. CASE Driver
  BY <1>3 DEF Driver, Select, SelectDrive, WaitIdle, Setup, IssueCommand, WaitReady, Transfer,
              TakeWord, GiveWord, EndTransfer, FlushCache, Command, Drain, Return, device
<1>4. ASSUME NEW asked \in Calls, Begin(asked) PROVE irqs' = irqs
  BY <1>4 DEF Begin, device
<1>5. CASE Stray
  BY <1>5 DEF Stray, device
<1>6. QED
  BY <1>1, <1>2, <1>3, <1>4, <1>5 DEF Next

\* A read from the first channel is not interrupted, whatever drives there are
\* on both channels.
THEOREM ReadsStayQuiet == Spec => ReadKeepsQuiet
<1>1. KInv /\ [Next]_vars => [Reading /\ Port = 0 /\ ~behind => irqs' = irqs]_vars
  BY QuietStep DEF KInv
<1>2. QED
  BY <1>1, AtaInvariance, PTL DEF Spec, ReadKeepsQuiet

-----------------------------------------------------------------------------
(* The driver implements an array of sectors *)

Seen == [d \in Present |-> [l \in Lbas |-> Content(d, l)]]

LEMMA SeenKept ==
  ASSUME \A d \in Present, l \in Lbas : Content(d, l)' = Content(d, l)
  PROVE  Seen' = Seen
  BY DEF Seen

LEMMA MediaKept ==
  ASSUME UNCHANGED <<cache, media>>
  PROVE  Seen' = Seen
  BY DEF Seen, Content

LEMMA InitStore == Init => Abstract!Init
<1> SUFFICES ASSUME Init PROVE Abstract!Init
  OBVIOUS
<1>1. DeviceOK
  BY InitAInv DEF AInv
<1>2. [d \in Present |-> [l \in Lbas |-> Content(d, l)]] \in [Present -> [Lbas -> Abstract!Sectors]]
  BY <1>1, ContentType DEF Sector, Abstract!Sectors
<1>3. call = NoCall /\ stored = 0 /\ result = <<>> /\ behind = FALSE
  BY DEF Init
<1>4. QED
  BY <1>2, <1>3 DEF Abstract!Init, NoCall

\* The drive takes a sector of a write over: it is replaced.
LEMMA StoreReplaces ==
  ASSUME AInv, NEW d \in Present, Store(d), UNCHANGED <<driver, sel, nIEN, regs>>,
         stored' = stored + 1
  PROVE  Abstract!Replace
<1> DEFINE l == call.lba + stored
           s == Abstract!Slice(call.data, stored)
<1>1. phase[d] = "store"
  BY DEF Store
<1>2. /\ d = call.drive /\ ~Reading /\ pc # "free"
      /\ stored < call.count /\ Whole(stored + 1) /\ Storing(stored)
      /\ call.lba \in Nat /\ call.count \in Nat
  BY <1>1, WorkingDrive
<1>3. stored \in Nat /\ call.kind = "write" /\ call.data \in [1 .. Upto(call.count) -> Values]
  BY <1>2, CallServed DEF Reading, AInv, DriverOK
<1>4. task[d].lba = l /\ task[d].words = s
  BY <1>2 DEF Storing, Doing
<1>5. l \in Lbas /\ s \in Sector
  <2>1. stored \in 0 .. (stored + 1) - 1 /\ stored \in 0 .. call.count - 1
    BY <1>2, <1>3
  <2>2. s \in Sector
    BY <1>2, <1>3, <2>1, SliceIsSector
  <2>3. QED
    BY <1>2, <2>1, <2>2 DEF Whole
<1>6. \A e \in Present, m \in Lbas : Content(e, m)' = IF e = d /\ m = l THEN s ELSE Content(e, m)
  <2> HIDE DEF l, s
  <2>1. QED
    BY <1>4, <1>5, StoreContent DEF AInv
<1>7. Seen' = [Seen EXCEPT ![call.drive][l] = s]
  <2> HIDE DEF l, s
  <2>1. Seen' = [e \in Present |-> [m \in Lbas |-> IF e = d /\ m = l THEN s ELSE Content(e, m)]]
    BY <1>6 DEF Seen
  <2>2. [Seen EXCEPT ![d][l] = s]
          = [e \in Present |-> [m \in Lbas |-> IF e = d /\ m = l THEN s ELSE Content(e, m)]]
    BY <1>5 DEF Seen
  <2>3. QED
    BY <1>2, <2>1, <2>2
<1>8. UNCHANGED <<call, result, behind>>
  BY DEF driver
<1>9. QED
  BY <1>2, <1>3, <1>5, <1>7, <1>8 DEF Abstract!Replace, Seen

\* A call returns with what the array of sectors has.
LEMMA ReturnAnswers ==
  ASSUME AInv, Return
  PROVE  Abstract!ReturnWrite \/ Abstract!ReturnRead \/ Abstract!ReturnUnknown
<1>1. /\ pc = "return" /\ call' = NoCall /\ result' = buffer /\ stored' = 0
      /\ UNCHANGED <<cache, media, behind>>
  BY DEF Return, At, device
<1>2. /\ call # NoCall /\ call.kind \in {"read", "write"} /\ call.drive \in Nat /\ call.lba \in Nat
      /\ call.count \in Nat
  BY <1>1, CallServed
<1>3. Abstract!Return
  BY <1>1, <1>2, MediaKept DEF Abstract!Return, Seen, NoCall
<1>4. CASE call.drive >= 4
  <2>1. Reading => buffer = Abstract!Untouched(call.count)
    BY <1>4 DEF AInv, Buffered
  <2>2. ~Reading => buffer = <<>>
    BY DEF AInv, Buffered
  <2>3. result' = IF call.kind = "read" THEN Abstract!Untouched(call.count) ELSE <<>>
    BY <1>1, <2>1, <2>2 DEF Reading
  <2>4. QED
    BY <1>2, <1>3, <1>4, <2>3 DEF Abstract!ReturnUnknown, NoCall
<1>5. CASE call.drive < 4 /\ ~Reading
  <2>1. call.drive \in Present /\ stored = call.count /\ buffer = <<>>
    BY <1>1, <1>5 DEF AInv, InStep, Buffered
  <2>2. call.kind = "write"
    BY <1>2, <1>5 DEF Reading
  <2>3. QED
    BY <1>1, <1>3, <2>1, <2>2 DEF Abstract!ReturnWrite
<1>6. CASE call.drive < 4 /\ Reading
  <2> DEFINE d == call.drive
             c == call.count
             s == [n \in 0 .. c - 1 |-> Seen[d][call.lba + n]]
  <2>1. /\ d \in Present /\ Whole(c) /\ index = Upto(c)
        /\ buffer \in [1 .. Upto(c) -> Values \cup {Junk}]
        /\ \A j \in 0 .. c - 1, w \in 1 .. Words :
             Upto(j) + w <= index => buffer[Upto(j) + w] = Content(d, call.lba + j)[w]
    BY <1>1, <1>6 DEF AInv, InStep, Buffered
  <2>2. call.lba .. call.lba + c - 1 \subseteq Lbas
    <3> SUFFICES ASSUME NEW l \in call.lba .. call.lba + c - 1 PROVE l \in Lbas
      OBVIOUS
    <3>1. l - call.lba \in 0 .. c - 1 /\ call.lba + (l - call.lba) = l
      BY <1>2
    <3>2. QED
      BY <2>1, <3>1 DEF Whole
  <2>3. \A j \in 0 .. c - 1 : s[j] = Content(d, call.lba + j)
    BY <2>1 DEF Whole, Seen
  <2>4. \A x \in 1 .. Upto(c) : buffer[x] = s[(x - 1) \div Words][((x - 1) % Words) + 1]
    <3> SUFFICES ASSUME NEW x \in 1 .. Upto(c)
                 PROVE  buffer[x] = s[(x - 1) \div Words][((x - 1) % Words) + 1]
      OBVIOUS
    <3> DEFINE j == (x - 1) \div Words
               w == ((x - 1) % Words) + 1
    <3>1. j \in 0 .. c - 1 /\ w \in 1 .. Words /\ x = Upto(j) + w
      BY <1>2, SectorOfWord
    <3>2. Upto(j) + w <= index
      BY <1>2, <2>1, <3>1, UptoNext
    <3> HIDE DEF j, w, s
    <3>3. buffer[x] = s[j][w]
      BY <2>1, <2>3, <3>1, <3>2
    <3>4. QED
      BY <3>3 DEF j, w
  <2> HIDE DEF s
  <2>5. buffer = Abstract!Joined(s, c)
    <3>1. Abstract!Joined(s, c) = [x \in 1 .. Upto(c) |-> s[(x - 1) \div Words][((x - 1) % Words) + 1]]
      BY DEF Abstract!Joined, Upto
    <3> DEFINE a(x) == s[(x - 1) \div Words][((x - 1) % Words) + 1]
    <3>2. \A x \in 1 .. Upto(c) : buffer[x] = a(x)
      BY <2>4
    <3>3. Abstract!Joined(s, c) = [x \in 1 .. Upto(c) |-> a(x)]
      BY <3>1
    <3> HIDE DEF a
    <3>4. QED
      BY <2>1, <3>2, <3>3
  <2>6. call.kind = "read"
    BY <1>6 DEF Reading
  <2>7. QED
    BY <1>1, <1>3, <2>1, <2>2, <2>5, <2>6 DEF Abstract!ReturnRead, Seen, s
<1>7. QED
  BY <1>2, <1>4, <1>5, <1>6

\* Every step of the driver and the drives is one of the array of sectors, or
\* none, until a call for several sectors fails.
LEMMA StepServes ==
  ASSUME AInv, [Next]_vars, behind = FALSE, behind' = FALSE
  PROVE  Abstract!Next \/ UNCHANGED Abstract!vars
<1> DEFINE Stutters == UNCHANGED <<Seen, call, stored, result>>
<1>0. behind' = behind
  OBVIOUS
<1>1. Stutters => UNCHANGED Abstract!vars
  BY <1>0 DEF Abstract!vars, Seen
<1>2. ASSUME NEW asked \in Calls, Begin(asked) PROVE Abstract!Next
  <2>1. /\ pc = "free" /\ call' = asked /\ result' = <<>> /\ stored' = 0 /\ UNCHANGED <<cache, media>>
    BY <1>2 DEF Begin, device
  <2>2. call = NoCall
    BY <2>1 DEF AInv, DriverOK
  <2>3. Abstract!Begin(asked)
    BY <1>0, <2>1, <2>2, MediaKept DEF Abstract!Begin, Seen, NoCall
  <2>4. QED
    BY <2>3 DEF Abstract!Next, Abstract!Serve, Calls
<1>3. CASE Return
  BY <1>3, ReturnAnswers DEF Abstract!Next, Abstract!Serve
<1>4. CASE Select \/ WaitIdle \/ Setup \/ IssueCommand \/ WaitReady \/ EndTransfer \/ FlushCache
           \/ Drain
  <2>1. UNCHANGED <<cache, media, call, stored, result>>
    BY <1>4 DEF Select, SelectDrive, WaitIdle, Setup, IssueCommand, Command, WaitReady,
                EndTransfer, FlushCache, Drain, Goto, device
  <2>2. QED
    BY <1>1, <2>1, MediaKept
<1>5. CASE Transfer
  <2>1. UNCHANGED <<cache, media, call, stored, result>>
    BY <1>5 DEF Transfer, TakeWord, GiveWord
  <2>2. QED
    BY <1>1, <2>1, MediaKept
<1>6. ASSUME NEW d \in Present, DriveWorks(d) PROVE Abstract!Next \/ UNCHANGED Abstract!vars
  <2>1. /\ Seek(d) \/ Accept(d) \/ Store(d) \/ Flush(d)
        /\ UNCHANGED <<driver, sel, nIEN, regs>> /\ UNCHANGED <<call, result>>
        /\ stored' = IF phase[d] = "store" THEN stored + 1 ELSE stored
    BY <1>6 DEF DriveWorks, Works, driver
  <2>2. CASE Store(d)
    <3>1. phase[d] = "store"
      BY <2>2 DEF Store
    <3>2. Abstract!Replace
      BY <2>1, <2>2, <3>1, StoreReplaces
    <3>3. QED
      BY <3>2 DEF Abstract!Next, Abstract!Serve
  <2>3. CASE Flush(d)
    <3>1. phase[d] = "flush"
      BY <2>3 DEF Flush
    <3>2. Seen' = Seen
      BY <2>3, FlushContent, SeenKept DEF AInv
    <3>3. QED
      BY <1>1, <2>1, <3>1, <3>2
  <2>4. CASE Seek(d) \/ Accept(d)
    <3>1. phase[d] \in {"seek", "accept"} /\ UNCHANGED <<cache, media>>
      BY <2>4 DEF Seek, Accept, Abort
    <3>2. Seen' = Seen
      BY <3>1, MediaKept
    <3>3. QED
      BY <1>1, <2>1, <3>1, <3>2
  <2>5. QED
    BY <2>1, <2>2, <2>3, <2>4
<1>7. ASSUME NEW d \in Present, DriveWritesBack(d) PROVE UNCHANGED Abstract!vars
  <2>1. PICK l \in Lbas : WriteBack(d, l)
    BY <1>7 DEF DriveWritesBack
  <2>2. Seen' = Seen
    BY <2>1, WriteBackContent, SeenKept DEF AInv
  <2>3. UNCHANGED <<call, stored, result>>
    BY <1>7 DEF DriveWritesBack, driver
  <2>4. QED
    BY <1>1, <2>2, <2>3
<1>8. CASE Stray \/ UNCHANGED vars
  <2>1. UNCHANGED <<cache, media, call, stored, result>>
    BY <1>8 DEF Stray, vars, device, driver
  <2>2. QED
    BY <1>1, <2>1, MediaKept
<1>9. QED
  BY <1>2, <1>3, <1>4, <1>5, <1>6, <1>7, <1>8 DEF Next, Driver

LEMMA StepImplements == KInv /\ KInv' /\ [Next]_vars => [Abstract!Next]_(Abstract!vars)
<1> SUFFICES ASSUME KInv, KInv', [Next]_vars
             PROVE  Abstract!Next \/ UNCHANGED Abstract!vars
  OBVIOUS
<1>1. behind \in BOOLEAN /\ behind' \in BOOLEAN
  BY DEF KInv
<1>2. CASE behind
  <2>1. behind'
    BY <1>2, BehindStep
  <2>2. QED
    BY <1>2, <2>1 DEF Abstract!Next
<1>3. CASE ~behind /\ behind'
  <2>1. call # NoCall /\ call.count > 1
    BY <1>3, OnlySeveral DEF KInv
  <2>2. Abstract!Fail
    BY <1>3, <2>1 DEF Abstract!Fail, NoCall
  <2>3. QED
    BY <1>3, <2>2 DEF Abstract!Next
<1>4. CASE ~behind /\ ~behind'
  <2>1. AInv /\ behind = FALSE /\ behind' = FALSE
    BY <1>1, <1>4 DEF KInv
  <2>2. QED
    BY <2>1, StepServes
<1>5. QED
  BY <1>2, <1>3, <1>4

\* The driver implements BlockStore: what a read returns is what the last write
\* left, a write replaces its own sectors one after the other, each whole, and
\* no other, and neither returns before its drive is done; only calls for
\* several sectors fail.
THEOREM DriverImplementsBlockStore == Spec => Implements
<1>1. Init => Abstract!Init
  BY InitStore
<1>2. KInv /\ KInv' /\ [Next]_vars => [Abstract!Next]_(Abstract!vars)
  BY StepImplements
<1>3. QED
  BY <1>1, <1>2, AtaInvariance, PTL DEF Spec, Implements, Abstract!Spec
=============================================================================
