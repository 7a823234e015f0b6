----------------------------- MODULE BlockStore -----------------------------
(***************************************************************************)
(* What the callers of atapio.c rely on: drives are arrays of sectors.  A  *)
(* read returns the sectors as the last writes left them, a write returns  *)
(* after all of its sectors have been replaced, in order, and nothing else *)
(* changes.  A drive number the driver does not know returns at once and   *)
(* leaves the caller's buffer as it was; a drive or a sector that is not   *)
(* there never answers.                                                    *)
(*                                                                         *)
(* One promise is weaker than callers may think: a call for several        *)
(* sectors can fail without a word, and then nothing is promised any more, *)
(* neither of its sectors nor of later calls.  Calls for one sector never  *)
(* fail.                                                                   *)
(***************************************************************************)
EXTENDS Integers

CONSTANTS
  Present,     \* drives that exist, among 0 .. 3
  Lbas,        \* sectors each of them has
  Words,       \* words in a sector, 256 in the code
  Values,      \* values of a word
  Junk,        \* the word of a buffer nobody filled, or of an idle data port
  CallDrives,  \* drive numbers callers ask for
  CallLbas,    \* sectors callers ask for
  CallData,    \* buffers callers write
  MaxCount     \* sectors a call may ask for

Sectors == [1 .. Words -> Values]

Buffer(count) == [1 .. Words * count -> Values]
Untouched(count) == [w \in 1 .. Words * count |-> Junk]

Reads  == [kind : {"read"}, drive : CallDrives, lba : CallLbas, count : 1 .. MaxCount,
           data : {<<>>}]
Writes == UNION {[kind : {"write"}, drive : CallDrives, lba : CallLbas, count : {n},
                  data : Buffer(n) \cap CallData] : n \in 1 .. MaxCount}
NoCall == [kind |-> "none"]

\* Sector n (from 0) of a buffer, and the buffer made of sectors s[0], s[1], ...
Slice(data, n) == [w \in 1 .. Words |-> data[n * Words + w]]
Joined(s, count) == [w \in 1 .. Words * count |-> s[(w - 1) \div Words][((w - 1) % Words) + 1]]

VARIABLES
  store,   \* contents of the drives
  call,    \* the call being served
  stored,  \* sectors of it replaced so far
  result,  \* what the last call left in the caller's buffer
  failed   \* a call has failed

vars == <<store, call, stored, result, failed>>

Init == /\ store \in [Present -> [Lbas -> Sectors]]
        /\ call = NoCall
        /\ stored = 0
        /\ result = <<>>
        /\ failed = FALSE

Begin(asked) == /\ call = NoCall
                /\ call' = asked
                /\ stored' = 0
                /\ result' = <<>>
                /\ UNCHANGED <<store, failed>>

Replace == /\ call.kind = "write"
           /\ call.drive \in Present
           /\ stored < call.count
           /\ call.lba + stored \in Lbas
           /\ store' = [store EXCEPT ![call.drive][call.lba + stored] = Slice(call.data, stored)]
           /\ stored' = stored + 1
           /\ UNCHANGED <<call, result, failed>>

Return == /\ call # NoCall
          /\ call' = NoCall
          /\ stored' = 0
          /\ UNCHANGED <<store, failed>>

ReturnWrite == /\ call.kind = "write"
               /\ call.drive \in Present
               /\ stored = call.count
               /\ Return
               /\ result' = <<>>

ReturnRead == /\ call.kind = "read"
              /\ call.drive \in Present
              /\ call.lba .. call.lba + call.count - 1 \subseteq Lbas
              /\ Return
              /\ result' = Joined([n \in 0 .. call.count - 1 |-> store[call.drive][call.lba + n]],
                                  call.count)

ReturnUnknown == /\ call # NoCall
                 /\ call.drive >= 4
                 /\ Return
                 /\ result' = IF call.kind = "read" THEN Untouched(call.count) ELSE <<>>

Fail == /\ call # NoCall
        /\ call.count > 1
        /\ failed'

Serve == \/ \E asked \in Reads \cup Writes : Begin(asked)
         \/ Replace
         \/ ReturnWrite \/ ReturnRead \/ ReturnUnknown

Next == \/ ~failed /\ Serve
        \/ ~failed /\ Fail
        \/ failed /\ failed'

Spec == Init /\ [][Next]_vars
=============================================================================
