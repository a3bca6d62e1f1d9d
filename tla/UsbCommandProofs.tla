-------------------------- MODULE UsbCommandProofs --------------------------
(***************************************************************************)
(* Proofs about commands over USB (src/src/usbcommand/usbcommand.c and     *)
(* src/src/color_mcu/color_mcu.c): a transaction gets its own answer, the  *)
(* device outlives the commands, the host expects IMU data only while the  *)
(* IMU streams, and usb_cmd_create opens the requested device or nothing.  *)
(***************************************************************************)
EXTENDS UsbCommand, FiniteSetTheorems, TLAPS

-----------------------------------------------------------------------------
(* Types                                                                   *)

PacketType == [kind : {"none", "data", "response"}, id : Nat, of : Nat, status : Nat]
Ops == Reads \cup Writes \cup WritesData
CommandType == [id : Nat, of : Nat, op : Ops \cup {"none"}]
Holding == {"command", "data", "response", "succeeded", "failed"}
CallType ==
  [at : Holding \cup {"idle", "begin", "stream"}, op : Ops \cup {"none"},
   n : Nat, id : Nat, data : PacketType, response : PacketType]

CommandTypes ==
  /\ transaction_id \in 0 .. IdModulus - 1
  /\ lock \in Callers \cup {NoCaller}
  /\ stream_going \in BOOLEAN
  /\ caller \in [Callers -> CallType]
  /\ sent \in Nat
  /\ inbox \in Seq(CommandType)
  /\ pipe \in Seq(PacketType)
  /\ imu \in BOOLEAN
  /\ attached \in BOOLEAN

(* The lock is held from the number of the command to the end of the       *)
(* transaction.                                                            *)
LockHeld == \A c \in Callers : lock = c <=> caller[c].at \in Holding

(* Ids are numbers modulo IdModulus, counted back from the next one: a     *)
(* command that is not a round old is told apart by its id.                *)
IdOf(id, n) ==
  /\ id \in 0 .. IdModulus - 1
  /\ n <= sent /\ sent - n < IdModulus
  /\ id + (sent - n) + 1 \in {transaction_id, transaction_id + IdModulus}

IdsTell ==
  /\ \A i \in DOMAIN inbox : IdOf(inbox[i].id, inbox[i].of)
  /\ \A j \in DOMAIN pipe : IdOf(pipe[j].id, pipe[j].of)
  /\ \A c \in Callers : caller[c].at \in Holding =>
       caller[c].n = sent /\ IdOf(caller[c].id, caller[c].n)

(* Commands are taken and answered in the order they were made.            *)
NotSent(c) ==
  caller[c].at = "command" \/ (caller[c].at = "data" /\ caller[c].op \in WritesData)

InOrder ==
  /\ \A i, j \in DOMAIN inbox : i < j => inbox[i].of < inbox[j].of
  /\ \A i \in DOMAIN inbox, j \in DOMAIN pipe : pipe[j].of < inbox[i].of
  /\ \A c \in Callers : NotSent(c) =>
       /\ \A i \in DOMAIN inbox : inbox[i].of < caller[c].n
       /\ \A j \in DOMAIN pipe : pipe[j].of < caller[c].n

(* A response without an error to the command of a running transaction.    *)
OwnResponse(c, p) == p.of = caller[c].n /\ p.kind = "response" /\ p.status = 0
OwnData(c, p) == p.of = caller[c].n /\ p.kind = "data"

(* A read's own response follows its own data, in the pipe or out of it.   *)
DataFirst(c) ==
  caller[c].op \in Reads =>
    \A j \in DOMAIN pipe : OwnResponse(c, pipe[j]) =>
      IF j = 1 THEN caller[c].at = "response" /\ OwnData(c, caller[c].data)
               ELSE OwnData(c, pipe[j - 1])

Answered ==
  \A c \in Callers : caller[c].at \in {"command", "data", "response"} =>
    /\ \A i \in DOMAIN inbox : inbox[i].of = caller[c].n => inbox[i].op = caller[c].op
    /\ DataFirst(c)

AnswerInv == CommandTypes /\ LockHeld /\ IdsTell /\ InOrder /\ Answered /\ AnswerIsOwn

-----------------------------------------------------------------------------
(* Types are preserved.                                                    *)

LEMMA IdNextType ==
  ASSUME transaction_id \in 0 .. IdModulus - 1
  PROVE  /\ IdNext \in 0 .. IdModulus - 1
         /\ IdNext = IF transaction_id = IdModulus - 1 THEN 0 ELSE transaction_id + 1
BY CommandAssumption DEF IdNext

LEMMA AnswerTypes ==
  ASSUME NEW p \in CommandType, NEW a \in Answers(p)
  PROVE  /\ a \in Seq(PacketType)
         /\ \/ Len(a) = 1 /\ a[1].kind = "response" /\ a[1].id = p.id /\ a[1].of = p.of
               /\ (p.op \in Reads => a[1].status = 1)
            \/ /\ Len(a) = 2 /\ p.op \in Reads
               /\ a[1].kind = "data" /\ a[1].id = p.id /\ a[1].of = p.of
               /\ a[2].kind = "response" /\ a[2].id = p.id /\ a[2].of = p.of
<1>1. p.id \in Nat /\ p.of \in Nat
  BY DEF CommandType
<1>2. Response(p, 0) \in PacketType /\ Response(p, 1) \in PacketType /\ Data(p) \in PacketType
  BY <1>1 DEF Response, Data, PacketType
<1>3. \A s \in {0, 1} : /\ Response(p, s).kind = "response" /\ Response(p, s).id = p.id
                        /\ Response(p, s).of = p.of /\ Response(p, s).status = s
  BY DEF Response
<1>4. Data(p).kind = "data" /\ Data(p).id = p.id /\ Data(p).of = p.of
  BY DEF Data
<1>5. CASE a = <<Response(p, 1)>>
  BY <1>2, <1>3, <1>5
<1>6. CASE a = <<Response(p, 0)>> /\ p.op \notin Reads
  BY <1>2, <1>3, <1>6
<1>7. CASE a = <<Data(p), Response(p, 0)>> /\ p.op \in Reads
  BY <1>2, <1>3, <1>4, <1>7
<1> QED
  BY <1>5, <1>6, <1>7 DEF Answers

LEMMA TypesStep ==
  ASSUME CommandTypes, [Next]_vars
  PROVE  CommandTypes'
<1> USE DEF CommandTypes
<1>1. Idle \in CallType /\ Nothing \in PacketType
  BY DEF Idle, Nothing, CallType, PacketType, Holding
<1>2. ASSUME NEW c \in Callers PROVE caller[c] \in CallType
  OBVIOUS
<1>3. ASSUME NEW c \in Callers, NEW at \in Holding \cup {"idle", "begin", "stream"}, Step(c, at)
      PROVE  caller' \in [Callers -> CallType]
  BY <1>3, ZenonT(40) DEF Step, CallType
<1>4. ASSUME NEW c \in Callers PROVE Packet(c) \in CommandType
  BY <1>2 DEF Packet, CommandType, CallType
<1>5. CASE UNCHANGED commandVars
  BY <1>5 DEF commandVars
<1>6. ASSUME NEW c \in Callers, NEW op \in Reads \cup Writes \cup WritesData, Call(c, op)
      PROVE  CommandTypes'
  <2>1. [Idle EXCEPT !.at = "begin", !.op = op] \in CallType
    BY <1>1 DEF CallType, Idle, Ops
  <2> QED
    BY <1>6, <2>1 DEF Call
<1>7. ASSUME NEW c \in Callers, LockAndNumber(c) PROVE CommandTypes'
  <2> DEFINE call == [caller[c] EXCEPT !.at = "command", !.n = sent + 1, !.id = transaction_id]
  <2>1. call \in CallType
    <3>1. transaction_id \in Nat /\ sent + 1 \in Nat
      BY CommandAssumption
    <3> QED
      BY <1>2, <3>1 DEF CallType, Holding
  <2>2. caller' = [caller EXCEPT ![c] = call]
    BY <1>7 DEF LockAndNumber
  <2> QED
    BY <1>7, <2>1, <2>2, IdNextType DEF LockAndNumber
<1>8. ASSUME NEW c \in Callers, SendCommand(c) PROVE CommandTypes'
  <2>1. caller' \in [Callers -> CallType]
    BY <1>3, <1>8 DEF SendCommand, Holding
  <2>2. inbox' \in Seq(CommandType)
    BY <1>4, <1>8, SMTT(30) DEF SendCommand
  <2> QED
    BY <1>8, <2>1, <2>2 DEF SendCommand
<1>9. ASSUME NEW c \in Callers, SendData(c) PROVE CommandTypes'
  BY <1>3, <1>4, <1>9 DEF SendData, Holding
<1>10. ASSUME pipe # <<>> PROVE Head(pipe) \in PacketType /\ Tail(pipe) \in Seq(PacketType)
  BY <1>10
<1>11. ASSUME NEW c \in Callers, ReceiveData(c) PROVE CommandTypes'
  <2> DEFINE call == [caller[c] EXCEPT !.at = "response", !.data = Head(pipe)]
  <2>1. call \in CallType
    BY <1>2, <1>10, <1>11 DEF ReceiveData, CallType, Holding
  <2>2. caller' = [caller EXCEPT ![c] = call] \/ Step(c, "failed")
    BY <1>11 DEF ReceiveData
  <2>3. caller' \in [Callers -> CallType]
    BY <1>3, <2>1, <2>2 DEF Holding
  <2> QED
    BY <1>10, <1>11, <2>3 DEF ReceiveData
<1>12. ASSUME NEW c \in Callers, ReceiveResponse(c) PROVE CommandTypes'
  <2> DEFINE call == [caller[c] EXCEPT !.at = "succeeded", !.response = Head(pipe)]
  <2>1. call \in CallType
    BY <1>2, <1>10, <1>12 DEF ReceiveResponse, CallType, Holding
  <2>2. caller' = [caller EXCEPT ![c] = call] \/ Step(c, "failed")
    BY <1>12 DEF ReceiveResponse
  <2>3. caller' \in [Callers -> CallType]
    BY <1>3, <2>1, <2>2 DEF Holding
  <2> QED
    BY <1>10, <1>12, <2>3 DEF ReceiveResponse
<1>13. ASSUME NEW c \in Callers, TransferFails(c) PROVE CommandTypes'
  <2>1. caller' \in [Callers -> CallType]
    BY <1>3, <1>13 DEF TransferFails, Holding
  <2>2. inbox' = inbox \/ inbox' = Append(inbox, Packet(c))
    BY <1>13 DEF TransferFails
  <2>3. inbox' \in Seq(CommandType)
    BY <1>4, <2>2
  <2> QED
    BY <1>13, <2>1, <2>3 DEF TransferFails
<1>14. ASSUME NEW c \in Callers, Unlock(c) PROVE CommandTypes'
  <2>1. [Idle EXCEPT !.at = "stream"] \in CallType
    BY <1>1 DEF CallType, Idle
  <2> QED
    BY <1>1, <1>14, <2>1 DEF Unlock
<1>15. ASSUME NEW c \in Callers, StreamStart(c) PROVE CommandTypes'
  BY <1>3, <1>15 DEF StreamStart
<1>16. CASE DeviceAnswers
  <2>1. Head(inbox) \in CommandType /\ Tail(inbox) \in Seq(CommandType)
    BY <1>16 DEF DeviceAnswers
  <2>2. PICK a \in Answers(Head(inbox)) : pipe' = pipe \o a
    BY <1>16 DEF DeviceAnswers
  <2>3. pipe' \in Seq(PacketType)
    BY <2>1, <2>2, AnswerTypes
  <2>4. imu' \in BOOLEAN /\ attached' \in BOOLEAN
    BY <1>16 DEF DeviceAnswers
  <2> QED
    BY <1>16, <2>1, <2>3, <2>4 DEF DeviceAnswers
<1>17. CASE Destroy
  BY <1>17 DEF Destroy
<1>18. CASE DestroyReleases
  BY <1>18, CommandAssumption DEF DestroyReleases
<1> QED
  BY <1>5, <1>6, <1>7, <1>8, <1>9, <1>11, <1>12, <1>13, <1>14, <1>15, <1>16, <1>17, <1>18
     DEF Next, vars

-----------------------------------------------------------------------------
(* A transaction gets its own answer: one lemma for each action.           *)

(* The new value of a thread's call; those of the others stay.             *)
Becomes(c, call) ==
  /\ caller'[c] = call
  /\ \A e \in Callers \ {c} : caller'[e] = caller[e]

LEMMA OnlyHolder ==
  ASSUME LockHeld, NEW c \in Callers, caller[c].at \in Holding, NEW e \in Callers \ {c}
  PROVE  caller[e].at \notin Holding
BY DEF LockHeld

(* A thread that has no transaction before and after.                      *)
LEMMA OutsideKeeps ==
  ASSUME AnswerInv, NEW c \in Callers, NEW call, Becomes(c, call),
         caller[c].at \notin Holding, call.at \notin Holding,
         UNCHANGED <<transaction_id, lock, sent, inbox, pipe>>, CommandTypes'
  PROVE  AnswerInv'
<1> USE DEF AnswerInv, Becomes
<1>1. LockHeld'
  BY DEF LockHeld
<1>2. IdsTell'
  BY DEF IdsTell, IdOf
<1>3. InOrder'
  BY DEF InOrder, NotSent, Holding
<1>4. Answered'
  BY DEF Answered, DataFirst, OwnResponse, OwnData, Holding
<1>5. AnswerIsOwn'
  BY DEF AnswerIsOwn, Succeeded, Holding
<1> QED
  BY <1>1, <1>2, <1>3, <1>4, <1>5

LEMMA CallKeeps ==
  ASSUME AnswerInv, NEW c \in Callers, NEW op, Call(c, op), CommandTypes'
  PROVE  AnswerInv'
<1>1. Becomes(c, [Idle EXCEPT !.at = "begin", !.op = op])
  BY DEF Call, Becomes, AnswerInv, CommandTypes
<1>2. caller[c].at \notin Holding /\ [Idle EXCEPT !.at = "begin", !.op = op].at \notin Holding
  BY DEF Call, Idle, Holding
<1> QED
  BY <1>1, <1>2, OutsideKeeps DEF Call

LEMMA StreamStartKeeps ==
  ASSUME AnswerInv, NEW c \in Callers, StreamStart(c), CommandTypes'
  PROVE  AnswerInv'
<1>1. Becomes(c, [caller[c] EXCEPT !.at = "idle"])
  BY DEF StreamStart, Step, Becomes, AnswerInv, CommandTypes
<1>2. caller[c] \in CallType
  BY DEF AnswerInv, CommandTypes
<1>3. caller[c].at \notin Holding /\ [caller[c] EXCEPT !.at = "idle"].at \notin Holding
  BY <1>2 DEF StreamStart, Holding, CallType
<1> QED
  BY <1>1, <1>3, OutsideKeeps DEF StreamStart

(* A command gets its number: nothing in the pipes is as new, and by       *)
(* NoAnswerARoundOld nothing is a round older.                             *)
LEMMA LockAndNumberKeeps ==
  ASSUME AnswerInv, NEW c \in Callers, LockAndNumber(c), CommandTypes'
  PROVE  AnswerInv'
<1> USE DEF AnswerInv
<1> DEFINE call == [caller[c] EXCEPT !.at = "command", !.n = sent + 1, !.id = transaction_id]
<1>1. Becomes(c, call)
  BY DEF LockAndNumber, Becomes, CommandTypes
<1>2. caller[c] \in CallType /\ sent \in Nat /\ sent' = sent + 1
  BY DEF CommandTypes, LockAndNumber
<1>3. /\ call.at = "command" /\ call.n = sent + 1 /\ call.id = transaction_id
      /\ call.op = caller[c].op
  BY <1>2 DEF CallType
<1>4. \A e \in Callers : caller[e].at \notin Holding
  BY CommandAssumption DEF LockAndNumber, LockHeld
<1>5. \A e \in Callers \ {c} : caller'[e].at \notin Holding
  BY <1>1, <1>4 DEF Becomes
<1>6. /\ transaction_id \in 0 .. IdModulus - 1 /\ transaction_id' = IdNext
      /\ IdModulus \in Nat /\ IdModulus > 0
      /\ inbox' = inbox /\ pipe' = pipe /\ lock' = c
  BY CommandAssumption DEF LockAndNumber, CommandTypes
<1>7. LockHeld'
  BY <1>1, <1>3, <1>5, <1>6 DEF LockHeld, Becomes, Holding
<1>8. ASSUME NEW id, NEW n \in Nat, IdOf(id, n), sent + 1 - n < IdModulus
      PROVE  IdOf(id, n)' /\ n < sent + 1
  BY <1>2, <1>6, <1>8, IdNextType DEF IdOf
<1>9. \A i \in DOMAIN inbox : inbox[i].of \in Nat /\ sent + 1 - inbox[i].of < IdModulus
  <2> SUFFICES ASSUME NEW i \in DOMAIN inbox
               PROVE  inbox[i].of \in Nat /\ sent + 1 - inbox[i].of < IdModulus
    OBVIOUS
  <2>1. inbox[i] \in Range(inbox) /\ inbox[i] \in CommandType
    BY DEF Range, CommandTypes
  <2> QED
    BY <2>1 DEF LockAndNumber, NoAnswerARoundOld, CommandType
<1>10. \A j \in DOMAIN pipe : pipe[j].of \in Nat /\ sent + 1 - pipe[j].of < IdModulus
  <2> SUFFICES ASSUME NEW j \in DOMAIN pipe
               PROVE  pipe[j].of \in Nat /\ sent + 1 - pipe[j].of < IdModulus
    OBVIOUS
  <2>1. pipe[j] \in Range(pipe) /\ pipe[j] \in PacketType
    BY DEF Range, CommandTypes
  <2> QED
    BY <2>1 DEF LockAndNumber, NoAnswerARoundOld, PacketType
<1>11. ASSUME NEW id, NEW n, id = transaction_id, n = sent + 1 PROVE IdOf(id, n)'
  BY <1>2, <1>6, <1>11, IdNextType DEF IdOf
<1>12. IdsTell'
  <2>1. \A i \in DOMAIN inbox' : IdOf(inbox[i].id, inbox[i].of)'
    BY <1>6, <1>8, <1>9 DEF IdsTell
  <2>2. \A j \in DOMAIN pipe' : IdOf(pipe[j].id, pipe[j].of)'
    BY <1>6, <1>8, <1>10 DEF IdsTell
  <2>3. caller'[c].n = sent' /\ IdOf(caller[c].id, caller[c].n)'
    BY <1>1, <1>2, <1>3, <1>11 DEF Becomes
  <2> QED
    BY <1>5, <2>1, <2>2, <2>3 DEF IdsTell
<1>13. /\ \A i \in DOMAIN inbox : inbox[i].of < sent + 1
       /\ \A j \in DOMAIN pipe : pipe[j].of < sent + 1
  BY <1>8, <1>9, <1>10 DEF IdsTell
<1>14. InOrder'
  BY <1>1, <1>3, <1>5, <1>6, <1>13 DEF InOrder, NotSent, Holding, Becomes
<1>15. Answered'
  <2>1. \A i \in DOMAIN inbox' : inbox'[i].of # caller'[c].n
    BY <1>1, <1>3, <1>6, <1>9, <1>13, <1>2 DEF Becomes
  <2>2. \A j \in DOMAIN pipe' : pipe'[j].of # caller'[c].n
    BY <1>1, <1>3, <1>6, <1>10, <1>13, <1>2 DEF Becomes
  <2> QED
    BY <1>5, <2>1, <2>2 DEF Answered, DataFirst, OwnResponse, Holding
<1>16. AnswerIsOwn'
  BY <1>1, <1>3, <1>5 DEF AnswerIsOwn, Becomes, Holding
<1> QED
  BY <1>7, <1>12, <1>14, <1>15, <1>16

(* A step of a transaction that touches no pipe and does not succeed: the  *)
(* command of a write with data, a transfer that fails, an unlock.         *)
LEMMA QuietKeeps ==
  ASSUME AnswerInv, NEW c \in Callers, NEW call, Becomes(c, call),
         caller[c].at \in Holding, call.at \notin {"succeeded", "command", "response"},
         call.at = "data" => /\ caller[c].at = "command" /\ call.op = caller[c].op
                             /\ call.n = caller[c].n /\ call.op \in WritesData,
         call.at \in Holding => call.n = caller[c].n /\ call.id = caller[c].id,
         lock' = IF call.at \in Holding THEN lock ELSE NoCaller,
         UNCHANGED <<transaction_id, sent, inbox, pipe>>, CommandTypes'
  PROVE  AnswerInv'
<1> USE DEF AnswerInv, Becomes
<1>1. \A e \in Callers \ {c} : caller[e].at \notin Holding
  BY OnlyHolder
<1>2. lock = c
  BY DEF LockHeld
<1>3. LockHeld'
  BY <1>1, <1>2, CommandAssumption DEF LockHeld
<1>4. IdsTell'
  BY <1>1 DEF IdsTell, IdOf
<1>5. InOrder'
  BY <1>1 DEF InOrder, NotSent, Holding
<1>6. Answered'
  BY <1>1 DEF Answered, DataFirst, OwnResponse, Holding, Reads, WritesData
<1>7. AnswerIsOwn'
  BY <1>1 DEF AnswerIsOwn, Holding
<1> QED
  BY <1>3, <1>4, <1>5, <1>6, <1>7

(* The command, or its data, reaches the device: it is the newest there.   *)
LEMMA SentKeeps ==
  ASSUME AnswerInv, NEW c \in Callers, NEW at \in {"data", "response", "failed"}, Step(c, at),
         NotSent(c), at = "data" => caller[c].op \notin WritesData,
         inbox' = Append(inbox, Packet(c)),
         UNCHANGED <<transaction_id, lock, sent, pipe>>, CommandTypes'
  PROVE  AnswerInv'
<1> USE DEF AnswerInv
<1>1. caller[c] \in CallType /\ caller[c].at \in Holding /\ inbox \in Seq(CommandType)
  BY DEF CommandTypes, NotSent, Holding
<1>2. /\ caller'[c].at = at /\ caller'[c].op = caller[c].op /\ caller'[c].n = caller[c].n
      /\ caller'[c].id = caller[c].id
      /\ \A e \in Callers \ {c} : caller'[e] = caller[e]
  BY <1>1 DEF Step, CommandTypes, CallType
<1>3. \A e \in Callers \ {c} : caller[e].at \notin Holding /\ caller'[e].at \notin Holding
  BY <1>1, <1>2, OnlyHolder
<1>4. /\ Packet(c).of = caller[c].n /\ Packet(c).id = caller[c].id /\ Packet(c).op = caller[c].op
  BY DEF Packet
<1>5. /\ DOMAIN inbox' = 1 .. Len(inbox) + 1 /\ DOMAIN inbox = 1 .. Len(inbox)
      /\ \A i \in DOMAIN inbox : inbox'[i] = inbox[i]
      /\ inbox'[Len(inbox) + 1] = Packet(c) /\ Len(inbox) \in Nat
  BY <1>1
<1>6. caller[c].n = sent /\ IdOf(caller[c].id, caller[c].n) /\ sent \in Nat
  BY <1>1 DEF IdsTell, CommandTypes
<1>7. LockHeld'
  BY <1>1, <1>2, <1>3 DEF LockHeld, Holding
<1>8. ASSUME NEW id, NEW n, IdOf(id, n) PROVE IdOf(id, n)'
  BY <1>8 DEF IdOf
<1>9. IdsTell'
  <2>1. \A i \in DOMAIN inbox' : IdOf(inbox[i].id, inbox[i].of)'
    BY <1>4, <1>5, <1>6, <1>8 DEF IdsTell
  <2>2. \A j \in DOMAIN pipe' : IdOf(pipe[j].id, pipe[j].of)'
    BY <1>8 DEF IdsTell
  <2>3. caller'[c].n = sent' /\ IdOf(caller[c].id, caller[c].n)'
    BY <1>2, <1>6, <1>8
  <2> QED
    BY <1>3, <2>1, <2>2, <2>3 DEF IdsTell
<1>10. ~NotSent(c)'
  BY <1>2 DEF NotSent
<1>11. InOrder'
  <2>1. \A i, j \in DOMAIN inbox' : i < j => inbox'[i].of < inbox'[j].of
    BY <1>4, <1>5 DEF InOrder
  <2>2. \A i \in DOMAIN inbox', j \in DOMAIN pipe' : pipe'[j].of < inbox'[i].of
    BY <1>4, <1>5 DEF InOrder
  <2>3. \A e \in Callers : ~NotSent(e)'
    BY <1>3, <1>10 DEF NotSent, Holding
  <2> QED
    BY <2>1, <2>2, <2>3 DEF InOrder
<1>12. Answered'
  <2>1. \A i \in DOMAIN inbox' : inbox'[i].of = caller'[c].n => inbox'[i].op = caller'[c].op
    BY <1>2, <1>4, <1>5, <1>6 DEF InOrder
  <2>2. \A j \in DOMAIN pipe' : pipe'[j].of # caller'[c].n
    <3>1. \A j \in DOMAIN pipe : pipe[j] \in PacketType
      BY DEF CommandTypes
    <3>2. \A j \in DOMAIN pipe : pipe[j].of \in Nat
      BY <3>1 DEF PacketType
    <3>3. \A j \in DOMAIN pipe : pipe[j].of < caller[c].n
      BY DEF InOrder
    <3> QED
      BY <1>2, <1>6, <3>2, <3>3
  <2> QED
    BY <1>3, <2>1, <2>2 DEF Answered, DataFirst, OwnResponse, Holding
<1>13. AnswerIsOwn'
  BY <1>2, <1>3 DEF AnswerIsOwn, Holding
<1> QED
  BY <1>7, <1>9, <1>11, <1>12, <1>13

LEMMA TransfersKeep ==
  ASSUME AnswerInv, NEW c \in Callers, SendCommand(c) \/ SendData(c) \/ TransferFails(c),
         CommandTypes'
  PROVE  AnswerInv'
<1>1. caller[c] \in CallType /\ caller[c].at \in Holding
  BY DEF AnswerInv, CommandTypes, SendCommand, SendData, TransferFails, Holding
<1>2. ASSUME NEW at \in {"data", "response", "failed"}, Step(c, at)
      PROVE  /\ Becomes(c, [caller[c] EXCEPT !.at = at])
             /\ [caller[c] EXCEPT !.at = at].at = at
             /\ [caller[c] EXCEPT !.at = at].op = caller[c].op
             /\ [caller[c] EXCEPT !.at = at].n = caller[c].n
             /\ [caller[c] EXCEPT !.at = at].id = caller[c].id
  BY <1>1, <1>2 DEF Step, Becomes, AnswerInv, CommandTypes, CallType
<1>3. CASE inbox' = Append(inbox, Packet(c))
  <2>1. PICK at \in {"data", "response", "failed"} :
          /\ Step(c, at) /\ NotSent(c)
          /\ at = "data" => caller[c].op \notin WritesData
    BY <1>3 DEF SendCommand, SendData, TransferFails, NotSent
  <2> QED
    BY <1>3, <2>1, SentKeeps DEF SendCommand, SendData, TransferFails
<1>4. CASE inbox' = inbox
  <2>1. CASE SendCommand(c)
    <3>1. Step(c, "data") /\ caller[c].op \in WritesData /\ caller[c].at = "command"
      BY <1>4, <2>1 DEF SendCommand, Writes, WritesData
    <3> QED
      BY <1>1, <1>2, <1>4, <2>1, <3>1, QuietKeeps DEF SendCommand, Holding
  <2>2. CASE TransferFails(c)
    <3>1. Step(c, "failed")
      BY <2>2 DEF TransferFails
    <3> QED
      BY <1>1, <1>2, <1>4, <2>2, <3>1, QuietKeeps DEF TransferFails, Holding
  <2>3. ~SendData(c)
    BY <1>4 DEF SendData, AnswerInv, CommandTypes
  <2> QED
    BY <2>1, <2>2, <2>3
<1> QED
  BY <1>3, <1>4 DEF SendCommand, SendData, TransferFails

LEMMA UnlockKeeps ==
  ASSUME AnswerInv, NEW c \in Callers, Unlock(c), CommandTypes'
  PROVE  AnswerInv'
<1>1. PICK call \in {[Idle EXCEPT !.at = "stream"], Idle} : Becomes(c, call)
  BY DEF Unlock, Becomes, AnswerInv, CommandTypes
<1>2. call.at \in {"idle", "stream"}
  BY DEF Idle
<1>3. caller[c].at \in Holding
  BY DEF Unlock, Holding
<1> QED
  BY <1>1, <1>2, <1>3, QuietKeeps DEF Unlock, Holding

(* What is left of the pipe after a packet has been read.                  *)
LEMMA PipeTail ==
  ASSUME NEW s \in Seq(PacketType), s # <<>>
  PROVE  /\ Head(s) = s[1] /\ 1 \in DOMAIN s
         /\ Tail(s) \in Seq(PacketType)
         /\ \A j \in DOMAIN Tail(s) : j \in Nat \ {0} /\ j + 1 \in DOMAIN s /\ Tail(s)[j] = s[j + 1]
OBVIOUS

(* Reading leaves the order and the ids of what stays.                     *)
LEMMA ReadingKeeps ==
  ASSUME AnswerInv, NEW c \in Callers, NEW call, Becomes(c, call),
         caller[c].at \in {"data", "response"}, ~NotSent(c),
         call.at \in {"response", "succeeded", "failed"},
         call.n = caller[c].n, call.id = caller[c].id,
         pipe # <<>>, pipe' = Tail(pipe), UNCHANGED <<transaction_id, lock, sent, inbox>>
  PROVE  LockHeld' /\ IdsTell' /\ InOrder'
<1> USE DEF AnswerInv, Becomes
<1>1. \A e \in Callers \ {c} : caller[e].at \notin Holding
  BY OnlyHolder DEF Holding
<1>2. /\ \A j \in DOMAIN pipe' : j + 1 \in DOMAIN pipe /\ pipe'[j] = pipe[j + 1]
  BY PipeTail DEF CommandTypes
<1>3. LockHeld'
  BY <1>1 DEF LockHeld, Holding
<1>4. IdsTell'
  BY <1>1, <1>2 DEF IdsTell, IdOf, Holding
<1>5. InOrder'
  BY <1>1, <1>2 DEF InOrder, NotSent, Holding
<1> QED
  BY <1>3, <1>4, <1>5

LEMMA ReceiveDataKeeps ==
  ASSUME AnswerInv, NEW c \in Callers, ReceiveData(c), CommandTypes'
  PROVE  AnswerInv'
<1> USE DEF AnswerInv
<1>1. caller[c] \in CallType /\ caller[c].at = "data" /\ ~NotSent(c) /\ caller[c].op \in Reads
  BY DEF CommandTypes, ReceiveData, NotSent, Reads, WritesData
<1>2. PICK call : /\ Becomes(c, call)
                  /\ call.n = caller[c].n /\ call.id = caller[c].id /\ call.op = caller[c].op
                  /\ \/ call.at = "failed"
                     \/ call.at = "response" /\ call.data = Head(pipe)
  <2>1. CASE caller' = [caller EXCEPT ![c].at = "response", ![c].data = Head(pipe)]
    <3> DEFINE call == [caller[c] EXCEPT !.at = "response", !.data = Head(pipe)]
    <3>1. Becomes(c, call)
      BY <2>1 DEF Becomes, CommandTypes
    <3>2. /\ call.n = caller[c].n /\ call.id = caller[c].id /\ call.op = caller[c].op
          /\ call.at = "response" /\ call.data = Head(pipe)
      BY <1>1 DEF CallType
    <3> QED
      BY <3>1, <3>2
  <2>2. CASE Step(c, "failed")
    <3> DEFINE call == [caller[c] EXCEPT !.at = "failed"]
    <3>1. Becomes(c, call)
      BY <2>2 DEF Step, Becomes, CommandTypes
    <3>2. /\ call.n = caller[c].n /\ call.id = caller[c].id /\ call.op = caller[c].op
          /\ call.at = "failed"
      BY <1>1 DEF CallType
    <3> QED
      BY <3>1, <3>2
  <2> QED
    BY <2>1, <2>2 DEF ReceiveData
<1>3. pipe # <<>> /\ pipe' = Tail(pipe) /\ inbox' = inbox
      /\ UNCHANGED <<transaction_id, lock, sent>>
  BY DEF ReceiveData
<1>4. LockHeld' /\ IdsTell' /\ InOrder'
  BY <1>1, <1>2, <1>3, ReadingKeeps
<1>5. \A e \in Callers \ {c} : caller[e].at \notin Holding /\ caller'[e].at \notin Holding
  BY <1>1, <1>2, OnlyHolder DEF Holding, Becomes
<1>6. Answered'
  <2> SUFFICES ASSUME call.at = "response"
               PROVE  /\ \A i \in DOMAIN inbox' : inbox'[i].of = caller'[c].n => inbox'[i].op = caller'[c].op
                      /\ DataFirst(c)'
    BY <1>2, <1>5 DEF Answered, Holding, Becomes
  <2>1. \A i \in DOMAIN inbox' : inbox'[i].of = caller'[c].n => inbox'[i].op = caller'[c].op
    BY <1>1, <1>2, <1>3 DEF Answered, Becomes
  <2>2. DataFirst(c)
    BY <1>1 DEF Answered
  <2>3. ASSUME NEW j \in DOMAIN pipe', OwnResponse(c, pipe[j])'
        PROVE  IF j = 1 THEN caller'[c].at = "response" /\ OwnData(c, caller[c].data)'
                        ELSE OwnData(c, pipe[j - 1])'
    <3>1. j \in Nat \ {0} /\ j + 1 \in DOMAIN pipe /\ pipe'[j] = pipe[j + 1]
      BY <1>3, <2>3, PipeTail DEF CommandTypes
    <3>2. OwnResponse(c, pipe[j + 1])
      BY <1>2, <2>3, <3>1 DEF OwnResponse, Becomes
    <3>3. OwnData(c, pipe[j])
      BY <1>1, <2>2, <3>1, <3>2 DEF DataFirst
    <3>4. CASE j = 1
      BY <1>2, <1>3, <3>3, <3>4, PipeTail DEF OwnData, Becomes, CommandTypes
    <3>5. CASE j # 1
      <4>1. j - 1 \in DOMAIN pipe' /\ pipe'[j - 1] = pipe[j]
        BY <1>3, <2>3, <3>1, <3>5, PipeTail DEF CommandTypes
      <4> QED
        BY <1>2, <3>3, <3>5, <4>1 DEF OwnData, Becomes
    <3> QED
      BY <3>4, <3>5
  <2> QED
    BY <2>1, <2>3 DEF DataFirst
<1>7. AnswerIsOwn'
  BY <1>2, <1>5 DEF AnswerIsOwn, Holding, Becomes
<1> QED
  BY <1>4, <1>6, <1>7

(* Two commands with one id, less than a round apart, are the same.        *)
LEMMA SameId ==
  ASSUME NEW id \in Nat, NEW n \in Nat, sent \in Nat, transaction_id \in Nat, IdModulus \in Nat,
         IdOf(id, n), IdOf(id, sent)
  PROVE  n = sent
<1>1. sent - n \in Nat /\ sent - n < IdModulus
  BY DEF IdOf
<1>2. id + (sent - n) + 1 = transaction_id \/ id + (sent - n) + 1 = transaction_id + IdModulus
  BY DEF IdOf
<1>3. id + 1 = transaction_id \/ id + 1 = transaction_id + IdModulus
  BY DEF IdOf
<1> QED
  BY <1>1, <1>2, <1>3

(* The id of the response tells its command, and a read has taken its own  *)
(* data before.                                                            *)
LEMMA ReceiveResponseKeeps ==
  ASSUME AnswerInv, NEW c \in Callers, ReceiveResponse(c), CommandTypes'
  PROVE  AnswerInv'
<1> USE DEF AnswerInv
<1>1. caller[c] \in CallType /\ caller[c].at = "response" /\ ~NotSent(c)
  BY DEF CommandTypes, ReceiveResponse, NotSent
<1>2. PICK call : /\ Becomes(c, call)
                  /\ call.n = caller[c].n /\ call.id = caller[c].id /\ call.op = caller[c].op
                  /\ call.data = caller[c].data
                  /\ \/ call.at = "failed"
                     \/ /\ call.at = "succeeded" /\ call.response = Head(pipe)
                        /\ IsResponse(c, Head(pipe))
  <2>1. CASE IsResponse(c, Head(pipe))
    <3> DEFINE call == [caller[c] EXCEPT !.at = "succeeded", !.response = Head(pipe)]
    <3>1. Becomes(c, call)
      BY <2>1 DEF ReceiveResponse, Becomes, CommandTypes
    <3>2. /\ call.n = caller[c].n /\ call.id = caller[c].id /\ call.op = caller[c].op
          /\ call.data = caller[c].data
          /\ call.at = "succeeded" /\ call.response = Head(pipe)
      BY <1>1 DEF CallType
    <3> QED
      BY <2>1, <3>1, <3>2
  <2>2. CASE ~IsResponse(c, Head(pipe))
    <3> DEFINE call == [caller[c] EXCEPT !.at = "failed"]
    <3>1. Becomes(c, call)
      BY <2>2 DEF ReceiveResponse, Step, Becomes, CommandTypes
    <3>2. /\ call.n = caller[c].n /\ call.id = caller[c].id /\ call.op = caller[c].op
          /\ call.data = caller[c].data /\ call.at = "failed"
      BY <1>1 DEF CallType
    <3> QED
      BY <3>1, <3>2
  <2> QED
    BY <2>1, <2>2
<1>3. pipe # <<>> /\ pipe' = Tail(pipe) /\ inbox' = inbox
      /\ UNCHANGED <<transaction_id, lock, sent>>
  BY DEF ReceiveResponse
<1>4. LockHeld' /\ IdsTell' /\ InOrder'
  BY <1>1, <1>2, <1>3, ReadingKeeps
<1>5. \A e \in Callers \ {c} : caller[e].at \notin Holding /\ caller'[e].at \notin Holding
  BY <1>1, <1>2, OnlyHolder DEF Holding, Becomes
<1>6. Answered'
  BY <1>2, <1>5 DEF Answered, Holding, Becomes
<1>7. AnswerIsOwn'
  <2> SUFFICES ASSUME call.at = "succeeded"
               PROVE  /\ call.response.of = call.n
                      /\ call.response.status = 0 /\ call.op \in Reads =>
                           call.data.kind = "data" /\ call.data.of = call.n
    BY <1>2, <1>5 DEF AnswerIsOwn, Succeeded, Holding, Becomes
  <2>1. /\ call.response = pipe[1] /\ 1 \in DOMAIN pipe
        /\ pipe[1].kind = "response" /\ pipe[1].id = caller[c].id /\ pipe[1] \in PacketType
    BY <1>2, <1>3, PipeTail DEF IsResponse, CommandTypes
  <2>2. IdOf(pipe[1].id, pipe[1].of) /\ IdOf(caller[c].id, caller[c].n) /\ caller[c].n = sent
    BY <1>1, <2>1 DEF IdsTell, Holding
  <2>3. pipe[1].of = caller[c].n
    <3>1. pipe[1].of \in Nat /\ pipe[1].id \in Nat
      BY <2>1 DEF PacketType
    <3>2. sent \in Nat /\ transaction_id \in Nat /\ IdModulus \in Nat
      BY CommandAssumption DEF CommandTypes
    <3> QED
      BY <2>1, <2>2, <3>1, <3>2, SameId
  <2>4. ASSUME pipe[1].status = 0, caller[c].op \in Reads PROVE OwnData(c, caller[c].data)
    BY <1>1, <2>1, <2>3, <2>4 DEF Answered, DataFirst, OwnResponse
  <2> QED
    BY <1>2, <2>1, <2>3, <2>4 DEF OwnData
<1> QED
  BY <1>4, <1>6, <1>7

(* The device takes the oldest command and appends its answer.             *)
LEMMA DeviceAnswersKeeps ==
  ASSUME AnswerInv, DeviceAnswers, CommandTypes'
  PROVE  AnswerInv'
<1> USE DEF AnswerInv
<1>1. inbox \in Seq(CommandType) /\ inbox # <<>> /\ pipe \in Seq(PacketType)
      /\ inbox' = Tail(inbox) /\ UNCHANGED <<transaction_id, lock, caller, sent>>
  BY DEF CommandTypes, DeviceAnswers
<1> DEFINE p == inbox[1]
<1>2. /\ Head(inbox) = p /\ p \in CommandType /\ 1 \in DOMAIN inbox
      /\ \A i \in DOMAIN inbox' : i + 1 \in DOMAIN inbox /\ inbox'[i] = inbox[i + 1] /\ i \in Nat \ {0}
  BY <1>1
<1>3. PICK a \in Answers(p) : pipe' = pipe \o a
  BY <1>2 DEF DeviceAnswers
<1>4. /\ a \in Seq(PacketType) /\ Len(a) \in {1, 2}
      /\ \A k \in 1 .. Len(a) : a[k].id = p.id /\ a[k].of = p.of
      /\ \A k \in 1 .. Len(a) : p.op \in Reads /\ a[k].kind = "response" /\ a[k].status = 0 =>
            k = 2 /\ a[1].kind = "data"
  BY <1>2, <1>3, AnswerTypes, SMTT(30)
<1>5. /\ DOMAIN pipe = 1 .. Len(pipe) /\ Len(pipe) \in Nat
      /\ DOMAIN pipe' = 1 .. Len(pipe) + Len(a)
      /\ \A j \in DOMAIN pipe : pipe'[j] = pipe[j]
      /\ \A j \in DOMAIN pipe' \ DOMAIN pipe : j - Len(pipe) \in 1 .. Len(a) /\ pipe'[j] = a[j - Len(pipe)]
  BY <1>1, <1>3, <1>4
<1>6. \A j \in DOMAIN pipe' \ DOMAIN pipe : pipe'[j].id = p.id /\ pipe'[j].of = p.of
  BY <1>4, <1>5
<1>7. LockHeld'
  BY <1>1 DEF LockHeld
<1>8. ASSUME NEW id, NEW n, IdOf(id, n) PROVE IdOf(id, n)'
  BY <1>1, <1>8 DEF IdOf
<1>9. IdsTell'
  <2>1. \A i \in DOMAIN inbox' : IdOf(inbox[i].id, inbox[i].of)'
    BY <1>2, <1>8 DEF IdsTell
  <2>2. \A j \in DOMAIN pipe' : IdOf(pipe[j].id, pipe[j].of)'
    BY <1>2, <1>5, <1>6, <1>8 DEF IdsTell
  <2>3. \A c \in Callers : caller'[c].at \in Holding =>
          caller'[c].n = sent' /\ IdOf(caller[c].id, caller[c].n)'
    BY <1>1, <1>8 DEF IdsTell
  <2> QED
    BY <2>1, <2>2, <2>3 DEF IdsTell
<1>10. InOrder'
  <2>1. \A i, j \in DOMAIN inbox' : i < j => inbox'[i].of < inbox'[j].of
    BY <1>2 DEF InOrder
  <2>2. \A i \in DOMAIN inbox' : p.of < inbox'[i].of
    BY <1>2 DEF InOrder
  <2>3. \A i \in DOMAIN inbox', j \in DOMAIN pipe' : pipe'[j].of < inbox'[i].of
    BY <1>2, <1>5, <1>6, <2>2 DEF InOrder
  <2>4. \A c \in Callers : NotSent(c) => \A i \in DOMAIN inbox' : inbox'[i].of < caller[c].n
    BY <1>2 DEF InOrder
  <2>5. \A c \in Callers : NotSent(c) => \A j \in DOMAIN pipe' : pipe'[j].of < caller[c].n
    BY <1>2, <1>5, <1>6 DEF InOrder
  <2> QED
    BY <1>1, <2>1, <2>3, <2>4, <2>5 DEF InOrder, NotSent
<1>11. Answered'
  <2> SUFFICES ASSUME NEW c \in Callers, caller[c].at \in {"command", "data", "response"}
               PROVE  /\ \A i \in DOMAIN inbox' : inbox'[i].of = caller[c].n => inbox'[i].op = caller[c].op
                      /\ DataFirst(c)'
    BY <1>1 DEF Answered
  <2>1. \A i \in DOMAIN inbox' : inbox'[i].of = caller[c].n => inbox'[i].op = caller[c].op
    BY <1>2 DEF Answered
  <2>2. ASSUME caller[c].op \in Reads, NEW j \in DOMAIN pipe', OwnResponse(c, pipe[j])'
        PROVE  IF j = 1 THEN caller'[c].at = "response" /\ OwnData(c, caller[c].data)'
                        ELSE OwnData(c, pipe[j - 1])'
    <3>1. CASE j \in DOMAIN pipe
      <4>1. OwnResponse(c, pipe[j])
        BY <1>1, <1>5, <2>2, <3>1 DEF OwnResponse
      <4>2. IF j = 1 THEN caller[c].at = "response" /\ OwnData(c, caller[c].data)
                     ELSE OwnData(c, pipe[j - 1])
        BY <2>2, <3>1, <4>1 DEF Answered, DataFirst
      <4>3. j # 1 => j - 1 \in DOMAIN pipe
        BY <1>5, <3>1
      <4> QED
        BY <1>1, <1>5, <4>2, <4>3 DEF OwnData
    <3>2. CASE j \notin DOMAIN pipe
      <4> DEFINE k == j - Len(pipe)
      <4>1. k \in 1 .. Len(a) /\ pipe'[j] = a[k] /\ j \in Nat
        BY <1>5, <2>2, <3>2
      <4>2. a[k].of = p.of /\ a[k].kind = "response" /\ a[k].status = 0 /\ p.of = caller[c].n
        BY <1>1, <1>4, <2>2, <4>1 DEF OwnResponse
      <4>3. p.op = caller[c].op
        BY <1>2, <4>2 DEF Answered
      <4>4. k = 2 /\ a[1].kind = "data" /\ a[1].of = p.of
        BY <1>4, <2>2, <4>1, <4>2, <4>3
      <4>5. j # 1 /\ j - 1 \in DOMAIN pipe' \ DOMAIN pipe /\ j - 1 - Len(pipe) = 1
        BY <1>5, <2>2, <4>1, <4>4
      <4>6. pipe'[j - 1] = a[1]
        BY <1>5, <4>5
      <4> QED
        BY <1>1, <4>2, <4>4, <4>5, <4>6 DEF OwnData
    <3> QED
      BY <3>1, <3>2
  <2> QED
    BY <1>1, <2>1, <2>2 DEF DataFirst
<1>12. AnswerIsOwn'
  BY <1>1 DEF AnswerIsOwn, Succeeded
<1> QED
  BY <1>7, <1>9, <1>10, <1>11, <1>12

(* usb_cmd_destroy waits for the lock; the new handle finds empty pipes.   *)
LEMMA DestroyReleasesKeeps ==
  ASSUME AnswerInv, DestroyReleases, CommandTypes'
  PROVE  AnswerInv'
<1>1. \A c \in Callers : caller'[c].at \notin Holding
  BY CommandAssumption DEF AnswerInv, LockHeld, DestroyReleases, WaitsForLock
<1>2. /\ lock' = NoCaller /\ inbox' = <<>> /\ pipe' = <<>>
  BY DEF DestroyReleases, WaitsForLock
<1> QED
  BY <1>1, <1>2, CommandAssumption
     DEF AnswerInv, LockHeld, IdsTell, InOrder, NotSent, Answered, AnswerIsOwn, Holding

LEMMA AnswerStep == AnswerInv /\ [Next]_vars => AnswerInv'
<1> SUFFICES ASSUME AnswerInv, [Next]_vars PROVE AnswerInv'
  OBVIOUS
<1>1. CommandTypes'
  BY TypesStep DEF AnswerInv
<1>2. CASE UNCHANGED <<transaction_id, lock, caller, sent, inbox, pipe>>
  BY <1>1, <1>2 DEF AnswerInv, LockHeld, IdsTell, IdOf, InOrder, NotSent, Answered, DataFirst,
     OwnResponse, OwnData, AnswerIsOwn, Succeeded
<1>3. CASE UNCHANGED commandVars
  BY <1>2, <1>3 DEF commandVars
<1>4. CASE Destroy
  BY <1>2, <1>4 DEF Destroy
<1> QED
  BY <1>1, <1>3, <1>4, CallKeeps, StreamStartKeeps, LockAndNumberKeeps, TransfersKeep,
     ReceiveDataKeeps, ReceiveResponseKeeps, UnlockKeeps, DeviceAnswersKeeps,
     DestroyReleasesKeeps DEF Next, vars

LEMMA AnswerInvariant == Spec => []AnswerInv
<1>1. Init => AnswerInv
  <2> SUFFICES ASSUME Init PROVE AnswerInv
    OBVIOUS
  <2>1. Idle \in CallType /\ Idle.at = "idle"
    BY DEF Idle, Nothing, CallType, PacketType, Holding
  <2>2. CommandTypes
    <3>1. 0 \in 0 .. IdModulus - 1
      BY CommandAssumption
    <3>2. caller \in [Callers -> CallType]
      BY <2>1 DEF Init
    <3>3. inbox \in Seq(CommandType) /\ pipe \in Seq(PacketType)
      BY DEF Init
    <3>4. sent \in Nat /\ stream_going \in BOOLEAN /\ imu \in BOOLEAN /\ attached \in BOOLEAN
      BY DEF Init
    <3> QED
      BY <3>1, <3>2, <3>3, <3>4 DEF Init, CommandTypes
  <2>3. \A c \in Callers : caller[c].at = "idle"
    BY <2>1 DEF Init
  <2> QED
    BY <2>2, <2>3, CommandAssumption
       DEF Init, AnswerInv, LockHeld, IdsTell, InOrder, NotSent, Answered, AnswerIsOwn, Holding
<1> QED
  BY <1>1, AnswerStep, PTL DEF Spec

(* A transaction that succeeded has the response to its own command, and a *)
(* read its own data, whatever transactions that timed out have left in    *)
(* the pipe: for any number of callers, any capacity of the pipes, and     *)
(* across any number of wrap-arounds of the id.                            *)
THEOREM AnswersAreOwn == Spec => []AnswerIsOwn
<1>1. AnswerInv => AnswerIsOwn
  BY DEF AnswerInv
<1> QED
  BY <1>1, AnswerInvariant, PTL

-----------------------------------------------------------------------------
(* The handle outlives the commands.                                       *)

Present ==
  \A c \in Callers :
    /\ caller[c].at \in Holding => stage \in {"ready", "waiting"}
    /\ caller[c].at \in {"begin", "stream"} => stage = "ready"

OneController ==
  /\ \A c \in Callers : caller[c].op \in Imu => c = Controller
  /\ \A c \in Callers : caller[c].at = "stream" => c = Controller
  /\ \A c \in Callers : caller[c].at \in {"idle", "stream"} => caller[c].op = "none"
  /\ stage = "waiting" => caller[Controller].at = "idle" /\ ~stream_going

UseInv == Present /\ OneController

(* The steps inside a call, by what they do to the caller.                 *)
LEMMA TransactionStep ==
  ASSUME CommandTypes, NEW c \in Callers,
         \/ LockAndNumber(c) \/ SendCommand(c) \/ SendData(c) \/ ReceiveData(c)
         \/ ReceiveResponse(c) \/ TransferFails(c)
  PROVE  /\ caller'[c].at \in Holding /\ caller'[c].op = caller[c].op
         /\ caller[c].at \in Holding \cup {"begin"}
         /\ \A e \in Callers \ {c} : caller'[e] = caller[e]
         /\ UNCHANGED <<stage, stream_going, imu, attached>>
<1>1. caller[c] \in CallType
  BY DEF CommandTypes
<1>2. ASSUME NEW at \in Holding, Step(c, at)
      PROVE  /\ caller'[c].at \in Holding /\ caller'[c].op = caller[c].op
             /\ \A e \in Callers \ {c} : caller'[e] = caller[e]
  BY <1>1, <1>2 DEF Step, CommandTypes, CallType
<1>3. UNCHANGED <<stage, stream_going, imu, attached>>
  BY DEF LockAndNumber, SendCommand, SendData, ReceiveData, ReceiveResponse, TransferFails,
         deviceVars
<1>4. CASE LockAndNumber(c)
  BY <1>1, <1>3, <1>4 DEF LockAndNumber, CommandTypes, CallType, Holding
<1>5. CASE SendCommand(c) \/ SendData(c) \/ TransferFails(c)
  <2>1. PICK at \in Holding : Step(c, at)
    BY <1>5 DEF SendCommand, SendData, TransferFails, Holding
  <2> QED
    BY <1>2, <1>3, <1>5, <2>1 DEF SendCommand, SendData, TransferFails, Holding
<1>6. CASE ReceiveData(c)
  <2>1. CASE Step(c, "failed")
    BY <1>2, <1>3, <1>6, <2>1 DEF ReceiveData, Holding
  <2>2. CASE caller' = [caller EXCEPT ![c].at = "response", ![c].data = Head(pipe)]
    BY <1>1, <1>3, <1>6, <2>2 DEF ReceiveData, CommandTypes, CallType, Holding
  <2> QED
    BY <1>6, <2>1, <2>2 DEF ReceiveData
<1>7. CASE ReceiveResponse(c)
  <2>1. CASE Step(c, "failed")
    BY <1>2, <1>3, <1>7, <2>1 DEF ReceiveResponse, Holding
  <2>2. CASE caller' = [caller EXCEPT ![c].at = "succeeded", ![c].response = Head(pipe)]
    BY <1>1, <1>3, <1>7, <2>2 DEF ReceiveResponse, CommandTypes, CallType, Holding
  <2> QED
    BY <1>7, <2>1, <2>2 DEF ReceiveResponse
<1> QED
  BY <1>4, <1>5, <1>6, <1>7

LEMMA CallEffect ==
  ASSUME CommandTypes, NEW c \in Callers, NEW op \in Reads \cup Writes \cup WritesData, Call(c, op)
  PROVE  /\ caller[c].at = "idle" /\ caller'[c].at = "begin" /\ caller'[c].op = op
         /\ \A e \in Callers \ {c} : caller'[e] = caller[e]
         /\ stage = "ready" /\ UNCHANGED <<stage, imu, attached, inbox, pipe>>
         /\ op \in Imu => c = Controller
         /\ stream_going' = (IF op = "imu_stop_streaming" THEN FALSE ELSE stream_going)
BY DEF CommandTypes, Call, Idle, deviceVars

LEMMA UnlockEffect ==
  ASSUME CommandTypes, NEW c \in Callers, Unlock(c)
  PROVE  /\ caller[c].at \in {"succeeded", "failed"}
         /\ caller'[c].at \in {"idle", "stream"} /\ caller'[c].op = "none"
         /\ caller'[c].at = "stream" => Succeeded(c) /\ caller[c].op = "imu_start_streaming"
         /\ \A e \in Callers \ {c} : caller'[e] = caller[e]
         /\ UNCHANGED <<stage, stream_going, imu, attached, inbox, pipe>>
BY DEF CommandTypes, Unlock, Idle, deviceVars

LEMMA StreamStartEffect ==
  ASSUME CommandTypes, NEW c \in Callers, StreamStart(c)
  PROVE  /\ caller[c].at = "stream"
         /\ caller'[c].at = "idle" /\ caller'[c].op = caller[c].op
         /\ \A e \in Callers \ {c} : caller'[e] = caller[e]
         /\ UNCHANGED <<stage, imu, attached, inbox, pipe>>
<1>1. caller[c] \in CallType
  BY DEF CommandTypes
<1> QED
  BY <1>1 DEF CommandTypes, CallType, StreamStart, Step, deviceVars

LEMMA UseStep ==
  ASSUME AnswerInv, UseInv, [Next]_vars
  PROVE  UseInv'
<1> USE DEF UseInv, Present, OneController
<1>1. CommandTypes /\ Controller \in Callers
  BY CommandAssumption DEF AnswerInv
<1>2. CASE UNCHANGED vars
  BY <1>2 DEF vars, deviceVars, commandVars
<1>3. CASE DeviceNext /\ UNCHANGED commandVars
  <2>1. stage \notin {"ready", "waiting"} /\ stage' # "waiting"
    BY <1>3 DEF DeviceNext, colormcu_create, colormcu_create_by_index, Create, FindBegins,
       MoreDevices, FindSkips, FindRejects, FindAccepts, FindEnds, Claim, ConfigureFails,
       CreateFails, Release, CountDevices
  <2> QED
    BY <1>3, <2>1 DEF commandVars
<1>4. ASSUME NEW c \in Callers, NEW op \in Reads \cup Writes \cup WritesData, Call(c, op)
      PROVE  UseInv'
  <2>1. /\ caller'[c].at = "begin" /\ caller'[c].op = op /\ (op \in Imu => c = Controller)
        /\ \A e \in Callers \ {c} : caller'[e] = caller[e]
        /\ stage = "ready" /\ stage' = "ready"
    BY <1>1, <1>4, CallEffect
  <2> QED
    BY <2>1 DEF Holding
<1>5. ASSUME NEW c \in Callers,
             \/ LockAndNumber(c) \/ SendCommand(c) \/ SendData(c) \/ ReceiveData(c)
             \/ ReceiveResponse(c) \/ TransferFails(c)
      PROVE  UseInv'
  BY <1>1, <1>5, TransactionStep DEF Holding
<1>6. ASSUME NEW c \in Callers, Unlock(c) PROVE UseInv'
  <2>1. caller'[c].at = "stream" => c = Controller /\ stage = "ready"
    BY <1>1, <1>6, UnlockEffect DEF Imu, Holding
  <2> QED
    BY <1>1, <1>6, <2>1, UnlockEffect DEF Holding, Imu
<1>7. ASSUME NEW c \in Callers, StreamStart(c) PROVE UseInv'
  BY <1>1, <1>7, StreamStartEffect DEF Holding
<1>8. CASE DeviceAnswers
  BY <1>8 DEF DeviceAnswers, deviceVars
<1>9. CASE Destroy
  BY <1>1, <1>9, CommandAssumption DEF Destroy, Holding
<1>10. CASE DestroyReleases
  <2>1. \A c \in Callers : caller[c].at \notin Holding
    BY <1>10, CommandAssumption DEF DestroyReleases, WaitsForLock, AnswerInv, LockHeld
  <2>2. stage = "waiting" /\ stage' = "none" /\ UNCHANGED <<caller, stream_going>>
    BY <1>10 DEF DestroyReleases, Release
  <2> QED
    BY <2>1, <2>2
<1> QED
  BY <1>2, <1>3, <1>4, <1>5, <1>6, <1>7, <1>8, <1>9, <1>10 DEF Next

LEMMA UseInvariant == Spec => []UseInv
<1>1. Init => UseInv
  BY DEF Init, DeviceInit, UseInv, Present, OneController, Idle, Holding, Imu
<1>2. AnswerInv /\ UseInv /\ [Next]_vars => UseInv'
  BY UseStep
<1> QED
  BY <1>1, <1>2, AnswerInvariant, PTL DEF Spec

(* "Wait for any outstanding commands to process" in usb_cmd_destroy: the  *)
(* device is not closed, and the lock not freed, under a transaction of    *)
(* another thread, wherever between its transfers that thread is.          *)
THEOREM DeviceStays == Spec => []DeviceOutlivesCommands
<1>1. UseInv => DeviceOutlivesCommands
  BY DEF UseInv, Present, DeviceOutlivesCommands, Holding
<1> QED
  BY <1>1, UseInvariant, PTL

-----------------------------------------------------------------------------
(* The IMU: when the START has been answered, no STOP is on its way.       *)

NoStop == \A i \in DOMAIN inbox : inbox[i].op # "imu_stop_streaming"
ImuOn == attached => imu

Starts(c) == caller[c].op = "imu_start_streaming"

(* The response to a START is the last thing the device has done.          *)
StartAnswered(c) ==
  \/ /\ caller[c].at \in {"command", "data", "response"}
     /\ \E j \in DOMAIN pipe : OwnResponse(c, pipe[j])
  \/ Succeeded(c)

ImuInv ==
  /\ stream_going => NoStop /\ ImuOn /\ caller[Controller].op # "imu_stop_streaming"
  /\ caller[Controller].at = "stream" => NoStop /\ ImuOn
  /\ \A c \in Callers : Starts(c) /\ StartAnswered(c) => inbox = <<>> /\ ImuOn

(* What a step of a transaction adds to the inbox is its own command; and  *)
(* only a response that it reads makes it succeed.                         *)
LEMMA TransactionIo ==
  ASSUME AnswerInv, AnswerInv', NEW c \in Callers,
         \/ LockAndNumber(c) \/ SendCommand(c) \/ SendData(c) \/ ReceiveData(c)
         \/ ReceiveResponse(c) \/ TransferFails(c)
  PROVE  /\ \/ inbox' = inbox
            \/ inbox' = Append(inbox, Packet(c)) /\ NotSent(c)
         /\ Starts(c) /\ StartAnswered(c)' => StartAnswered(c) /\ inbox' = inbox
<1> USE DEF AnswerInv
<1>1. caller[c] \in CallType /\ pipe \in Seq(PacketType)
  BY DEF CommandTypes
<1>2. ASSUME NEW at, Step(c, at)
      PROVE  caller'[c].at = at /\ caller'[c].n = caller[c].n
  BY <1>1, <1>2 DEF Step, CommandTypes, CallType
<1>3. ASSUME NotSent(c), caller'[c].n = caller[c].n, pipe' = pipe
      PROVE  \A j \in DOMAIN pipe' : ~OwnResponse(c, pipe[j])'
  <2>1. \A j \in DOMAIN pipe : pipe[j].of \in Nat
    <3>1. \A j \in DOMAIN pipe : pipe[j] \in PacketType
      BY <1>1
    <3> QED
      BY <3>1 DEF PacketType
  <2>2. \A j \in DOMAIN pipe : pipe[j].of < caller[c].n /\ caller[c].n \in Nat
    BY <1>1, <1>3 DEF InOrder, CallType
  <2> QED
    BY <1>3, <2>1, <2>2 DEF OwnResponse
<1>4. CASE LockAndNumber(c)
  <2>1. caller'[c].at = "command" /\ inbox' = inbox
    BY <1>1, <1>4 DEF LockAndNumber, CommandTypes, CallType
  <2>2. \A j \in DOMAIN pipe' : ~OwnResponse(c, pipe[j])'
    <3>1. \A j \in DOMAIN pipe' : pipe'[j].of < caller'[c].n
      BY <2>1 DEF InOrder, NotSent
    <3>2. \A j \in DOMAIN pipe' : pipe'[j] \in PacketType
      BY DEF CommandTypes
    <3>3. \A j \in DOMAIN pipe' : pipe'[j].of \in Nat
      BY <3>2 DEF PacketType
    <3>4. caller'[c].n \in Nat
      BY DEF CommandTypes, CallType
    <3> QED
      BY <3>1, <3>3, <3>4 DEF OwnResponse
  <2> QED
    BY <2>1, <2>2 DEF StartAnswered, Succeeded
<1>5. CASE SendCommand(c)
  <2>1. PICK at \in {"data", "response"} : Step(c, at)
    BY <1>5 DEF SendCommand
  <2>2. NotSent(c) /\ pipe' = pipe
    BY <1>5 DEF SendCommand, NotSent
  <2>3. ~StartAnswered(c)'
    BY <1>2, <1>3, <2>1, <2>2 DEF StartAnswered, Succeeded
  <2> QED
    BY <1>5, <2>2, <2>3 DEF SendCommand
<1>6. CASE SendData(c)
  <2>1. ~Starts(c)
    BY <1>6 DEF SendData, Starts, WritesData
  <2> QED
    BY <1>6, <2>1 DEF SendData, NotSent
<1>7. CASE ReceiveData(c)
  <2>1. ~Starts(c)
    BY <1>7 DEF ReceiveData, Starts, Reads
  <2> QED
    BY <1>7, <2>1 DEF ReceiveData
<1>8. CASE TransferFails(c)
  <2>1. ~StartAnswered(c)'
    BY <1>2, <1>8 DEF TransferFails, StartAnswered, Succeeded
  <2> QED
    BY <1>8, <2>1 DEF TransferFails, NotSent
<1>9. CASE ReceiveResponse(c)
  <2>1. inbox' = inbox /\ pipe # <<>>
    BY <1>9 DEF ReceiveResponse
  <2>2. Step(c, "failed") => ~StartAnswered(c)'
    BY <1>2 DEF StartAnswered, Succeeded
  <2>3. ASSUME IsResponse(c, Head(pipe)), StartAnswered(c)' PROVE StartAnswered(c)
    <3>1. /\ caller'[c].at = "succeeded" /\ caller'[c].response = pipe[1]
          /\ caller'[c].n = caller[c].n /\ 1 \in DOMAIN pipe /\ pipe[1].kind = "response"
      BY <1>1, <1>9, <2>1, <2>3, PipeTail DEF ReceiveResponse, IsResponse, CommandTypes, CallType
    <3>2. pipe[1].of = caller[c].n
      BY <3>1 DEF AnswerIsOwn
    <3>3. pipe[1].status = 0
      BY <2>3, <3>1 DEF StartAnswered, Succeeded
    <3> QED
      BY <1>9, <3>1, <3>2, <3>3 DEF StartAnswered, OwnResponse, ReceiveResponse
  <2> QED
    BY <1>9, <2>1, <2>2, <2>3 DEF ReceiveResponse
<1> QED
  BY <1>4, <1>5, <1>6, <1>7, <1>8, <1>9

(* A device that answers a START is left with an empty inbox and the IMU   *)
(* on; no other answer turns the IMU off unless the device resets itself.  *)
LEMMA ImuAnswers ==
  ASSUME AnswerInv, ImuInv, DeviceAnswers
  PROVE  ImuInv'
<1> USE DEF AnswerInv, ImuInv
<1>1. inbox \in Seq(CommandType) /\ inbox # <<>> /\ pipe \in Seq(PacketType)
      /\ inbox' = Tail(inbox) /\ attached /\ UNCHANGED <<lock, caller, sent, stream_going>>
  BY DEF CommandTypes, DeviceAnswers
<1> DEFINE p == inbox[1]
<1>2. /\ Head(inbox) = p /\ p \in CommandType /\ 1 \in DOMAIN inbox
      /\ \A i \in DOMAIN inbox' : i + 1 \in DOMAIN inbox /\ inbox'[i] = inbox[i + 1] /\ i \in Nat \ {0}
  BY <1>1
<1>3. PICK a \in Answers(p) :
        /\ pipe' = pipe \o a
        /\ imu' = (IF a[Len(a)].status = 0 /\ p.op \in Imu \cup {Reset}
                   THEN p.op = "imu_start_streaming" ELSE imu)
        /\ attached' = ~(a[Len(a)].status = 0 /\ p.op = Reset)
  BY <1>2 DEF DeviceAnswers
<1>4. ASSUME NoStop, ImuOn PROVE NoStop' /\ ImuOn'
  <2>1. NoStop'
    BY <1>2, <1>4 DEF NoStop
  <2>2. p.op # "imu_stop_streaming"
    BY <1>2, <1>4 DEF NoStop
  <2>3. imu = TRUE
    BY <1>1, <1>4 DEF ImuOn, CommandTypes
  <2>4. attached' => imu'
    BY <1>3, <2>2, <2>3 DEF Imu
  <2> QED
    BY <2>1, <2>4 DEF ImuOn
<1>5. ASSUME NEW c \in Callers, Starts(c)', StartAnswered(c)' PROVE inbox' = <<>> /\ ImuOn'
  <2>1. Starts(c) /\ ~StartAnswered(c)
    BY <1>1, <1>5 DEF Starts
  <2>2. PICK j \in DOMAIN pipe' :
          caller[c].at \in {"command", "data", "response"} /\ OwnResponse(c, pipe[j])'
    BY <1>1, <1>5, <2>1 DEF StartAnswered, Succeeded
  <2>3. pipe'[j].of = caller[c].n /\ pipe'[j].kind = "response" /\ pipe'[j].status = 0
    BY <1>1, <2>2 DEF OwnResponse
  <2>4. a \in Seq(PacketType) /\ Len(a) \in {1, 2}
    BY <1>2, <1>3, AnswerTypes
  <2>5. j \in Nat /\ j > Len(pipe) /\ j - Len(pipe) \in 1 .. Len(a) /\ pipe'[j] = a[j - Len(pipe)]
    <3>1. CASE j \in DOMAIN pipe
      <4>1. pipe'[j] = pipe[j]
        BY <1>1, <1>3, <2>4, <3>1
      <4> QED
        BY <2>1, <2>2, <2>3, <3>1, <4>1 DEF StartAnswered, OwnResponse
    <3>2. CASE j \notin DOMAIN pipe
      BY <1>1, <1>3, <2>2, <2>4, <3>2
    <3> QED
      BY <3>1, <3>2
  <2>6. p.of = caller[c].n
    <3>1. \A k \in 1 .. Len(a) : a[k].of = p.of
      BY <1>2, <1>3, AnswerTypes
    <3> QED
      BY <2>3, <2>5, <3>1
  <2>7. p.op = "imu_start_streaming"
    BY <1>2, <2>1, <2>2, <2>6 DEF Answered, Starts
  <2>8. a[Len(a)].status = 0
    <3>1. Len(a) = 1
      BY <1>2, <1>3, <2>7, AnswerTypes DEF Reads
    <3> QED
      BY <2>3, <2>5, <3>1
  <2>9. ImuOn'
    BY <1>3, <2>7, <2>8 DEF ImuOn, Imu
  <2>10. inbox' = <<>>
    <3> SUFFICES ASSUME inbox' # <<>> PROVE FALSE
      OBVIOUS
    <3>1. 2 \in DOMAIN inbox
      BY <1>1
    <3>2. inbox[1].of < inbox[2].of
      BY <1>2, <3>1 DEF InOrder
    <3>3. inbox[2].of <= sent /\ caller[c].n = sent
      BY <2>2, <3>1 DEF IdsTell, IdOf, Holding
    <3>4. inbox[1] \in CommandType /\ inbox[2] \in CommandType
      BY <1>1, <1>2, <3>1
    <3>5. inbox[1].of \in Nat /\ inbox[2].of \in Nat /\ sent \in Nat
      BY <3>4 DEF CommandType, CommandTypes
    <3> QED
      BY <2>6, <3>2, <3>3, <3>5
  <2> QED
    BY <2>9, <2>10
<1> QED
  BY <1>1, <1>4, <1>5

LEMMA ImuStep ==
  ASSUME AnswerInv, AnswerInv', UseInv, ImuInv, [Next]_vars
  PROVE  ImuInv'
<1>1. CommandTypes /\ Controller \in Callers
  BY CommandAssumption DEF AnswerInv
<1>2. CASE UNCHANGED <<stream_going, caller, inbox, pipe, imu, attached>>
  BY <1>2 DEF ImuInv, NoStop, ImuOn, Starts, StartAnswered, Succeeded, OwnResponse
<1>3. CASE DeviceNext /\ UNCHANGED commandVars
  BY <1>2, <1>3 DEF commandVars
<1>4. ASSUME NEW c \in Callers, UNCHANGED <<caller[c], inbox, pipe, imu, attached>>,
             Starts(c)', StartAnswered(c)'
      PROVE  inbox' = <<>> /\ ImuOn'
  BY <1>4 DEF ImuInv, ImuOn, Starts, StartAnswered, Succeeded, OwnResponse
<1>5. ASSUME NEW c \in Callers, NEW op \in Reads \cup Writes \cup WritesData, Call(c, op)
      PROVE  ImuInv'
  <2>1. /\ caller[c].at = "idle" /\ caller'[c].at = "begin" /\ caller'[c].op = op
        /\ \A e \in Callers \ {c} : caller'[e] = caller[e]
        /\ UNCHANGED <<imu, attached, inbox, pipe>>
        /\ op \in Imu => c = Controller
        /\ stream_going' = (IF op = "imu_stop_streaming" THEN FALSE ELSE stream_going)
    BY <1>1, <1>5, CallEffect
  <2>2. ~StartAnswered(c)'
    BY <2>1 DEF StartAnswered, Succeeded
  <2>3. \A e \in Callers : Starts(e)' /\ StartAnswered(e)' => inbox' = <<>> /\ ImuOn'
    BY <1>4, <2>1, <2>2
  <2>4. caller'[Controller].at = "stream" => NoStop' /\ ImuOn'
    BY <1>1, <2>1 DEF ImuInv, NoStop, ImuOn
  <2>5. stream_going' => NoStop' /\ ImuOn' /\ caller'[Controller].op # "imu_stop_streaming"
    BY <1>1, <2>1 DEF ImuInv, NoStop, ImuOn
  <2> QED
    BY <2>3, <2>4, <2>5 DEF ImuInv
<1>6. ASSUME NEW c \in Callers,
             \/ LockAndNumber(c) \/ SendCommand(c) \/ SendData(c) \/ ReceiveData(c)
             \/ ReceiveResponse(c) \/ TransferFails(c)
      PROVE  ImuInv'
  <2>1. /\ caller'[c].at \in Holding /\ caller'[c].op = caller[c].op
        /\ caller[c].at \in Holding \cup {"begin"}
        /\ \A e \in Callers \ {c} : caller'[e] = caller[e]
        /\ UNCHANGED <<stream_going, imu, attached>>
    BY <1>1, <1>6, TransactionStep
  <2>2. /\ \/ inbox' = inbox
           \/ inbox' = Append(inbox, Packet(c)) /\ NotSent(c)
        /\ Starts(c) /\ StartAnswered(c)' => StartAnswered(c) /\ inbox' = inbox
    BY <1>6, TransactionIo
  <2>3. \A e \in Callers \ {c} : ~StartAnswered(e)'
    <3>1. caller'[c].at \in Holding /\ \A e \in Callers \ {c} : caller'[e].at \notin Holding
      BY <2>1 DEF AnswerInv, LockHeld
    <3> QED
      BY <3>1 DEF StartAnswered, Succeeded, Holding
  <2>4. \A e \in Callers : Starts(e)' /\ StartAnswered(e)' => inbox' = <<>> /\ ImuOn'
    BY <2>1, <2>2, <2>3 DEF ImuInv, Starts, ImuOn
  <2>5. ASSUME NoStop, caller[c].op # "imu_stop_streaming" PROVE NoStop'
    <3>1. inbox \in Seq(CommandType) /\ Packet(c).op = caller[c].op
      BY <1>1 DEF CommandTypes, Packet
    <3> QED
      BY <2>2, <2>5, <3>1 DEF NoStop
  <2>6. caller[c].op = "imu_stop_streaming" => c = Controller
    BY DEF UseInv, OneController, Imu
  <2>7. caller'[Controller].at = "stream" => NoStop' /\ ImuOn'
    <3> SUFFICES ASSUME caller'[Controller].at = "stream" PROVE NoStop' /\ ImuOn'
      OBVIOUS
    <3>1. c # Controller /\ caller[Controller].at = "stream"
      BY <1>1, <2>1 DEF Holding
    <3> QED
      BY <2>1, <2>5, <2>6, <3>1 DEF ImuInv, ImuOn
  <2>8. stream_going' => NoStop' /\ ImuOn' /\ caller'[Controller].op # "imu_stop_streaming"
    BY <1>1, <2>1, <2>5, <2>6 DEF ImuInv, ImuOn
  <2> QED
    BY <2>4, <2>7, <2>8 DEF ImuInv
<1>7. ASSUME NEW c \in Callers, Unlock(c) PROVE ImuInv'
  <2>1. /\ caller[c].at \in {"succeeded", "failed"}
        /\ caller'[c].at \in {"idle", "stream"} /\ caller'[c].op = "none"
        /\ caller'[c].at = "stream" => Succeeded(c) /\ caller[c].op = "imu_start_streaming"
        /\ \A e \in Callers \ {c} : caller'[e] = caller[e]
        /\ UNCHANGED <<stream_going, imu, attached, inbox, pipe>>
    BY <1>1, <1>7, UnlockEffect
  <2>2. ~Starts(c)'
    BY <2>1 DEF Starts
  <2>3. \A e \in Callers : Starts(e)' /\ StartAnswered(e)' => inbox' = <<>> /\ ImuOn'
    BY <1>4, <2>1, <2>2
  <2>4. caller'[c].at = "stream" => NoStop' /\ ImuOn'
    <3> SUFFICES ASSUME caller'[c].at = "stream" PROVE NoStop' /\ ImuOn'
      OBVIOUS
    <3>1. Starts(c) /\ StartAnswered(c)
      BY <2>1 DEF Starts, StartAnswered
    <3> QED
      BY <2>1, <3>1 DEF ImuInv, NoStop, ImuOn
  <2>5. caller'[Controller].at = "stream" => NoStop' /\ ImuOn'
    BY <1>1, <2>1, <2>4 DEF ImuInv, NoStop, ImuOn
  <2>6. stream_going' => NoStop' /\ ImuOn' /\ caller'[Controller].op # "imu_stop_streaming"
    BY <1>1, <2>1 DEF ImuInv, NoStop, ImuOn
  <2> QED
    BY <2>3, <2>5, <2>6 DEF ImuInv
<1>8. ASSUME NEW c \in Callers, StreamStart(c) PROVE ImuInv'
  <2>1. /\ caller[c].at = "stream"
        /\ caller'[c].at = "idle" /\ caller'[c].op = caller[c].op
        /\ \A e \in Callers \ {c} : caller'[e] = caller[e]
        /\ UNCHANGED <<imu, attached, inbox, pipe>>
    BY <1>1, <1>8, StreamStartEffect
  <2>2. c = Controller /\ caller[c].op = "none"
    BY <2>1 DEF UseInv, OneController
  <2>3. \A e \in Callers : Starts(e)' /\ StartAnswered(e)' => inbox' = <<>> /\ ImuOn'
    BY <1>4, <2>1, <2>2 DEF Starts
  <2> QED
    BY <2>1, <2>2, <2>3 DEF ImuInv, NoStop, ImuOn
<1>9. CASE DeviceAnswers
  BY <1>9, ImuAnswers
<1>10. CASE Destroy
  <2>1. stream_going' = FALSE /\ UNCHANGED <<caller, inbox, pipe, imu, attached>>
    BY <1>10 DEF Destroy
  <2> QED
    BY <2>1 DEF ImuInv, NoStop, ImuOn, Starts, StartAnswered, Succeeded, OwnResponse
<1>11. CASE DestroyReleases
  <2>1. \A c \in Callers : caller'[c].at \notin Holding
    BY <1>11, CommandAssumption DEF DestroyReleases, WaitsForLock, AnswerInv, LockHeld
  <2>2. caller'[Controller].at = "idle" /\ ~stream_going'
    BY <1>11 DEF DestroyReleases, Release, UseInv, OneController
  <2> QED
    BY <2>1, <2>2 DEF ImuInv, StartAnswered, Succeeded, Holding
<1> QED
  BY <1>2, <1>3, <1>5, <1>6, <1>7, <1>8, <1>9, <1>10, <1>11 DEF Next, vars, commandVars

(* The host expects IMU data only while the IMU streams: a STOP that timed *)
(* out never takes effect after the START that followed it, because the    *)
(* answer to the START is behind it, and the answer is its own.            *)
THEOREM ImuFollowsHost == Spec => []StreamingMeansImuOn
<1>1. Init => ImuInv
  <2> SUFFICES ASSUME Init PROVE ImuInv
    OBVIOUS
  <2>1. \A c \in Callers : caller[c].at = "idle" /\ caller[c].op = "none"
    BY DEF Init, Idle
  <2> QED
    BY <2>1, CommandAssumption DEF Init, ImuInv, Starts
<1>2. AnswerInv /\ AnswerInv' /\ UseInv /\ ImuInv /\ [Next]_vars => ImuInv'
  BY ImuStep
<1>3. ImuInv => StreamingMeansImuOn
  BY DEF ImuInv, ImuOn, StreamingMeansImuOn
<1> QED
  BY <1>1, <1>2, <1>3, AnswerInvariant, UseInvariant, PTL DEF Spec

-----------------------------------------------------------------------------
(* usb_cmd_create opens the device it was asked for or leaves nothing.     *)

Requests == {ById(id) : id \in WantedIds} \cup {ByIndex(i) : i \in Indexes \cup {0}}

DeviceTypes ==
  /\ stage \in {"none", "init", "find", "configure", "undo", "ready", "waiting"}
  /\ usbcmd \in [lock : BOOLEAN, context : BOOLEAN, libusb : Nat]
  /\ search \in [bus : Buses \cup {<<>>}, request : Requests, loop : Nat,
                 list_index : Nat, unread : SUBSET Nat]
  /\ lib \in [contexts : SUBSET {"handle", "count"}, lists : SUBSET {"handle", "count"},
              open : SUBSET Nat, claimed : BOOLEAN]

(* What libusb has given out is what the context will give back: this is   *)
(* so at every step of usb_cmd_create, not only when it has failed.        *)
HeldIsKnown ==
  /\ lib.open = IF usbcmd.libusb = None THEN {} ELSE {usbcmd.libusb}
  /\ lib.claimed => usbcmd.libusb # None
  /\ "handle" \in lib.contexts <=> usbcmd.context
  /\ "handle" \in lib.lists <=> stage = "find"
  /\ stage \in {"none", "init"} => ~usbcmd.context /\ usbcmd.libusb = None
  /\ stage = "configure" => usbcmd.libusb # None

Asked(i) ==
  /\ search.bus[i].ours
  /\ IF search.request.by = "id"
     THEN populate_container_id(search.bus[i]) = search.request.id
     ELSE Ours(search.bus, i) = search.request.index + 1

(* list_index counts the devices of ours that were passed.                 *)
Counted ==
  /\ search.loop <= Len(search.bus)
  /\ search.unread \subseteq 1 .. search.loop
  /\ stage = "init" => search.loop = 0
  /\ stage \in {"init", "find"} => search.list_index = Ours(search.bus, search.loop)
  /\ stage \in {"find", "configure"} /\ usbcmd.libusb # None => Asked(usbcmd.libusb)

CreateInv == DeviceTypes /\ HeldIsKnown /\ Counted

Passed(bus, unread, i) == {j \in (1 .. i) \ unread : bus[j].ours}

LEMMA PassedOneMore ==
  ASSUME NEW bus, NEW k \in Nat, NEW unread \in SUBSET (1 .. k)
  PROVE  /\ Cardinality(Passed(bus, unread, k)) \in 0 .. k
         /\ Cardinality(Passed(bus, unread, k + 1)) =
              Cardinality(Passed(bus, unread, k)) + (IF bus[k + 1].ours THEN 1 ELSE 0)
         /\ Passed(bus, unread \cup {k + 1}, k + 1) = Passed(bus, unread, k)
<1> DEFINE P == Passed(bus, unread, k)
<1>1. P \subseteq 1 .. k /\ k + 1 \notin P
  BY DEF Passed
<1>2. IsFiniteSet(1 .. k) /\ Cardinality(1 .. k) = k
  BY FS_Interval
<1>3. IsFiniteSet(P) /\ Cardinality(P) <= k /\ Cardinality(P) \in Nat
  BY <1>1, <1>2, FS_Subset, FS_CardinalityType
<1>4. Passed(bus, unread, k + 1) = IF bus[k + 1].ours THEN P \cup {k + 1} ELSE P
  BY DEF Passed
<1>5. Passed(bus, unread \cup {k + 1}, k + 1) = P
  BY DEF Passed
<1>6. Cardinality(P \cup {k + 1}) = Cardinality(P) + 1
  BY <1>1, <1>3, FS_AddElement
<1> QED
  BY <1>3, <1>4, <1>5, <1>6

(* list_index does not wrap around, so it tells how many were passed.      *)
LEMMA IndexCounts ==
  ASSUME CreateInv, MoreDevices
  PROVE  /\ search.bus \in Buses /\ search.loop + 1 \in 1 .. Len(search.bus)
         /\ NextIndex = Cardinality(Passed(search.bus, search.unread, search.loop + 1))
         /\ NextIndex = (IF Candidate.ours THEN search.list_index + 1 ELSE search.list_index)
         /\ NextIndex \in Nat
         /\ search.list_index
              = Cardinality(Passed(search.bus, search.unread \cup {search.loop + 1}, search.loop + 1))
<1> USE DEF CreateInv
<1>1. /\ search.bus \in Buses \cup {<<>>} /\ search.loop \in Nat
      /\ search.unread \in SUBSET (1 .. search.loop)
  BY DEF DeviceTypes, Counted
<1>2. Len(<<>>) = 0 /\ search.loop < Len(search.bus)
  BY DEF MoreDevices
<1>3. search.bus \in Buses
  BY <1>1, <1>2
<1>4. Len(search.bus) \in Nat /\ Len(search.bus) < 256
  BY <1>3, BusAssumption, FewDevices
<1>5. search.list_index = Cardinality(Passed(search.bus, search.unread, search.loop))
  BY DEF MoreDevices, Counted, Ours, Passed
<1>6. /\ search.list_index \in 0 .. search.loop
      /\ Cardinality(Passed(search.bus, search.unread, search.loop + 1))
           = search.list_index + (IF Candidate.ours THEN 1 ELSE 0)
      /\ Passed(search.bus, search.unread \cup {search.loop + 1}, search.loop + 1)
           = Passed(search.bus, search.unread, search.loop)
  BY <1>1, <1>5, PassedOneMore, ZenonT(40) DEF Candidate
<1>7. NextIndex = (IF Candidate.ours THEN search.list_index + 1 ELSE search.list_index)
  BY <1>1, <1>2, <1>4, <1>6 DEF NextIndex
<1> QED
  BY <1>1, <1>2, <1>3, <1>4, <1>5, <1>6, <1>7

LEMMA FindKeeps ==
  ASSUME CreateInv, FindSkips \/ FindRejects \/ FindAccepts
  PROVE  CreateInv'
<1> USE DEF CreateInv
<1>1. MoreDevices
  BY DEF FindSkips, FindRejects, FindAccepts
<1>2. stage = "find" /\ usbcmd.libusb = None /\ stage' = stage
  BY <1>1 DEF MoreDevices, FindSkips, FindRejects, FindAccepts
<1>10. PICK next : next = search.loop + 1
  OBVIOUS
<1>3. /\ search.bus \in Buses /\ next \in 1 .. Len(search.bus)
      /\ NextIndex = Cardinality(Passed(search.bus, search.unread, next))
      /\ NextIndex = (IF Candidate.ours THEN search.list_index + 1 ELSE search.list_index)
      /\ NextIndex \in Nat
      /\ search.list_index = Cardinality(Passed(search.bus, search.unread \cup {next}, next))
  BY <1>1, <1>10, IndexCounts
<1>4. search.unread \subseteq 1 .. search.loop /\ search.loop \in Nat /\ search.list_index \in Nat
  BY DEF Counted, DeviceTypes
<1>5. PICK index \in Nat, unread \in SUBSET (1 .. next) :
        /\ search' = [search EXCEPT !.loop = next, !.list_index = index, !.unread = unread]
        /\ index = Cardinality(Passed(search.bus, unread, next))
        /\ FindAccepts => index = NextIndex /\ unread = search.unread
  <2>1. search.unread \in SUBSET (1 .. next) /\ search.unread \cup {next} \in SUBSET (1 .. next)
    BY <1>3, <1>4, <1>10
  <2>2. CASE /\ search' = [search EXCEPT !.loop = next, !.list_index = NextIndex,
                                         !.unread = search.unread]
    BY <1>3, <2>1, <2>2
  <2>3. CASE /\ search' = [search EXCEPT !.loop = next, !.list_index = search.list_index,
                                         !.unread = search.unread \cup {next}]
             /\ ~FindAccepts
    BY <1>3, <1>4, <2>1, <2>3
  <2>4. CASE FindSkips /\ ~FindAccepts
    <3>1. PICK described \in BOOLEAN :
            search' = [search EXCEPT
                    !.loop = @ + 1,
                    !.list_index = IF described THEN NextIndex ELSE @,
                    !.unread = IF described THEN @ ELSE @ \cup {search.loop + 1}]
      BY <2>4 DEF FindSkips
    <3>2. CASE described
      BY <1>10, <2>2, <3>1, <3>2 DEF DeviceTypes
    <3>3. CASE ~described
      BY <1>10, <2>3, <2>4, <3>1, <3>3 DEF DeviceTypes
    <3> QED
      BY <3>2, <3>3
  <2>5. CASE FindRejects \/ FindAccepts
    BY <1>10, <2>2, <2>5 DEF FindRejects, FindAccepts, DeviceTypes
  <2> QED
    BY <2>4, <2>5
<1>6. /\ search'.bus = search.bus /\ search'.request = search.request
      /\ search'.loop = next /\ search'.list_index = index /\ search'.unread = unread
  BY <1>5 DEF DeviceTypes
<1>7. Ours(search.bus, next)' = index
  BY <1>5, <1>6 DEF Ours, Passed
<1>11. search' \in [bus : Buses \cup {<<>>}, request : Requests, loop : Nat,
                   list_index : Nat, unread : SUBSET Nat]
  <2>1. unread \in SUBSET Nat /\ next \in Nat
    BY <1>3, <1>4, <1>10
  <2> QED
    BY <1>5, <2>1 DEF DeviceTypes
<1>8. CASE FindSkips \/ FindRejects
  <2>1. UNCHANGED <<usbcmd, lib>>
    BY <1>8 DEF FindSkips, FindRejects, NotFoundCloses
  <2>2. DeviceTypes'
    BY <1>2, <1>11, <2>1 DEF DeviceTypes
  <2>3. HeldIsKnown'
    BY <1>2, <2>1 DEF HeldIsKnown
  <2>4. Counted'
    BY <1>2, <1>3, <1>5, <1>6, <1>7, <1>10, <2>1 DEF Counted
  <2> QED
    BY <2>2, <2>3, <2>4
<1>9. CASE FindAccepts
  <2>1. /\ usbcmd' = [usbcmd EXCEPT !.libusb = next]
        /\ lib' = [lib EXCEPT !.open = @ \cup {next}]
    BY <1>9, <1>10 DEF FindAccepts
  <2>2. usbcmd'.libusb = next /\ usbcmd'.context = usbcmd.context /\ next # None /\ next \in Nat
    BY <1>3, <1>4, <2>1 DEF DeviceTypes, None
  <2>3. lib'.open = {next} /\ lib'.contexts = lib.contexts /\ lib'.lists = lib.lists
    BY <1>2, <2>1 DEF DeviceTypes, HeldIsKnown
  <2>4. DeviceTypes'
    BY <1>2, <1>11, <2>1, <2>2 DEF DeviceTypes
  <2>5. HeldIsKnown'
    BY <1>2, <2>2, <2>3 DEF HeldIsKnown
  <2>6. Asked(next)'
    <3>1. Candidate.ours /\ index = search.list_index + 1
      BY <1>3, <1>5, <1>9 DEF FindAccepts, IsCandidate
    <3>2. search.request.by \in {"id", "index"}
      BY DEF DeviceTypes, Requests, ById, ByIndex
    <3>3. search.request.by = "index" => search.request.index = search.list_index
      BY <1>9 DEF FindAccepts, IsCandidate
    <3>4. search.request.by = "id" => search.request.id = populate_container_id(search.bus[next])
      BY <1>9, <1>10 DEF FindAccepts, IsWanted, Candidate
    <3>5. search.bus[next].ours
      BY <1>10, <3>1 DEF Candidate
    <3> QED
      BY <1>6, <1>7, <3>1, <3>2, <3>3, <3>4, <3>5, SMTT(30) DEF Asked, populate_container_id
  <2>7. Counted'
    BY <1>2, <1>3, <1>5, <1>6, <1>7, <2>2, <2>6 DEF Counted
  <2> QED
    BY <2>4, <2>5, <2>7
<1> QED
  BY <1>8, <1>9

LEMMA ReleaseKeeps ==
  ASSUME CreateInv, NEW from \in {"undo", "waiting"}, Release(from)
  PROVE  CreateInv'
<1> USE DEF CreateInv
<1>1. /\ stage' = "none" /\ usbcmd' = Closed /\ search' = NoSearch
      /\ stage # "find"
  BY DEF Release
<1>2. /\ lib'.claimed = FALSE /\ lib'.open = {}
      /\ "handle" \notin lib'.contexts /\ lib'.lists = lib.lists
  BY DEF Release, DeviceTypes, HeldIsKnown
<1>3. DeviceTypes'
  <2>1. lib' \in [contexts : SUBSET {"handle", "count"}, lists : SUBSET {"handle", "count"},
                 open : SUBSET Nat, claimed : BOOLEAN]
    BY DEF Release, DeviceTypes
  <2>2. usbcmd' \in [lock : BOOLEAN, context : BOOLEAN, libusb : Nat]
    BY <1>1 DEF Closed, None
  <2>3. search' \in [bus : Buses \cup {<<>>}, request : Requests, loop : Nat,
                    list_index : Nat, unread : SUBSET Nat]
    BY <1>1 DEF NoSearch, Requests, ByIndex
  <2> QED
    BY <1>1, <2>1, <2>2, <2>3 DEF DeviceTypes
<1>4. HeldIsKnown'
  BY <1>1, <1>2 DEF HeldIsKnown, Closed
<1>5. Counted'
  BY <1>1 DEF Counted, NoSearch, Closed
<1> QED
  BY <1>3, <1>4, <1>5

LEMMA CreateKeeps ==
  ASSUME CreateInv, NEW bus \in Buses, NEW request \in Requests, Create(bus, request)
  PROVE  CreateInv'
<1> USE DEF CreateInv
<1>1. search' = [NoSearch EXCEPT !.bus = bus, !.request = request]
  BY DEF Create
<1>2. search' = [bus |-> bus, request |-> request, loop |-> 0, list_index |-> 0, unread |-> {}]
  BY <1>1 DEF NoSearch
<1>3. Len(bus) \in Nat
  BY BusAssumption
<1>4. stage = "none" /\ stage' \in {"init", "undo"} /\ lib' = lib
  BY DEF Create
<1>5. usbcmd' \in [lock : BOOLEAN, context : {FALSE}, libusb : {None}]
  <2>1. Closed \in [lock : BOOLEAN, context : {FALSE}, libusb : {None}]
    BY DEF Closed
  <2> QED
    BY <2>1 DEF Create
<1>6. DeviceTypes'
  <2>1. usbcmd' \in [lock : BOOLEAN, context : BOOLEAN, libusb : Nat]
    <3>1. Closed \in [lock : BOOLEAN, context : BOOLEAN, libusb : Nat]
      BY DEF Closed, None
    <3> QED
      BY <3>1 DEF Create
  <2>2. search' \in [bus : Buses \cup {<<>>}, request : Requests, loop : Nat,
                    list_index : Nat, unread : SUBSET Nat]
    BY <1>2
  <2> QED
    BY <1>4, <2>1, <2>2 DEF DeviceTypes
<1>7. HeldIsKnown'
  BY <1>4, <1>5 DEF HeldIsKnown
<1>8. Ours(bus, 0)' = 0
  BY FS_EmptySet DEF Ours
<1>9. Counted'
  BY <1>2, <1>3, <1>4, <1>5, <1>8 DEF Counted
<1> QED
  BY <1>6, <1>7, <1>9

LEMMA CreateStep == CreateInv /\ [Next]_vars => CreateInv'
<1> SUFFICES ASSUME CreateInv, [Next]_vars PROVE CreateInv'
  OBVIOUS
<1> USE DEF CreateInv
<1>1. CASE UNCHANGED deviceVars
  <2>1. DeviceTypes'
    BY <1>1 DEF deviceVars, DeviceTypes
  <2>2. HeldIsKnown'
    BY <1>1 DEF deviceVars, HeldIsKnown
  <2>3. Counted'
    BY <1>1 DEF deviceVars, Counted, Asked, Ours, populate_container_id
  <2> QED
    BY <2>1, <2>2, <2>3
<1>2. ASSUME NEW bus \in Buses, NEW id \in WantedIds, colormcu_create(bus, id) PROVE CreateInv'
  BY <1>2, CreateKeeps DEF colormcu_create, Requests
<1>3. ASSUME NEW bus \in Buses, NEW i \in Indexes, colormcu_create_by_index(bus, i) PROVE CreateInv'
  BY <1>3, CreateKeeps DEF colormcu_create_by_index, Requests
<1>4. CASE FindBegins
  <2> DEFINE lists == IF stage' = "find" THEN lib.lists \cup {"handle"} ELSE lib.lists
  <2>4. /\ stage = "init" /\ stage' \in {"find", "undo"} /\ UNCHANGED search
        /\ \/ /\ usbcmd' = [usbcmd EXCEPT !.context = TRUE]
              /\ lib' = [lib EXCEPT !.contexts = @ \cup {"handle"}, !.lists = lists]
           \/ UNCHANGED <<usbcmd, lib>> /\ stage' = "undo"
    BY <1>4 DEF FindBegins, DeviceTypes
  <2>1. DeviceTypes'
    <3>1. lists \in SUBSET {"handle", "count"} /\ lib.contexts \cup {"handle"} \in SUBSET {"handle", "count"}
      BY DEF DeviceTypes
    <3> HIDE DEF lists
    <3>2. usbcmd' \in [lock : BOOLEAN, context : BOOLEAN, libusb : Nat]
      BY <2>4 DEF DeviceTypes
    <3>3. lib' \in [contexts : SUBSET {"handle", "count"}, lists : SUBSET {"handle", "count"},
                   open : SUBSET Nat, claimed : BOOLEAN]
      BY <2>4, <3>1 DEF DeviceTypes
    <3> QED
      BY <2>4, <3>2, <3>3 DEF DeviceTypes
  <2>2. HeldIsKnown'
    BY <2>4, ZenonT(40) DEF DeviceTypes, HeldIsKnown
  <2>3. Counted'
    BY <1>4 DEF FindBegins, DeviceTypes, HeldIsKnown, Counted, Ours
  <2> QED
    BY <2>1, <2>2, <2>3
<1>5. CASE FindSkips \/ FindRejects \/ FindAccepts
  BY <1>5, FindKeeps
<1>6. CASE FindEnds
  <2>1. DeviceTypes'
    BY <1>6 DEF FindEnds, DeviceTypes
  <2>2. HeldIsKnown'
    BY <1>6 DEF FindEnds, DeviceTypes, HeldIsKnown
  <2>3. Counted'
    BY <1>6 DEF FindEnds, Counted, Asked, Ours, populate_container_id
  <2> QED
    BY <2>1, <2>2, <2>3
<1>7. CASE Claim
  <2>1. DeviceTypes'
    <3>1. search' \in [bus : Buses \cup {<<>>}, request : Requests, loop : Nat,
                      list_index : Nat, unread : SUBSET Nat]
      BY <1>7 DEF Claim, NoSearch, Requests, ByIndex
    <3> QED
      BY <1>7, <3>1 DEF Claim, DeviceTypes
  <2>2. HeldIsKnown'
    BY <1>7 DEF Claim, DeviceTypes, HeldIsKnown
  <2>3. Counted'
    BY <1>7 DEF Claim, Counted, NoSearch
  <2> QED
    BY <2>1, <2>2, <2>3
<1>8. CASE ConfigureFails
  BY <1>8 DEF ConfigureFails, DeviceTypes, HeldIsKnown, Counted
<1>9. CASE CreateFails
  BY <1>9, ReleaseKeeps DEF CreateFails
<1>10. ASSUME NEW bus \in Buses, CountDevices(bus) PROVE CreateInv'
  <2>1. DeviceTypes'
    BY <1>10 DEF CountDevices, DeviceTypes
  <2>2. HeldIsKnown'
    BY <1>10 DEF CountDevices, DeviceTypes, HeldIsKnown
  <2>3. Counted'
    BY <1>10 DEF CountDevices, Counted, Asked, Ours, populate_container_id
  <2> QED
    BY <2>1, <2>2, <2>3
<1>11. ASSUME NEW c \in Callers,
              \/ \E op \in Reads \cup Writes \cup WritesData : Call(c, op)
              \/ LockAndNumber(c) \/ SendCommand(c) \/ SendData(c) \/ ReceiveData(c)
              \/ ReceiveResponse(c) \/ TransferFails(c) \/ Unlock(c) \/ StreamStart(c)
       PROVE  CreateInv'
  BY <1>1, <1>11 DEF Call, LockAndNumber, SendCommand, SendData, ReceiveData, ReceiveResponse,
                     TransferFails, Unlock, StreamStart
<1>12. CASE DeviceAnswers
  BY <1>1, <1>12 DEF DeviceAnswers
<1>13. CASE Destroy
  BY <1>13 DEF Destroy, DeviceTypes, HeldIsKnown, Counted
<1>14. CASE DestroyReleases
  BY <1>14, ReleaseKeeps DEF DestroyReleases
<1>15. CASE UNCHANGED vars
  BY <1>1, <1>15 DEF vars
<1> QED
  BY <1>2, <1>3, <1>4, <1>5, <1>6, <1>7, <1>8, <1>9, <1>10, <1>11, <1>12, <1>13, <1>14, <1>15
     DEF Next, DeviceNext

(* usb_cmd_create opens the device it was asked for, the index-th in       *)
(* discovery order or the one with the container id, or leaves nothing     *)
(* open, claimed or allocated, and usb_cmd_destroy gives back everything.  *)
THEOREM CreateOpensOneOrNothing == Spec => []OpensOneOrNothing
<1>1. Init => CreateInv
  <2> SUFFICES ASSUME Init PROVE CreateInv
    OBVIOUS
  <2>1. DeviceTypes
    <3>1. search \in [bus : Buses \cup {<<>>}, request : Requests, loop : Nat,
                     list_index : Nat, unread : SUBSET Nat]
      BY DEF Init, DeviceInit, NoSearch, Requests, ByIndex
    <3> QED
      BY <3>1 DEF Init, DeviceInit, DeviceTypes, Closed, Unused, None
  <2>2. HeldIsKnown
    BY DEF Init, DeviceInit, HeldIsKnown, Closed, Unused
  <2>3. Counted
    BY DEF Init, DeviceInit, Counted, NoSearch, Closed
  <2> QED
    BY <2>1, <2>2, <2>3 DEF CreateInv
<1>2. CreateInv => OpensOneOrNothing
  <2> SUFFICES ASSUME CreateInv PROVE OpensOneOrNothing
    OBVIOUS
  <2>1. NothingHeldWithoutHandle
    BY DEF CreateInv, HeldIsKnown, NothingHeldWithoutHandle
  <2>2. HandleIsRequestedDevice
    BY DEF CreateInv, HeldIsKnown, Counted, Asked, HandleIsRequestedDevice
  <2> QED
    BY <2>1, <2>2 DEF OpensOneOrNothing
<1> QED
  BY <1>1, <1>2, CreateStep, PTL DEF Spec

=============================================================================
