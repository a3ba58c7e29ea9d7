-------------------------- MODULE ScannerSessionProofs --------------------------
(***************************************************************************)
(* Proofs about ScannerSession.tla, for any number of sheets, stripes,     *)
(* attempts and faults, and for both values of Duplex: host and scanner    *)
(* stay in step, the session hands over whole sheets in the order of the   *)
(* feeder, and it implements SheetFeed.tla.                                *)
(***************************************************************************)
EXTENDS ScannerSession, SequenceTheorems, TLAPS

-------------------------------------------------------------------------------
(* Types, and what is in the pipe *)

HostOK == /\ at \in 1 .. 15
          /\ phase \in Phases
          /\ attempt \in 0 .. Retries - 1
          /\ data \in Items /\ sense \in Items
          /\ chunks \in Seq(Items)
          /\ pages \in Seq([front : Seq(Items), back : Seq(Items)])
          /\ outcome \in {"open", "completed", "failed"}
FaultsOK == faults \in [kinds : SUBSET AllKinds, left : Nat]

\* How much of an answer is still to be read, and whether the scanner waits
\* for the payload that the host is about to write.
PipeFollowsPhase ==
  Repeatable => /\ phase \in {"cdb", "payload", "senseCdb"} => pipe = <<>>
                /\ phase \in {"data", "senseData"} => Len(pipe) = 2
                /\ phase \in {"status", "senseStatus"} => Len(pipe) = 1
                /\ phase = "payload" => awaits = "payload"

IInv == /\ HostOK /\ FaultsOK
        /\ pipe \in Seq(Items)
        /\ device \in Device /\ awaits \in {"cdb", "payload"}
        /\ PipeFollowsPhase

LEMMA ScriptFacts ==
  /\ Len(Script) = 15
  /\ \A k \in 1 .. 15 : Script[k] \in {"media", "window", "calibration", "matrix", "gamma",
                                      "truncate", "reserve", "scan", "readImage", "sense",
                                      "release"}
BY DEF Script

LEMMA ItemOK == ASSUME NEW kind \in ItemKinds PROVE Item(kind) \in Items
BY BoundAssumption DEF Item, Items

LEMMA EmptyOK == Empty \in Items
BY ItemOK DEF Empty, ItemKinds

THEOREM Initially == Init => IInv
<1> SUFFICES ASSUME Init PROVE IInv
  OBVIOUS
<1>1. HostOK
  BY EmptyOK, BoundAssumption DEF Init, HostOK, Phases
<1>2. FaultsOK
  BY TroublesAssumption DEF Init, FaultsOK
<1>3. device \in Device
  BY BoundAssumption DEF Init, Device, Senses
<1>4. pipe \in Seq(Items) /\ awaits \in {"cdb", "payload"} /\ PipeFollowsPhase
  BY DEF Init, PipeFollowsPhase
<1> QED
  BY <1>1, <1>2, <1>3, <1>4 DEF IInv

LEMMA SufferOK ==
  ASSUME FaultsOK, NEW kind, Suffer(kind)
  PROVE  /\ FaultsOK' /\ faults'.kinds = faults.kinds
         /\ Repeatable' = Repeatable
         /\ kind # "" => kind \in faults.kinds
<1>1. FaultsOK' /\ faults'.kinds = faults.kinds
  <2>1. CASE UNCHANGED faults
    BY <2>1 DEF FaultsOK
  <2>2. CASE faults.left > 0 /\ faults' = [faults EXCEPT !.left = @ - 1]
    <3>1. faults.left - 1 \in Nat
      BY <2>2 DEF FaultsOK
    <3> QED
      BY <2>2, <3>1 DEF FaultsOK
  <2> QED
    BY <2>1, <2>2 DEF Suffer
<1> QED
  BY <1>1 DEF Suffer, Repeatable

-------------------------------------------------------------------------------
(* The scanner *)

LEMMA AfterOK ==
  ASSUME device \in Device, NEW cmd, ~AtEnd(cmd)
  PROVE  After(cmd) \in Device
<1>1. CASE cmd = "scan"
  <2>1. device.feeder - 1 \in 0 .. Sheets /\ Sheets - device.feeder + 1 \in 0 .. Sheets
        /\ 0 \in 0 .. Stripes
    BY <1>1, BoundAssumption DEF AtEnd, Device
  <2> QED
    BY <1>1, <2>1 DEF After, Device
<1>2. CASE cmd = "readImage"
  <2>1. device.stripe + 1 \in 0 .. Stripes
    BY <1>2, BoundAssumption DEF AtEnd, Device
  <2> QED
    BY <1>2, <2>1 DEF After, Device
<1>3. CASE cmd \notin {"scan", "readImage"}
  BY <1>3 DEF After, Device, Senses
<1> QED
  BY <1>1, <1>2, <1>3

LEMMA SentOK ==
  ASSUME device \in Device, NEW cmd, ~AtEnd(cmd)
  PROVE  /\ Sent(cmd) \in Seq(Items)
         /\ Len(Sent(cmd)) = IF cmd \in DataCommands THEN 1 ELSE 0
<1>1. CASE cmd = "media"
  BY <1>1, ItemOK DEF Sent, DataCommands, ItemKinds
<1>2. CASE cmd = "calibration"
  BY <1>2, ItemOK DEF Sent, DataCommands, ItemKinds
<1>3. CASE cmd = "sense"
  BY <1>3, ItemOK DEF Sent, DataCommands, ItemKinds, Device
<1>4. CASE cmd = "readImage"
  <2>1. [kind |-> "stripe", sheet |-> device.sheet, stripe |-> device.stripe + 1] \in Items
    BY <1>4, BoundAssumption DEF AtEnd, Device, Items, ItemKinds
  <2> QED
    BY <1>4, <2>1 DEF Sent, DataCommands
<1>5. CASE cmd \notin {"media", "calibration", "sense", "readImage"}
  BY <1>5 DEF Sent, DataCommands
<1> QED
  BY <1>1, <1>2, <1>3, <1>4, <1>5

LEMMA NoDataOK ==
  ASSUME NEW cmd
  PROVE  /\ NoData(cmd) \in Seq(Items)
         /\ Len(NoData(cmd)) = IF cmd \in DataCommands THEN 1 ELSE 0
BY EmptyOK DEF NoData, DataCommands

LEMMA WithSense ==
  ASSUME NEW d \in Device, NEW code \in Senses
  PROVE  [d EXCEPT !.sense = code] \in Device
BY DEF Device

LEMMA AnswersOK ==
  ASSUME device \in Device, NEW cmd, NEW answer \in Answers(cmd)
  PROVE  /\ answer.device \in Device
         /\ answer.sent \in Seq(Items)
         /\ answer.kind \notin {"bare", "split"} =>
              Len(answer.sent) = IF cmd \in DataCommands THEN 2 ELSE 1
<1> DEFINE n == IF cmd \in DataCommands THEN 1 ELSE 0
<1>1. ASSUME NEW s \in Seq(Items), Len(s) = n, NEW kind \in ItemKinds
      PROVE  /\ s \o <<Item(kind)>> \in Seq(Items)
             /\ Len(s \o <<Item(kind)>>) = IF cmd \in DataCommands THEN 2 ELSE 1
  <2>1. Item(kind) \in Items /\ Len(s) \in Nat
    BY <1>1, ItemOK
  <2>2. s \o <<Item(kind)>> \in Seq(Items) /\ Len(s \o <<Item(kind)>>) = Len(s) + 1
    BY <1>1, <2>1
  <2> QED
    BY <1>1, <2>2
<1>2. {"good", "busy", "check", "half", "rest"} \subseteq ItemKinds
      /\ {"fine", "end", "jam"} = Senses
  BY DEF ItemKinds, Statuses, Senses
<1>3. CASE /\ AtEnd(cmd)
           /\ answer = Answer([device EXCEPT !.sense = "end"], NoData(cmd) \o <<Item("check")>>, "")
  BY <1>1, <1>2, <1>3, NoDataOK, WithSense DEF Answer
<1>4. CASE /\ ~AtEnd(cmd)
           /\ answer = Answer(After(cmd), Sent(cmd) \o <<Item("good")>>, "")
  BY <1>1, <1>2, <1>4, SentOK, AfterOK DEF Answer
<1>5. CASE answer = Answer(device, NoData(cmd) \o <<Item("busy")>>, "busy")
  BY <1>1, <1>2, <1>5, NoDataOK DEF Answer
<1>6. CASE answer = Answer([device EXCEPT !.sense = "jam"], NoData(cmd) \o <<Item("check")>>, "jam")
  BY <1>1, <1>2, <1>6, NoDataOK, WithSense DEF Answer
<1>7. CASE answer = Answer([device EXCEPT !.sense = "jam"], <<Item("check")>>, "bare")
  BY <1>2, <1>7, ItemOK, WithSense DEF Answer
<1>8. CASE /\ ~AtEnd(cmd)
           /\ answer = Answer([After(cmd) EXCEPT !.sense = "fine"],
                              Sent(cmd) \o <<Item("check")>>, "soft")
  BY <1>1, <1>2, <1>8, SentOK, AfterOK, WithSense DEF Answer
<1>9. CASE /\ ~AtEnd(cmd)
           /\ answer = Answer(After(cmd), <<Item("half"), Item("rest"), Item("good")>>, "split")
  BY <1>2, <1>9, ItemOK, AfterOK DEF Answer
<1> QED
  BY <1>3, <1>4, <1>5, <1>6, <1>7, <1>8, <1>9 DEF Answers

LEMMA ExecuteOK ==
  ASSUME IInv, NEW cmd, Execute(cmd)
  PROVE  /\ FaultsOK' /\ Repeatable' = Repeatable
         /\ device' \in Device /\ pipe' \in Seq(Items)
         /\ Repeatable /\ pipe = <<>> =>
              Len(pipe') = IF cmd \in DataCommands THEN 2 ELSE 1
<1>1. PICK answer \in Answers(cmd) :
        Suffer(answer.kind) /\ device' = answer.device /\ pipe' = pipe \o answer.sent
  BY DEF Execute
<1>2. /\ answer.device \in Device /\ answer.sent \in Seq(Items)
      /\ answer.kind \notin {"bare", "split"} =>
           Len(answer.sent) = IF cmd \in DataCommands THEN 2 ELSE 1
  BY AnswersOK DEF IInv
<1>3. /\ FaultsOK' /\ Repeatable' = Repeatable
      /\ answer.kind # "" => answer.kind \in faults.kinds
  BY <1>1, SufferOK DEF IInv
<1>4. Repeatable => answer.kind \notin {"bare", "split"}
  BY <1>3 DEF Repeatable
<1>5. pipe' \in Seq(Items) /\ (pipe = <<>> => Len(pipe') = Len(answer.sent))
  BY <1>1, <1>2 DEF IInv
<1> QED
  BY <1>1, <1>2, <1>3, <1>4, <1>5

LEMMA MisreadOK ==
  ASSUME IInv, Misread
  PROVE  device' \in Device /\ awaits' \in {"cdb", "payload"} /\ pipe' \in Seq(Items)
<1>1. Item("good") \in Items /\ Item("check") \in Items
  BY ItemOK DEF ItemKinds, Statuses
<1>2. [device EXCEPT !.sense = "jam"] \in Device
  BY WithSense DEF IInv, Senses
<1> QED
  BY <1>1, <1>2 DEF Misread, IInv

\* A scanner that is in step takes a CDB for a CDB, and waits for the payload
\* or executes the command.
LEMMA TakeCDBOK ==
  ASSUME IInv, NEW cmd, TakeCDB(cmd)
  PROVE  /\ FaultsOK' /\ Repeatable' = Repeatable
         /\ device' \in Device /\ awaits' \in {"cdb", "payload"} /\ pipe' \in Seq(Items)
         /\ Repeatable =>
              \/ cmd \in PayloadCommands /\ awaits' = "payload" /\ UNCHANGED <<pipe, device, faults>>
              \/ cmd \notin PayloadCommands /\ Execute(cmd)
<1>1. CASE cmd \in PayloadCommands /\ awaits' = "payload" /\ UNCHANGED <<pipe, device, faults>>
  BY <1>1 DEF IInv, FaultsOK, Repeatable
<1>2. CASE cmd \notin PayloadCommands /\ awaits' = "cdb" /\ Execute(cmd)
  BY <1>2, ExecuteOK
<1>3. CASE awaits = "payload" /\ Suffer("muddle") /\ Misread
  <2>1. FaultsOK' /\ Repeatable' = Repeatable /\ "muddle" \in faults.kinds
    BY <1>3, SufferOK DEF IInv
  <2>2. ~Repeatable
    BY <2>1 DEF Repeatable
  <2> QED
    BY <1>3, <2>1, <2>2, MisreadOK
<1> QED
  BY <1>1, <1>2, <1>3 DEF TakeCDB

\* A payload completes the command of a scanner that waits for it.
LEMMA TakePayloadOK ==
  ASSUME IInv, NEW cmd, TakePayload(cmd)
  PROVE  /\ FaultsOK' /\ Repeatable' = Repeatable
         /\ device' \in Device /\ awaits' \in {"cdb", "payload"} /\ pipe' \in Seq(Items)
         /\ awaits = "payload" => Execute(cmd)
<1>1. CASE awaits = "payload" /\ awaits' = "cdb" /\ Execute(cmd)
  BY <1>1, ExecuteOK
<1>2. CASE awaits = "cdb" /\ Misread /\ UNCHANGED faults
  BY <1>2, MisreadOK DEF IInv, FaultsOK, Repeatable
<1> QED
  BY <1>1, <1>2 DEF TakePayload

LEMMA ReadFailsOK ==
  ASSUME IInv, ReadFails
  PROVE  FaultsOK' /\ pipe' \in Seq(Items) /\ ~Repeatable'
<1>1. FaultsOK' /\ Repeatable' = Repeatable /\ "read" \in faults.kinds
  BY SufferOK DEF IInv, ReadFails
<1>2. ~Repeatable
  BY <1>1 DEF Repeatable
<1>3. pipe' \in Seq(Items)
  BY DEF ReadFails, IInv
<1> QED
  BY <1>1, <1>2, <1>3

-------------------------------------------------------------------------------
(* The session *)

\* Where a command begins or starts over.
LEMMA BeginOK ==
  ASSUME HostOK, NEW next \in 1 .. 15, Begin(next)
  PROVE  /\ at' \in 1 .. 15 /\ phase' = "cdb" /\ attempt' \in 0 .. Retries - 1
         /\ data' \in Items /\ sense' \in Items
BY EmptyOK, BoundAssumption DEF HostOK, Begin

LEMMA FailOK == ASSUME HostOK, Fail PROVE HostOK' /\ phase' = "cdb"
<1>1. Begin(1) /\ outcome' = "failed" /\ UNCHANGED <<chunks, pages>>
  BY DEF Fail, Leave
<1> QED
  BY <1>1, BeginOK DEF HostOK, Phases

LEMMA RetryOK == ASSUME HostOK, Retry PROVE HostOK' /\ phase' = "cdb"
<1>1. CASE IsLast
  BY <1>1, FailOK DEF Retry
<1>2. CASE ~IsLast
  <2>1. attempt + 1 \in 0 .. Retries - 1
    BY <1>2, BoundAssumption DEF HostOK, IsLast
  <2> QED
    BY <1>2, <2>1, EmptyOK DEF Retry, HostOK, Phases
<1> QED
  BY <1>1, <1>2

LEMMA SidesOK ==
  ASSUME NEW all \in Seq(Items)
  PROVE  Sides(all) \in [front : Seq(Items), back : Seq(Items)]
<1>1. CASE ~Duplex
  BY <1>1 DEF Sides
<1>2. CASE Duplex
  <2>1. /\ Len(all) \in Nat /\ (Len(all) + 1) \div 2 \in Nat /\ Len(all) \div 2 \in Nat
        /\ \A i \in 1 .. (Len(all) + 1) \div 2 : 2 * i - 1 \in 1 .. Len(all)
        /\ \A i \in 1 .. Len(all) \div 2 : 2 * i \in 1 .. Len(all)
    OBVIOUS
  <2>2. [i \in 1 .. (Len(all) + 1) \div 2 |-> all[2 * i - 1]] \in Seq(Items)
    BY <2>1
  <2>3. [i \in 1 .. Len(all) \div 2 |-> all[2 * i]] \in Seq(Items)
    BY <2>1
  <2> QED
    BY <1>2, <2>2, <2>3 DEF Sides
<1> QED
  BY <1>1, <1>2, BoundAssumption

LEMMA SucceedOK == ASSUME HostOK, NEW got \in Items, Succeed(got) PROVE HostOK' /\ phase' = "cdb"
<1>1. CASE Leave("completed") /\ UNCHANGED <<chunks, pages>>
  BY <1>1, BeginOK DEF Leave, HostOK, Phases
<1>2. CASE chunks' = Append(chunks, got) /\ Begin(at) /\ UNCHANGED <<pages, outcome>>
  <2>1. chunks' \in Seq(Items) /\ at \in 1 .. 15
    BY <1>2 DEF HostOK
  <2> QED
    BY <1>2, <2>1, BeginOK DEF HostOK, Phases
<1>3. CASE /\ pages' = Append(pages, Sides(chunks)) /\ chunks' = <<>>
           /\ Begin(1) /\ UNCHANGED outcome
  <2>1. pages' \in Seq([front : Seq(Items), back : Seq(Items)])
    BY <1>3, SidesOK DEF HostOK
  <2>2. chunks' \in Seq(Items)
    BY <1>3
  <2> QED
    BY <1>3, <2>1, <2>2, BeginOK DEF HostOK, Phases
<1>4. CASE at < Len(Script) /\ Begin(at + 1) /\ UNCHANGED <<chunks, pages, outcome>>
  <2>1. at + 1 \in 1 .. 15
    BY <1>4, ScriptFacts DEF HostOK
  <2> QED
    BY <1>4, <2>1, BeginOK DEF HostOK, Phases
<1> QED
  BY <1>1, <1>2, <1>3, <1>4 DEF Succeed

LEMMA ClassifyOK == ASSUME HostOK, Classify(sense) PROVE HostOK' /\ phase' = "cdb"
<1>1. PICK code \in SenseCodes(sense) :
        CASE code = "fine" -> Succeed(DataWithSense)
          [] code = "end" /\ Command = "readImage" ->
               Begin(AfterEnd) /\ UNCHANGED <<chunks, pages, outcome>>
          [] OTHER -> Fail
  BY DEF Classify
<1>2. CASE code = "fine"
  BY <1>1, <1>2, SucceedOK DEF HostOK, DataWithSense
<1>3. CASE code = "end" /\ Command = "readImage"
  <2>1. Begin(at + 1) /\ UNCHANGED <<chunks, pages, outcome>>
    BY <1>1, <1>3 DEF AfterEnd
  <2>2. at + 1 \in 1 .. 15
    BY <1>3 DEF Command, Script, HostOK
  <2> QED
    BY <2>1, <2>2, BeginOK DEF HostOK, Phases
<1>4. CASE code # "fine" /\ ~(code = "end" /\ Command = "readImage")
  BY <1>1, <1>4, FailOK
<1> QED
  BY <1>2, <1>3, <1>4

-------------------------------------------------------------------------------
(* scsiusb.Command *)

\* A command starts over, or the next one starts.
LEMMA Restarted ==
  ASSUME HostOK', FaultsOK', phase' = "cdb", pipe' \in Seq(Items), device' \in Device,
         awaits' \in {"cdb", "payload"}, Repeatable' => pipe' = <<>>
  PROVE  IInv'
BY DEF IInv, PipeFollowsPhase

LEMMA WriteFailsStep ==
  ASSUME IInv, WriteFails, Repeatable => pipe = <<>>
  PROVE  IInv'
BY SufferOK, RetryOK, Restarted DEF IInv, WriteFails

\* All is written: the answer is in the pipe.
LEMMA Answered ==
  ASSUME IInv, Repeatable => pipe = <<>> /\ Execute(Command),
         FaultsOK', Repeatable' = Repeatable,
         device' \in Device, awaits' \in {"cdb", "payload"}, pipe' \in Seq(Items),
         phase' = FirstRead, UNCHANGED <<at, attempt, data, sense, chunks, pages, outcome>>
  PROVE  IInv'
<1>1. HostOK'
  BY DEF HostOK, IInv, Phases, FirstRead
<1>2. Repeatable => Len(pipe') = IF Command \in DataCommands THEN 2 ELSE 1
  BY ExecuteOK
<1>3. PipeFollowsPhase'
  BY <1>2 DEF PipeFollowsPhase, FirstRead
<1> QED
  BY <1>1, <1>3 DEF IInv

LEMMA SendCDBStep == ASSUME IInv, SendCDB PROVE IInv'
<1>1. Repeatable => pipe = <<>>
  BY DEF IInv, PipeFollowsPhase, SendCDB, Open
<1>2. CASE WriteFails
  BY <1>1, <1>2, WriteFailsStep
<1>3. CASE /\ TakeCDB(Command)
           /\ phase' = IF Command \in PayloadCommands THEN "payload" ELSE FirstRead
           /\ UNCHANGED <<at, attempt, data, sense, chunks, pages, outcome>>
  <2>1. /\ FaultsOK' /\ Repeatable' = Repeatable
        /\ device' \in Device /\ awaits' \in {"cdb", "payload"} /\ pipe' \in Seq(Items)
        /\ Repeatable =>
             \/ Command \in PayloadCommands /\ awaits' = "payload" /\ UNCHANGED <<pipe, device, faults>>
             \/ Command \notin PayloadCommands /\ Execute(Command)
    BY <1>3, TakeCDBOK
  <2>2. CASE Command \in PayloadCommands
    <3>1. phase' = "payload" /\ HostOK'
      BY <1>3, <2>2 DEF HostOK, IInv, Phases
    <3> QED
      BY <1>1, <2>1, <2>2, <3>1 DEF IInv, PipeFollowsPhase
  <2>3. CASE Command \notin PayloadCommands
    BY <1>1, <1>3, <2>1, <2>3, Answered
  <2> QED
    BY <2>2, <2>3
<1> QED
  BY <1>2, <1>3 DEF SendCDB

LEMMA SendPayloadStep == ASSUME IInv, SendPayload PROVE IInv'
<1>1. Repeatable => pipe = <<>> /\ awaits = "payload"
  BY DEF IInv, PipeFollowsPhase, SendPayload, Open
<1>2. CASE WriteFails
  BY <1>1, <1>2, WriteFailsStep
<1>3. CASE /\ TakePayload(Command) /\ phase' = FirstRead
           /\ UNCHANGED <<at, attempt, data, sense, chunks, pages, outcome>>
  BY <1>1, <1>3, TakePayloadOK, Answered
<1> QED
  BY <1>2, <1>3 DEF SendPayload

\* A read that fails is no fault after which a command is repeated safely.
LEMMA ReadFailsStep == ASSUME IInv, ReadFails, Retry, UNCHANGED <<device, awaits>> PROVE IInv'
BY ReadFailsOK, RetryOK, Restarted DEF IInv

LEMMA PipeFacts ==
  ASSUME pipe \in Seq(Items), pipe # <<>>
  PROVE  /\ Head(pipe) \in Items /\ Tail(pipe) \in Seq(Items)
         /\ Len(Tail(pipe)) = Len(pipe) - 1 /\ Len(pipe) \in Nat
         /\ Len(pipe) = 1 => Tail(pipe) = <<>>
<1>1. Len(pipe) \in Nat /\ Len(pipe) # 0
  OBVIOUS
<1>2. Head(pipe) \in Items /\ Tail(pipe) \in Seq(Items) /\ Len(Tail(pipe)) = Len(pipe) - 1
  BY <1>1
<1>3. Len(Tail(pipe)) = 0 => Tail(pipe) = <<>>
  BY <1>2, EmptySeq
<1> QED
  BY <1>1, <1>2, <1>3

LEMMA ReadDataStep == ASSUME IInv, ReadData PROVE IInv'
<1>1. CASE /\ pipe # <<>>
           /\ data' = Head(pipe) /\ pipe' = Tail(pipe)
           /\ phase' = "status"
           /\ UNCHANGED <<at, attempt, sense, chunks, pages, outcome, faults>>
  <2>1. Head(pipe) \in Items /\ Tail(pipe) \in Seq(Items) /\ Len(Tail(pipe)) = Len(pipe) - 1
    BY <1>1, PipeFacts DEF IInv
  <2>2. HostOK'
    BY <1>1, <2>1 DEF IInv, HostOK, Phases
  <2>3. PipeFollowsPhase'
    BY <1>1, <2>1 DEF IInv, PipeFollowsPhase, Repeatable, ReadData, Open
  <2> QED
    BY <1>1, <2>1, <2>2, <2>3 DEF IInv, FaultsOK, ReadData
<1> QED
  BY <1>1, ReadFailsStep DEF ReadData

LEMMA ReadStatusStep == ASSUME IInv, ReadStatus PROVE IInv'
<1>1. CASE /\ pipe # <<>>
           /\ pipe' = Tail(pipe)
           /\ UNCHANGED faults
           /\ \E status \in StatusByte(Head(pipe)) :
                CASE status = "good" -> Succeed(data)
                  [] status = "check" ->
                       /\ phase' = "senseCdb"
                       /\ UNCHANGED <<at, attempt, data, sense, chunks, pages, outcome>>
                  [] OTHER -> Retry
  <2>1. /\ Tail(pipe) \in Seq(Items)
        /\ Repeatable => Tail(pipe) = <<>>
    BY <1>1, PipeFacts DEF IInv, PipeFollowsPhase, ReadStatus, Open
  <2>2. FaultsOK' /\ Repeatable' = Repeatable /\ device' \in Device /\ awaits' \in {"cdb", "payload"}
    BY <1>1 DEF IInv, FaultsOK, Repeatable, ReadStatus
  <2>3. PICK status : CASE status = "good" -> Succeed(data)
                        [] status = "check" ->
                             /\ phase' = "senseCdb"
                             /\ UNCHANGED <<at, attempt, data, sense, chunks, pages, outcome>>
                        [] OTHER -> Retry
    BY <1>1
  <2>4. CASE status = "good"
    BY <1>1, <2>1, <2>2, <2>3, <2>4, SucceedOK, Restarted DEF IInv, HostOK
  <2>5. CASE status = "check"
    <3>1. HostOK' /\ phase' = "senseCdb"
      BY <2>3, <2>5 DEF IInv, HostOK, Phases
    <3> QED
      BY <1>1, <2>1, <2>2, <3>1 DEF IInv, PipeFollowsPhase
  <2>6. CASE status \notin {"good", "check"}
    BY <1>1, <2>1, <2>2, <2>3, <2>6, RetryOK, Restarted DEF IInv
  <2> QED
    BY <2>4, <2>5, <2>6
<1> QED
  BY <1>1, ReadFailsStep DEF ReadStatus

LEMMA SendSenseCDBStep == ASSUME IInv, SendSenseCDB PROVE IInv'
<1>1. Repeatable => pipe = <<>>
  BY DEF IInv, PipeFollowsPhase, SendSenseCDB, Open
<1>2. CASE WriteFails
  BY <1>1, <1>2, WriteFailsStep
<1>3. CASE /\ TakeCDB("sense")
           /\ phase' = "senseData"
           /\ UNCHANGED <<at, attempt, data, sense, chunks, pages, outcome>>
  <2>1. HostOK'
    BY <1>3 DEF HostOK, IInv, Phases
  <2>2. /\ FaultsOK' /\ Repeatable' = Repeatable
        /\ device' \in Device /\ awaits' \in {"cdb", "payload"} /\ pipe' \in Seq(Items)
        /\ Repeatable => Execute("sense")
    BY <1>3, TakeCDBOK DEF PayloadCommands
  <2>3. Repeatable => Len(pipe') = 2
    BY <1>1, <2>2, ExecuteOK DEF DataCommands
  <2> QED
    BY <1>3, <2>1, <2>2, <2>3 DEF IInv, PipeFollowsPhase
<1> QED
  BY <1>2, <1>3 DEF SendSenseCDB

LEMMA ReadSenseStep == ASSUME IInv, ReadSense PROVE IInv'
<1>1. CASE /\ pipe # <<>>
           /\ sense' = Head(pipe) /\ pipe' = Tail(pipe)
           /\ phase' = "senseStatus"
           /\ UNCHANGED <<at, attempt, data, chunks, pages, outcome, faults>>
  <2>1. Head(pipe) \in Items /\ Tail(pipe) \in Seq(Items) /\ Len(Tail(pipe)) = Len(pipe) - 1
    BY <1>1, PipeFacts DEF IInv
  <2>2. HostOK'
    BY <1>1, <2>1 DEF IInv, HostOK, Phases
  <2>3. PipeFollowsPhase'
    BY <1>1, <2>1 DEF IInv, PipeFollowsPhase, Repeatable, ReadSense, Open
  <2> QED
    BY <1>1, <2>1, <2>2, <2>3 DEF IInv, FaultsOK, ReadSense
<1> QED
  BY <1>1, ReadFailsStep DEF ReadSense

LEMMA ReadSenseStatusStep == ASSUME IInv, ReadSenseStatus PROVE IInv'
<1>1. HostOK' /\ phase' = "cdb" /\ device' \in Device /\ awaits' \in {"cdb", "payload"}
  BY ClassifyOK DEF IInv, ReadSenseStatus
<1>2. CASE pipe # <<>> /\ pipe' = Tail(pipe) /\ UNCHANGED faults
  <2>1. Tail(pipe) \in Seq(Items) /\ (Repeatable => Tail(pipe) = <<>>)
    BY <1>2, PipeFacts DEF IInv, PipeFollowsPhase, ReadSenseStatus, Open
  <2>2. FaultsOK' /\ Repeatable' = Repeatable
    BY <1>2 DEF IInv, FaultsOK, Repeatable
  <2> QED
    BY <1>1, <1>2, <2>1, <2>2, Restarted
<1>3. CASE ReadFails
  BY <1>1, <1>3, ReadFailsOK, Restarted
<1> QED
  BY <1>2, <1>3 DEF ReadSenseStatus

LEMMA PaperPulledStep == ASSUME IInv, PaperPulled PROVE IInv'
<1>1. FaultsOK' /\ Repeatable' = Repeatable
  BY SufferOK DEF IInv, PaperPulled
<1>2. device' \in Device
  <2>1. device.feeder - 1 \in 0 .. Sheets
    BY BoundAssumption DEF IInv, PaperPulled, Device
  <2> QED
    BY <2>1 DEF IInv, PaperPulled, Device
<1>3. HostOK' /\ pipe' \in Seq(Items) /\ awaits' \in {"cdb", "payload"}
  BY DEF IInv, PaperPulled, HostOK
<1>4. PipeFollowsPhase'
  BY <1>1 DEF IInv, PaperPulled, PipeFollowsPhase
<1> QED
  BY <1>1, <1>2, <1>3, <1>4 DEF IInv

-------------------------------------------------------------------------------
THEOREM Inductive == IInv /\ [Next]_vars => IInv'
<1> SUFFICES ASSUME IInv, [Next]_vars PROVE IInv'
  OBVIOUS
<1>1. CASE Host
  BY <1>1, SendCDBStep, SendPayloadStep, ReadDataStep, ReadStatusStep, SendSenseCDBStep, ReadSenseStep,
     ReadSenseStatusStep DEF Host
<1>2. CASE PaperPulled
  BY <1>2, PaperPulledStep
<1>3. CASE UNCHANGED vars
  BY <1>3 DEF vars, IInv, HostOK, FaultsOK, PipeFollowsPhase, Repeatable
<1> QED
  BY <1>1, <1>2, <1>3 DEF Next

THEOREM Invariance == Spec => []IInv
<1>1. IInv /\ [Next]_vars => IInv'
  BY Inductive
<1> QED
  BY Initially, <1>1, PTL DEF Spec

\* Every variable of host and scanner keeps its type, whatever goes wrong and
\* however far they are out of step: no index leaves the script, no sheet or
\* stripe is beyond the last.
THEOREM TypeCorrect == Spec => []TypeOK
<1>1. IInv => TypeOK
  BY ScriptFacts DEF IInv, HostOK, FaultsOK, TypeOK
<1> QED
  BY Invariance, <1>1, PTL

\* Host and scanner stay in step, as long as only such faults occur after which
\* Command may send a command again (cdb.go:61, 121).
THEOREM StaysInStep == Spec => []InStep
<1>1. IInv => InStep
  BY DEF IInv, PipeFollowsPhase, InStep
<1> QED
  BY Invariance, <1>1, PTL

-------------------------------------------------------------------------------
(* The pages: the invariant *)

StripeOf(i, n) == [kind |-> "stripe", sheet |-> i, stripe |-> n]

Whole(i) ==
  IF Duplex
  THEN [front |-> [k \in 1 .. (Stripes + 1) \div 2 |-> StripeOf(i, 2 * k - 1)],
        back |-> [k \in 1 .. Stripes \div 2 |-> StripeOf(i, 2 * k)]]
  ELSE [front |-> [k \in 1 .. Stripes |-> StripeOf(i, k)], back |-> <<>>]

WholeSoFar == \A i \in DOMAIN pages : pages[i] = Whole(i)

\* What the host is about to read, or has read, of the answer to its command.
StatusDue == (IF phase = "data" THEN pipe[2] ELSE pipe[1]).kind
Got == IF phase = "data" THEN pipe[1] ELSE data
SenseDue(code) ==
  \/ phase \in {"data", "status"} /\ StatusDue = "check" /\ device.sense = code
  \/ phase = "senseCdb" /\ device.sense = code
  \/ phase = "senseData" /\ pipe[1].kind = code
  \/ phase = "senseStatus" /\ sense.kind = code

\* The scanner has executed the command and the host is about to learn it.
Executed == \/ phase \in {"data", "status"} /\ StatusDue = "good"
            \/ SenseDue("fine")

\* The sense buffer holds neither a success nor the end of the document.
Doomed == \/ phase = "senseData" /\ pipe[1].kind \notin {"fine", "end"}
          \/ phase = "senseStatus" /\ sense.kind \notin {"fine", "end"}

KindsOK == /\ phase \in {"data", "status"} => StatusDue \in Statuses
           /\ phase = "senseData" => pipe[1].kind \in Senses \cup {"empty"}
           /\ phase = "senseStatus" => sense.kind \in Senses \cup {"empty"}
           /\ phase \notin {"senseData", "senseStatus"} /\ SenseDue("fine") => "soft" \in faults.kinds

\* How far the scanner is, and how far the host.
Counts ==
  /\ device.feeder + device.sheet = Sheets
  /\ Len(pages) + (IF at > 11 \/ (at = 11 /\ Executed) THEN 1 ELSE 0) = device.sheet
  /\ at < 12 => Len(chunks) = 0
  /\ at = 11 /\ Executed => device.stripe = 0
  /\ at = 12 => Len(chunks) + (IF Executed THEN 1 ELSE 0) = device.stripe
  /\ at > 12 => Len(chunks) = Stripes

Contents ==
  /\ \A k \in 1 .. Len(chunks) : chunks[k] = StripeOf(device.sheet, k)
  /\ at = 12 /\ Executed => Got = StripeOf(device.sheet, device.stripe)
  /\ at = 12 /\ SenseDue("end") => device.stripe = Stripes
  /\ at = 1 /\ Executed => Got.kind = IF device.feeder > 0 THEN "paper" ELSE "noPaper"

Progress == Counts /\ Contents

FeedInv == Repeatable => /\ WholeSoFar
                         /\ outcome = "open" => KindsOK /\ (~Doomed => Progress)

-------------------------------------------------------------------------------
LEMMA FeedInitially == Init => FeedInv
<1> SUFFICES ASSUME Init PROVE FeedInv
  OBVIOUS
<1>1. ~Executed /\ ~SenseDue("end") /\ ~SenseDue("fine")
  BY DEF Init, Executed, SenseDue
<1>2. KindsOK
  BY <1>1 DEF Init, KindsOK
<1>3. Progress
  BY <1>1, BoundAssumption DEF Init, Progress, Counts, Contents
<1> QED
  BY <1>2, <1>3 DEF Init, FeedInv, WholeSoFar

LEMMA CommandFacts ==
  ASSUME at \in 1 .. 15
  PROVE  /\ Command = "media" <=> at = 1
         /\ Command = "scan" <=> at = 11
         /\ Command = "readImage" <=> at = 12
         /\ Len(Script) = 15
         /\ at # 1 /\ at # 12 => Command \notin {"media", "readImage"}
BY DEF Command, Script

LEMMA Joined ==
  ASSUME NEW a \in Items, NEW b \in Items
  PROVE  /\ <<>> \o (<<a>> \o <<b>>) = <<a, b>>
         /\ <<>> \o (<<>> \o <<b>>) = <<b>>
<1>1. <<a>> \o <<b>> = <<a, b>>
  <2>1. <<a>> \in Seq(Items) /\ <<b>> \in Seq(Items) /\ <<a, b>> \in Seq(Items)
    OBVIOUS
  <2>2. /\ <<a>> \o <<b>> \in Seq(Items) /\ Len(<<a>> \o <<b>>) = 2
        /\ \A i \in 1 .. 2 : (<<a>> \o <<b>>)[i] = IF i <= 1 THEN <<a>>[i] ELSE <<b>>[i - 1]
    BY <2>1, ConcatProperties
  <2>3. \A i \in 1 .. 2 : (<<a>> \o <<b>>)[i] = <<a, b>>[i]
    BY <2>2
  <2> QED
    BY <2>1, <2>2, <2>3, SeqEqual
<1>2. <<>> \o <<b>> = <<b>>
  OBVIOUS
<1>3. <<>> \o <<a, b>> = <<a, b>>
  OBVIOUS
<1> QED
  BY <1>1, <1>2, <1>3

Position(dev) == <<dev.feeder, dev.sheet, dev.stripe>>

\* Whether the scanner executes a command, its answer says so.
LEMMA AnswerTells ==
  ASSUME IInv, Repeatable, pipe = <<>>, NEW cmd, Execute(cmd)
  PROVE  \E item \in Items, status \in Statuses :
           /\ pipe' = IF cmd \in DataCommands THEN <<item, Item(status)>> ELSE <<Item(status)>>
           /\ \/ /\ ~AtEnd(cmd) /\ Position(device') = Position(After(cmd))
                 /\ cmd \in DataCommands => Sent(cmd) = <<item>>
                 /\ \/ status = "good"
                    \/ status = "check" /\ device'.sense = "fine" /\ "soft" \in faults.kinds
              \/ /\ Position(device') = Position(device)
                 /\ item = Empty
                 /\ \/ status = "busy"
                    \/ /\ status = "check" /\ device'.sense \in {"end", "jam"}
                       /\ device'.sense = "end" => AtEnd(cmd)
<1>1. PICK answer \in Answers(cmd) :
        Suffer(answer.kind) /\ device' = answer.device /\ pipe' = pipe \o answer.sent
  BY DEF Execute
<1>2. answer.kind # "" => answer.kind \in faults.kinds
  BY <1>1, SufferOK DEF IInv
<1>3. answer.kind \notin {"bare", "split"}
  BY <1>2 DEF Repeatable
<1>4. pipe' = <<>> \o answer.sent
  BY <1>1
<1>5. {"good", "busy", "check"} = Statuses /\ Statuses \subseteq ItemKinds
  BY DEF ItemKinds, Statuses
<1>6. ASSUME NEW status \in Statuses, answer.sent = NoData(cmd) \o <<Item(status)>>
      PROVE  pipe' = IF cmd \in DataCommands THEN <<Empty, Item(status)>> ELSE <<Item(status)>>
  BY <1>4, <1>5, <1>6, Joined, EmptyOK, ItemOK DEF NoData, DataCommands
<1>7. ASSUME ~AtEnd(cmd), NEW status \in Statuses, answer.sent = Sent(cmd) \o <<Item(status)>>
      PROVE  \E item \in Items :
               /\ cmd \in DataCommands => Sent(cmd) = <<item>>
               /\ pipe' = IF cmd \in DataCommands THEN <<item, Item(status)>> ELSE <<Item(status)>>
  <2>1. CASE cmd \notin DataCommands
    BY <1>4, <1>5, <1>7, <2>1, Joined, EmptyOK, ItemOK DEF Sent, DataCommands
  <2>2. CASE cmd \in DataCommands
    <3>1. PICK item : Sent(cmd) = <<item>>
      BY <2>2 DEF Sent, DataCommands
    <3>2. item \in Items
      <4>1. Sent(cmd) \in Seq(Items) /\ Len(Sent(cmd)) = 1
        BY <1>7, <2>2, SentOK DEF IInv
      <4> QED
        BY <3>1, <4>1, ElementOfSeq
    <3> QED
      BY <1>4, <1>5, <1>7, <2>2, <3>1, <3>2, Joined, ItemOK
  <2> QED
    BY <2>1, <2>2
<1>8. CASE /\ AtEnd(cmd)
           /\ answer = Answer([device EXCEPT !.sense = "end"], NoData(cmd) \o <<Item("check")>>, "")
  <2>1. device'.sense = "end" /\ Position(device') = Position(device)
    BY <1>1, <1>8 DEF Answer, IInv, Device, Position
  <2> QED
    BY <1>5, <1>6, <1>8, <2>1, EmptyOK DEF Answer
<1>9. CASE /\ ~AtEnd(cmd)
           /\ answer = Answer(After(cmd), Sent(cmd) \o <<Item("good")>>, "")
  <2>1. device' = After(cmd)
    BY <1>1, <1>9 DEF Answer
  <2> QED
    BY <1>5, <1>7, <1>9, <2>1 DEF Answer
<1>10. CASE answer = Answer(device, NoData(cmd) \o <<Item("busy")>>, "busy")
  <2>1. device' = device
    BY <1>1, <1>10 DEF Answer
  <2> QED
    BY <1>5, <1>6, <1>10, <2>1, EmptyOK DEF Answer
<1>11. CASE answer = Answer([device EXCEPT !.sense = "jam"], NoData(cmd) \o <<Item("check")>>, "jam")
  <2>1. device'.sense = "jam" /\ Position(device') = Position(device)
    BY <1>1, <1>11 DEF Answer, IInv, Device, Position
  <2> QED
    BY <1>5, <1>6, <1>11, <2>1, EmptyOK DEF Answer
<1>12. CASE /\ ~AtEnd(cmd)
            /\ answer = Answer([After(cmd) EXCEPT !.sense = "fine"],
                               Sent(cmd) \o <<Item("check")>>, "soft")
  <2>1. device'.sense = "fine" /\ Position(device') = Position(After(cmd))
    BY <1>1, <1>12, AfterOK DEF Answer, IInv, Device, Position
  <2>2. "soft" \in faults.kinds
    BY <1>2, <1>12 DEF Answer
  <2> QED
    BY <1>5, <1>7, <1>12, <2>1, <2>2 DEF Answer
<1>13. answer # Answer([device EXCEPT !.sense = "jam"], <<Item("check")>>, "bare")
       /\ answer # Answer(After(cmd), <<Item("half"), Item("rest"), Item("good")>>, "split")
  BY <1>3 DEF Answer
<1> QED
  BY <1>8, <1>9, <1>10, <1>11, <1>12, <1>13 DEF Answers

-------------------------------------------------------------------------------
(* The session *)

\* What a step means to the scan loop.
FeedStep ==
  \/ UNCHANGED <<pages, outcome>>
  \/ /\ outcome = "open" /\ Len(pages) < Sheets
     /\ Len(pages') = Len(pages) + 1 /\ UNCHANGED outcome
  \/ /\ outcome = "open" /\ UNCHANGED pages
     /\ outcome' = "failed" \/ (outcome' = "completed" /\ Len(pages) = Sheets)

LEMMA BetweenCommands ==
  ASSUME phase' = "cdb"
  PROVE  KindsOK' /\ ~Executed' /\ ~Doomed' /\ \A code : ~SenseDue(code)'
BY DEF KindsOK, Executed, Doomed, SenseDue

\* The command was not executed and starts over, or the session is given up.
LEMMA Again ==
  ASSUME IInv, WholeSoFar, outcome = "open", Progress, ~Executed, Retry, UNCHANGED device
  PROVE  /\ WholeSoFar' /\ FeedStep
         /\ outcome' = "open" => KindsOK' /\ Progress'
<1>1. CASE IsLast
  BY <1>1 DEF Retry, Fail, Leave, WholeSoFar, FeedStep
<1>2. CASE ~IsLast
  <2>1. /\ phase' = "cdb" /\ UNCHANGED <<at, sense, chunks, pages, outcome>>
    BY <1>2 DEF Retry
  <2>2. KindsOK' /\ ~Executed' /\ ~SenseDue("end")'
    BY <2>1, BetweenCommands
  <2>3. Progress'
    BY <2>1, <2>2 DEF Progress, Counts, Contents
  <2> QED
    BY <2>1, <2>2, <2>3 DEF WholeSoFar, FeedStep
<1> QED
  BY <1>1, <1>2

\* The stripes of a sheet, in the order in which they were read, are the page.
LEMMA PageIsWhole ==
  ASSUME NEW i \in Nat, NEW all \in Seq(Items), Len(all) = Stripes,
         \A k \in 1 .. Len(all) : all[k] = StripeOf(i, k)
  PROVE  Sides(all) = Whole(i)
<1>0. Stripes \in Nat
  BY BoundAssumption
<1>1. CASE Duplex
  <2>1. \A k \in 1 .. (Stripes + 1) \div 2 : 2 * k - 1 \in 1 .. Stripes
    BY <1>0
  <2>2. \A k \in 1 .. Stripes \div 2 : 2 * k \in 1 .. Stripes
    BY <1>0
  <2>3. [k \in 1 .. (Len(all) + 1) \div 2 |-> all[2 * k - 1]]
        = [k \in 1 .. (Stripes + 1) \div 2 |-> StripeOf(i, 2 * k - 1)]
    BY <2>1
  <2>4. [k \in 1 .. Len(all) \div 2 |-> all[2 * k]]
        = [k \in 1 .. Stripes \div 2 |-> StripeOf(i, 2 * k)]
    BY <2>2
  <2> QED
    BY <1>1, <2>3, <2>4 DEF Sides, Whole
<1>2. CASE ~Duplex
  <2>1. all \in [1 .. Stripes -> Items]
    BY LenProperties
  <2>2. all = [k \in 1 .. Stripes |-> all[k]]
    BY <2>1
  <2>3. [k \in 1 .. Stripes |-> all[k]] = [k \in 1 .. Stripes |-> StripeOf(i, k)]
    OBVIOUS
  <2> QED
    BY <1>2, <2>2, <2>3 DEF Sides, Whole
<1> QED
  BY <1>1, <1>2

\* The host learns that the scanner has executed its command.
LEMMA Onward ==
  ASSUME IInv, WholeSoFar, outcome = "open", Progress, Executed, NEW got, got = Got,
         Succeed(got), UNCHANGED device
  PROVE  /\ WholeSoFar' /\ FeedStep
         /\ outcome' = "open" => KindsOK' /\ Progress'
<1> USE DEF Progress
<1>1. /\ at \in 1 .. 15 /\ chunks \in Seq(Items) /\ Len(chunks) \in Nat
      /\ pages \in Seq([front : Seq(Items), back : Seq(Items)]) /\ Len(pages) \in Nat
      /\ device \in Device
      /\ {device.feeder, device.sheet} \subseteq 0 .. Sheets /\ device.stripe \in 0 .. Stripes
      /\ Sheets \in Nat /\ Stripes \in Nat
  BY BoundAssumption DEF IInv, HostOK, Device
<1>2. phase' = "cdb"
  BY DEF Succeed, Leave, Begin
<1>3. KindsOK' /\ ~Executed' /\ ~SenseDue("end")'
  BY <1>2, BetweenCommands
<1>4. CASE Command = "media" /\ FALSE \in PaperBit(got) /\ Leave("completed")
           /\ UNCHANGED <<chunks, pages>>
  <2>1. got.kind = IF device.feeder > 0 THEN "paper" ELSE "noPaper"
    BY <1>1, <1>4, CommandFacts DEF Contents
  <2>2. ~(device.feeder > 0)
    BY <1>4, <2>1 DEF PaperBit, Arbitrary, Senses
  <2>3. Len(pages) = Sheets
    BY <1>1, <1>4, <2>2, CommandFacts DEF Counts
  <2> QED
    BY <1>4, <2>3 DEF Leave, WholeSoFar, FeedStep
<1>5. CASE /\ Command = "readImage" /\ got # Empty
           /\ chunks' = Append(chunks, got) /\ Begin(at) /\ UNCHANGED <<pages, outcome>>
  <2>1. at = 12 /\ at' = 12 /\ got = StripeOf(device.sheet, device.stripe)
    BY <1>1, <1>5, CommandFacts DEF Contents, Begin
  <2>2. got \in Items
    BY <1>1, <2>1 DEF Items, StripeOf, ItemKinds
  <2>3. /\ Len(chunks') = Len(chunks) + 1
        /\ \A k \in 1 .. Len(chunks) : chunks'[k] = chunks[k]
        /\ chunks'[Len(chunks) + 1] = got
    BY <1>1, <1>5, <2>2
  <2>4. Len(chunks) + 1 = device.stripe
    BY <2>1 DEF Counts
  <2>5. Counts'
    BY <1>1, <1>3, <1>5, <2>1, <2>3, <2>4 DEF Counts
  <2>6. ASSUME NEW k \in 1 .. Len(chunks') PROVE chunks'[k] = StripeOf(device.sheet, k)
    <3>1. CASE k = Len(chunks) + 1
      BY <2>1, <2>3, <2>4, <3>1
    <3>2. CASE k # Len(chunks) + 1
      <4>1. k \in 1 .. Len(chunks)
        BY <1>1, <2>3, <3>2
      <4> QED
        BY <2>3, <4>1 DEF Contents
    <3> QED
      BY <3>1, <3>2
  <2>7. Contents'
    BY <1>3, <2>1, <2>6 DEF Contents
  <2> QED
    BY <1>3, <1>5, <2>5, <2>7 DEF WholeSoFar, FeedStep
<1>6. CASE /\ at = Len(Script) /\ pages' = Append(pages, Sides(chunks)) /\ chunks' = <<>>
           /\ Begin(1) /\ UNCHANGED outcome
  <2>1. at = 15 /\ at' = 1
    BY <1>1, <1>6, CommandFacts DEF Begin
  <2>2. /\ Len(pages) + 1 = device.sheet /\ Len(chunks) = Stripes
    BY <2>1 DEF Counts
  <2>3. Sides(chunks) = Whole(Len(pages) + 1)
    BY <1>1, <2>2, PageIsWhole DEF Contents
  <2>4. Sides(chunks) \in [front : Seq(Items), back : Seq(Items)]
    BY <1>1, SidesOK
  <2>5. /\ Len(pages') = Len(pages) + 1 /\ DOMAIN pages' = 1 .. Len(pages) + 1
        /\ \A i \in 1 .. Len(pages) : pages'[i] = pages[i]
        /\ pages'[Len(pages) + 1] = Sides(chunks)
    BY <1>1, <1>6, <2>4
  <2>6. WholeSoFar'
    <3>1. ASSUME NEW i \in 1 .. Len(pages) + 1 PROVE pages'[i] = Whole(i)
      <4>1. CASE i = Len(pages) + 1
        BY <2>3, <2>5, <4>1
      <4>2. CASE i \in 1 .. Len(pages)
        BY <1>1, <2>5, <4>2, LenProperties DEF WholeSoFar
      <4> QED
        BY <1>1, <4>1, <4>2
    <3> QED
      BY <2>5, <3>1 DEF WholeSoFar, Whole, StripeOf
  <2>7. Counts'
    BY <1>1, <1>3, <1>6, <2>1, <2>2, <2>5 DEF Counts
  <2>8. Contents'
    BY <1>3, <1>6, <2>1 DEF Contents
  <2> QED
    BY <1>1, <1>3, <1>6, <2>2, <2>5, <2>6, <2>7, <2>8 DEF FeedStep
<1>7. CASE /\ at < Len(Script)
           /\ Command = "readImage" => got = Empty
           /\ Begin(at + 1) /\ UNCHANGED <<chunks, pages, outcome>>
  <2>1. at \in 1 .. 14 /\ at' = at + 1
    <3>1. Len(Script) = 15
      BY ScriptFacts
    <3> QED
      BY <1>1, <1>7, <3>1 DEF Begin
  <2>2. at # 12
    <3>1. ASSUME at = 12 PROVE got = StripeOf(device.sheet, device.stripe)
      BY <3>1 DEF Contents
    <3>2. StripeOf(device.sheet, device.stripe) # Empty
      BY DEF StripeOf, Empty, Item
    <3> QED
      BY <1>1, <1>7, <3>1, <3>2, CommandFacts
  <2>3. Counts'
    BY <1>1, <1>3, <1>7, <2>1, <2>2 DEF Counts
  <2>4. Contents'
    BY <1>3, <1>7, <2>1 DEF Contents
  <2> QED
    BY <1>3, <1>7, <2>3, <2>4 DEF WholeSoFar, FeedStep
<1> QED
  BY <1>4, <1>5, <1>6, <1>7 DEF Succeed

\* The host has fetched the sense buffer of a CHECK CONDITION.
LEMMA Sensed ==
  ASSUME IInv, WholeSoFar, outcome = "open", KindsOK, phase = "senseStatus", ~Doomed => Progress,
         Classify(sense), UNCHANGED device
  PROVE  /\ WholeSoFar' /\ FeedStep
         /\ outcome' = "open" => KindsOK' /\ Progress'
<1>1. PICK code \in SenseCodes(sense) :
        CASE code = "fine" -> Succeed(DataWithSense)
          [] code = "end" /\ Command = "readImage" ->
               Begin(AfterEnd) /\ UNCHANGED <<chunks, pages, outcome>>
          [] OTHER -> Fail
  BY DEF Classify
<1>2. code = IF sense.kind \in Senses THEN sense.kind ELSE "jam"
  BY DEF SenseCodes, KindsOK, Arbitrary, Senses
<1>3. CASE code = "fine"
  <2>1. ~Doomed /\ Executed /\ Got = DataWithSense
    BY <1>2, <1>3 DEF Doomed, Executed, SenseDue, Senses, Got, DataWithSense
  <2> QED
    BY <1>1, <1>3, <2>1, Onward
<1>4. CASE code = "end" /\ Command = "readImage"
  <2>1. ~Doomed /\ ~Executed /\ SenseDue("end")
    BY <1>2, <1>4 DEF Doomed, Executed, SenseDue, Senses
  <2>2. at = 12 /\ at' = 13 /\ phase' = "cdb" /\ UNCHANGED <<chunks, pages, outcome>>
    BY <1>1, <1>4, CommandFacts DEF IInv, HostOK, Begin, AfterEnd
  <2>3. KindsOK' /\ ~Executed'
    BY <2>2, BetweenCommands
  <2>4. Progress
    BY <2>1
  <2>5. Len(chunks) = Stripes
    BY <2>1, <2>2, <2>4 DEF Progress, Counts, Contents, IInv, HostOK
  <2>6. Progress'
    BY <2>1, <2>2, <2>3, <2>4, <2>5 DEF Progress, Counts, Contents
  <2> QED
    BY <2>2, <2>3, <2>6 DEF WholeSoFar, FeedStep
<1>5. CASE code # "fine" /\ ~(code = "end" /\ Command = "readImage")
  BY <1>1, <1>5 DEF Fail, Leave, WholeSoFar, FeedStep
<1> QED
  BY <1>3, <1>4, <1>5

-------------------------------------------------------------------------------
(* The steps, as long as host and scanner are in step *)

Kept == /\ WholeSoFar' /\ FeedStep
        /\ outcome' = "open" => KindsOK' /\ (~Doomed' => Progress')

LEMMA InPhase ==
  ASSUME IInv, FeedInv, Repeatable, NEW place, Open(place)
  PROVE  /\ phase = place /\ outcome = "open" /\ WholeSoFar /\ KindsOK
         /\ ~Doomed => Progress
         /\ ~ReadFails
<1>1. ~ReadFails
  <2>1. ASSUME ReadFails PROVE "read" \in faults.kinds
    BY <2>1, SufferOK DEF ReadFails, IInv
  <2> QED
    BY <2>1 DEF Repeatable
<1> QED
  BY <1>1 DEF Open, FeedInv

\* The host has read part of the answer; what it is to learn stays the same.
LEMMA ReadOnly ==
  ASSUME IInv, FeedInv, Repeatable, outcome = "open",
         UNCHANGED <<at, chunks, pages, outcome, device, faults>>,
         KindsOK', Executed' <=> Executed, SenseDue("end")' <=> SenseDue("end"),
         ~Doomed' => ~Doomed, Executed => Got' = Got
  PROVE  Kept
<1>1. ASSUME ~Doomed' PROVE Progress'
  BY <1>1 DEF FeedInv, Progress, Counts, Contents
<1> QED
  BY <1>1 DEF Kept, FeedInv, WholeSoFar, FeedStep

\* The scanner executes the command that has been written.
LEMMA FeedExecutes ==
  ASSUME IInv, FeedInv, Repeatable, phase \in {"cdb", "payload"}, Open(phase),
         Execute(Command), phase' = FirstRead,
         UNCHANGED <<at, attempt, data, sense, chunks, pages, outcome>>
  PROVE  Kept
<1>0. /\ outcome = "open" /\ WholeSoFar /\ pipe = <<>>
      /\ ~Doomed /\ ~Executed /\ Progress
  BY InPhase DEF Doomed, Executed, SenseDue, IInv, PipeFollowsPhase
<1>1. PICK item \in Items, status \in Statuses :
         /\ pipe' = IF Command \in DataCommands THEN <<item, Item(status)>> ELSE <<Item(status)>>
         /\ \/ /\ ~AtEnd(Command) /\ Position(device') = Position(After(Command))
               /\ Command \in DataCommands => Sent(Command) = <<item>>
               /\ \/ status = "good"
                  \/ status = "check" /\ device'.sense = "fine" /\ "soft" \in faults.kinds
            \/ /\ Position(device') = Position(device)
               /\ item = Empty
               /\ \/ status = "busy"
                  \/ /\ status = "check" /\ device'.sense \in {"end", "jam"}
                     /\ device'.sense = "end" => AtEnd(Command)
  BY <1>0, AnswerTells
<1>2. /\ phase' \in {"data", "status"} /\ StatusDue' = status
      /\ phase' = "data" => Got' = item
      /\ Command \in DataCommands => phase' = "data"
  BY <1>1 DEF StatusDue, FirstRead, Item, Got
<1>3. /\ \A code : SenseDue(code)' <=> (status = "check" /\ device'.sense = code)
      /\ Executed' <=> (status = "good" \/ (status = "check" /\ device'.sense = "fine"))
      /\ ~Doomed'
  BY <1>2 DEF SenseDue, Executed, Doomed
<1>4. faults'.kinds = faults.kinds
  BY SufferOK DEF Execute, IInv
<1>5. KindsOK'
  BY <1>1, <1>2, <1>3, <1>4 DEF KindsOK
<1>6. at \in 1 .. 15 /\ device \in Device /\ Sheets \in Nat /\ Len(pages) \in Nat /\ Len(chunks) \in Nat
  BY BoundAssumption DEF IInv, HostOK
<1>7. CASE /\ ~AtEnd(Command) /\ Position(device') = Position(After(Command))
           /\ Command \in DataCommands => Sent(Command) = <<item>>
           /\ Executed'
  <2>1. /\ at = 11 => /\ device'.feeder = device.feeder - 1
                      /\ device'.sheet = Sheets - device.feeder + 1
                      /\ device'.stripe = 0
        /\ at = 12 => /\ device'.feeder = device.feeder /\ device'.sheet = device.sheet
                      /\ device'.stripe = device.stripe + 1
        /\ at \notin {11, 12} => Position(device') = Position(device)
    BY <1>6, <1>7, CommandFacts DEF Position, After, Device
  <2>2. Counts'
    BY <1>0, <1>6, <1>7, <2>1 DEF Progress, Counts, Position, Device
  <2>3. \A k \in 1 .. Len(chunks) : chunks[k] = StripeOf(device'.sheet, k)
    BY <1>0, <1>6, <2>1 DEF Progress, Counts, Contents, Position
  <2>4. at = 12 => Got' = StripeOf(device'.sheet, device'.stripe)
    <3>1. ASSUME at = 12
          PROVE  Sent(Command) = <<StripeOf(device.sheet, device.stripe + 1)>>
                 /\ Command \in DataCommands
      BY <1>6, <3>1, CommandFacts DEF Sent, StripeOf, DataCommands
    <3> QED
      BY <1>2, <1>7, <2>1, <3>1
  <2>5. at = 1 => Got'.kind = IF device'.feeder > 0 THEN "paper" ELSE "noPaper"
    <3>1. ASSUME at = 1
          PROVE  Sent(Command) = <<Item(IF device.feeder > 0 THEN "paper" ELSE "noPaper")>>
                 /\ Command \in DataCommands
      BY <1>6, <3>1, CommandFacts DEF Sent, DataCommands
    <3> QED
      BY <1>2, <1>7, <2>1, <3>1 DEF Item, Position
  <2>6. ~SenseDue("end")'
    BY <1>3, <1>7
  <2> QED
    BY <1>0, <1>5, <2>2, <2>3, <2>4, <2>5, <2>6
    DEF Kept, WholeSoFar, FeedStep, Progress, Contents
<1>8. CASE /\ Position(device') = Position(device) /\ ~Executed'
           /\ SenseDue("end")' => AtEnd(Command)
  <2>1. device'.feeder = device.feeder /\ device'.sheet = device.sheet /\ device'.stripe = device.stripe
    BY <1>8 DEF Position
  <2>2. Counts'
    BY <1>0, <1>8, <2>1 DEF Progress, Counts
  <2>3. at = 12 /\ SenseDue("end")' => device'.stripe = Stripes
    BY <1>6, <1>8, <2>1, CommandFacts DEF AtEnd
  <2>4. Contents'
    BY <1>0, <1>8, <2>1, <2>3 DEF Progress, Contents
  <2> QED
    BY <1>0, <1>5, <2>2, <2>4 DEF Kept, WholeSoFar, FeedStep, Progress
<1> QED
  BY <1>1, <1>3, <1>7, <1>8

LEMMA FeedSendCDB == ASSUME IInv, FeedInv, Repeatable, SendCDB PROVE Kept
<1>1. /\ phase = "cdb" /\ Open(phase) /\ outcome = "open" /\ WholeSoFar /\ pipe = <<>>
      /\ ~Doomed /\ ~Executed /\ Progress /\ KindsOK
  BY InPhase DEF Doomed, Executed, SenseDue, IInv, PipeFollowsPhase, SendCDB, Open
<1>2. CASE WriteFails
  BY <1>1, <1>2, Again DEF Kept, WriteFails
<1>3. CASE /\ TakeCDB(Command)
           /\ phase' = IF Command \in PayloadCommands THEN "payload" ELSE FirstRead
           /\ UNCHANGED <<at, attempt, data, sense, chunks, pages, outcome>>
  <2>1. CASE /\ Command \in PayloadCommands /\ phase' = "payload"
             /\ UNCHANGED <<pipe, device, faults>>
    <3>1. (\A code : ~SenseDue(code)') /\ ~Executed' /\ ~Doomed' /\ KindsOK'
      BY <2>1 DEF SenseDue, Executed, Doomed, KindsOK
    <3> QED
      BY <1>1, <1>3, <2>1, <3>1, ReadOnly DEF SenseDue
  <2>2. CASE Command \notin PayloadCommands /\ Execute(Command)
    BY <1>1, <1>3, <2>2, FeedExecutes
  <2> QED
    BY <1>3, <2>1, <2>2, TakeCDBOK
<1> QED
  BY <1>2, <1>3 DEF SendCDB

LEMMA FeedSendPayload == ASSUME IInv, FeedInv, Repeatable, SendPayload PROVE Kept
<1>1. /\ phase = "payload" /\ Open(phase) /\ outcome = "open" /\ WholeSoFar /\ pipe = <<>>
      /\ ~Doomed /\ ~Executed /\ Progress /\ awaits = "payload"
  BY InPhase DEF Doomed, Executed, SenseDue, IInv, PipeFollowsPhase, SendPayload, Open
<1>2. CASE WriteFails
  BY <1>1, <1>2, Again DEF Kept, WriteFails
<1>3. CASE /\ TakePayload(Command) /\ phase' = FirstRead
           /\ UNCHANGED <<at, attempt, data, sense, chunks, pages, outcome>>
  BY <1>1, <1>3, TakePayloadOK, FeedExecutes
<1> QED
  BY <1>2, <1>3 DEF SendPayload

LEMMA TwoInPipe ==
  ASSUME pipe \in Seq(Items), Len(pipe) = 2
  PROVE  pipe # <<>> /\ Head(pipe) = pipe[1] /\ Tail(pipe)[1] = pipe[2]
OBVIOUS

LEMMA FeedReadData == ASSUME IInv, FeedInv, Repeatable, ReadData PROVE Kept
<1>1. /\ phase = "data" /\ outcome = "open" /\ KindsOK /\ ~ReadFails
      /\ pipe \in Seq(Items) /\ Len(pipe) = 2
  BY InPhase DEF ReadData, IInv, PipeFollowsPhase
<1>2. /\ data' = pipe[1] /\ pipe'[1] = pipe[2] /\ phase' = "status"
      /\ UNCHANGED <<at, attempt, sense, chunks, pages, outcome, faults, device>>
  BY <1>1, TwoInPipe DEF ReadData
<1>3. StatusDue' = StatusDue /\ Got' = Got
  BY <1>1, <1>2 DEF StatusDue, Got
<1>4. \A code : SenseDue(code)' <=> SenseDue(code)
  BY <1>1, <1>2, <1>3 DEF SenseDue
<1>5. (Executed' <=> Executed) /\ ~Doomed /\ KindsOK'
  BY <1>1, <1>2, <1>3, <1>4 DEF Executed, Doomed, KindsOK
<1> QED
  BY <1>1, <1>2, <1>3, <1>4, <1>5, ReadOnly

LEMMA FeedReadStatus == ASSUME IInv, FeedInv, Repeatable, ReadStatus PROVE Kept
<1>1. /\ phase = "status" /\ outcome = "open" /\ KindsOK /\ ~ReadFails /\ WholeSoFar
      /\ ~Doomed => Progress
      /\ pipe \in Seq(Items) /\ Len(pipe) = 1 /\ UNCHANGED device
  BY InPhase DEF ReadStatus, IInv, PipeFollowsPhase
<1>2. /\ ~Doomed /\ Got = data /\ pipe[1].kind \in Statuses /\ StatusDue = pipe[1].kind
      /\ Head(pipe) = pipe[1]
  BY <1>1 DEF Doomed, Got, KindsOK, StatusDue
<1>3. StatusByte(Head(pipe)) = {pipe[1].kind}
  BY <1>2 DEF StatusByte, Statuses, Arbitrary, Senses
<1>4. /\ UNCHANGED faults
      /\ CASE pipe[1].kind = "good" -> Succeed(data)
           [] pipe[1].kind = "check" ->
                /\ phase' = "senseCdb"
                /\ UNCHANGED <<at, attempt, data, sense, chunks, pages, outcome>>
           [] OTHER -> Retry
  BY <1>1, <1>3 DEF ReadStatus
<1>5. CASE pipe[1].kind = "good"
  <2>1. Executed
    BY <1>1, <1>2, <1>5 DEF Executed
  <2> QED
    BY <1>1, <1>2, <1>4, <1>5, <2>1, Onward DEF Kept
<1>6. CASE pipe[1].kind = "check"
  <2>1. phase' = "senseCdb" /\ UNCHANGED <<at, data, chunks, pages, outcome, faults, device>>
    BY <1>1, <1>4, <1>6
  <2>2. \A code : SenseDue(code)' <=> SenseDue(code)
    BY <1>1, <1>2, <1>6, <2>1 DEF SenseDue
  <2>3. (Executed' <=> Executed) /\ KindsOK' /\ Got' = Got
    BY <1>1, <1>2, <1>6, <2>1, <2>2 DEF Executed, KindsOK, Got
  <2> QED
    BY <1>1, <1>2, <2>1, <2>2, <2>3, ReadOnly
<1>7. CASE pipe[1].kind \notin {"good", "check"}
  <2>1. ~Executed
    BY <1>1, <1>2, <1>7 DEF Executed, SenseDue
  <2> QED
    BY <1>1, <1>2, <1>4, <1>7, <2>1, Again DEF Kept
<1> QED
  BY <1>5, <1>6, <1>7

LEMMA FeedSendSenseCDB == ASSUME IInv, FeedInv, Repeatable, SendSenseCDB PROVE Kept
<1>0. Open("senseCdb")
  BY DEF SendSenseCDB
<1>1. /\ phase = "senseCdb" /\ outcome = "open" /\ KindsOK /\ WholeSoFar
      /\ ~Doomed => Progress
      /\ pipe = <<>>
  BY <1>0, InPhase DEF IInv, PipeFollowsPhase
<1>2. /\ ~Doomed /\ Got = data
      /\ Executed <=> device.sense = "fine"
      /\ SenseDue("end") <=> device.sense = "end"
      /\ Executed => "soft" \in faults.kinds
  BY <1>1 DEF Doomed, Got, Executed, SenseDue, KindsOK
<1>3. CASE WriteFails
  <2>1. "write" \in faults.kinds
    BY <1>3, SufferOK DEF IInv, WriteFails
  <2>2. ~Executed
    BY <1>2, <2>1 DEF Repeatable
  <2> QED
    BY <1>1, <1>2, <1>3, <2>2, Again DEF Kept, WriteFails
<1>4. CASE /\ Execute("sense") /\ phase' = "senseData"
           /\ UNCHANGED <<at, attempt, data, sense, chunks, pages, outcome>>
  <2>1. PICK item \in Items, status \in Statuses :
           /\ pipe' = IF "sense" \in DataCommands THEN <<item, Item(status)>> ELSE <<Item(status)>>
           /\ \/ /\ ~AtEnd("sense") /\ Position(device') = Position(After("sense"))
                 /\ "sense" \in DataCommands => Sent("sense") = <<item>>
              \/ /\ Position(device') = Position(device)
                 /\ item = Empty
    BY <1>1, <1>4, AnswerTells
  <2>2. pipe'[1] = item
    BY <2>1 DEF DataCommands
  <2>3. Position(device') = Position(device)
    BY <2>1 DEF Position, After, IInv, Device
  <2>4. device'.feeder = device.feeder /\ device'.sheet = device.sheet /\ device'.stripe = device.stripe
    BY <2>3 DEF Position
  <2>5. item.kind = device.sense \/ item.kind = "empty"
    BY <2>1 DEF Sent, DataCommands, Item, Empty
  <2>6. /\ \A code : SenseDue(code)' <=> item.kind = code
        /\ Executed' <=> item.kind = "fine"
        /\ Doomed' <=> item.kind \notin {"fine", "end"}
        /\ Got' = data
    BY <1>4, <2>2 DEF SenseDue, Executed, Doomed, Got
  <2>7. KindsOK'
    BY <1>4, <2>2, <2>5 DEF KindsOK, IInv, Device
  <2>8. ASSUME ~Doomed' PROVE Progress'
    <3>1. item.kind = device.sense
      BY <2>5, <2>6, <2>8
    <3>2. (Executed' <=> Executed) /\ (SenseDue("end")' <=> SenseDue("end"))
      BY <1>2, <2>6, <3>1
    <3> QED
      BY <1>1, <1>2, <1>4, <2>4, <2>6, <3>2 DEF Progress, Counts, Contents
  <2> QED
    BY <1>1, <1>4, <2>7, <2>8 DEF Kept, WholeSoFar, FeedStep
<1> QED
  BY <1>3, <1>4, TakeCDBOK DEF SendSenseCDB, PayloadCommands

LEMMA FeedReadSense == ASSUME IInv, FeedInv, Repeatable, ReadSense PROVE Kept
<1>1. /\ phase = "senseData" /\ outcome = "open" /\ KindsOK /\ ~ReadFails
      /\ pipe \in Seq(Items) /\ Len(pipe) = 2
  BY InPhase DEF ReadSense, IInv, PipeFollowsPhase
<1>2. /\ sense' = pipe[1] /\ phase' = "senseStatus"
      /\ UNCHANGED <<at, attempt, data, chunks, pages, outcome, faults, device>>
  BY <1>1, TwoInPipe DEF ReadSense
<1>3. \A code : SenseDue(code)' <=> SenseDue(code)
  BY <1>1, <1>2 DEF SenseDue
<1>4. /\ Executed' <=> Executed
      /\ Doomed' <=> Doomed
      /\ Got' = Got
  BY <1>1, <1>2, <1>3 DEF Executed, Doomed, Got
<1>5. KindsOK'
  BY <1>1, <1>2 DEF KindsOK
<1> QED
  BY <1>1, <1>2, <1>3, <1>4, <1>5, ReadOnly

LEMMA FeedReadSenseStatus == ASSUME IInv, FeedInv, Repeatable, ReadSenseStatus PROVE Kept
<1>1. /\ phase = "senseStatus" /\ outcome = "open" /\ KindsOK /\ WholeSoFar
      /\ ~Doomed => Progress
      /\ Classify(sense) /\ UNCHANGED device
  BY InPhase DEF ReadSenseStatus
<1> QED
  BY <1>1, Sensed DEF Kept

-------------------------------------------------------------------------------
LEMMA FeedPreserved ==
  ASSUME IInv, FeedInv, [Next]_vars
  PROVE  FeedInv' /\ Repeatable' = Repeatable /\ (Repeatable => FeedStep)
<1>1. faults'.kinds = faults.kinds
  BY SufferOK DEF IInv, Next, Host, SendCDB, SendPayload, WriteFails, TakeCDB, TakePayload, ReadData,
     ReadStatus, SendSenseCDB, ReadSense, ReadSenseStatus, ReadFails, Execute, PaperPulled, vars
<1>2. Repeatable' = Repeatable
  BY <1>1 DEF Repeatable
<1>3. CASE Repeatable /\ Host
  BY <1>2, <1>3, FeedSendCDB, FeedSendPayload, FeedReadData, FeedReadStatus, FeedSendSenseCDB, FeedReadSense,
     FeedReadSenseStatus DEF Host, Kept, FeedInv
<1>4. CASE Repeatable /\ UNCHANGED vars
  BY <1>2, <1>4 DEF vars, FeedInv, WholeSoFar, FeedStep, KindsOK, Doomed, Progress, Counts, Contents,
     Executed, SenseDue, StatusDue, Got
<1>5. ~(Repeatable /\ PaperPulled)
  <2>1. PaperPulled => "pulled" \in faults.kinds
    BY SufferOK DEF IInv, PaperPulled
  <2> QED
    BY <2>1 DEF Repeatable
<1>6. CASE ~Repeatable
  BY <1>2, <1>6 DEF FeedInv
<1> QED
  BY <1>2, <1>3, <1>4, <1>5, <1>6 DEF Next

LEMMA FeedInvariance == Spec => [](IInv /\ FeedInv)
<1>1. Init => IInv /\ FeedInv
  BY Initially, FeedInitially
<1>2. (IInv /\ FeedInv) /\ [Next]_vars => (IInv /\ FeedInv)'
  BY Inductive, FeedPreserved
<1> QED
  BY <1>1, <1>2, PTL DEF Spec

\* Every page the session hands to the scan loop is the next sheet of the
\* feeder, whole, with its stripes in order, on the side they belong to
\* (scan.go:59, image.go:47), through every retry of a command.
THEOREM PagesAreWholeSheets == Spec => []SheetsComplete
<1>1. FeedInv => SheetsComplete
  BY DEF FeedInv, WholeSoFar, Whole, StripeOf, SheetsComplete
<1> QED
  BY FeedInvariance, <1>1, PTL

\* The session is a SheetFeed: a step of it delivers the next sheet, or ends the
\* session, and with "completed" only when the feeder is empty, or is none that
\* the scan loop sees.
THEOREM SessionRefinesSheetFeed == Spec => ImplementsSheetFeed
<1>1. Init => Feed!Init
  BY DEF Init, Feed!Init
<1>2. IInv /\ FeedInv /\ [Next]_vars => [Feed!Next]_<<IF Repeatable THEN Len(pages) ELSE 0, IF Repeatable THEN outcome ELSE "open">>
  <2> SUFFICES ASSUME IInv, FeedInv, [Next]_vars
               PROVE  [Feed!Next]_<<IF Repeatable THEN Len(pages) ELSE 0,
                                    IF Repeatable THEN outcome ELSE "open">>
    OBVIOUS
  <2>1. Repeatable' = Repeatable /\ (Repeatable => FeedStep)
    BY FeedPreserved
  <2>2. CASE ~Repeatable
    BY <2>1, <2>2
  <2>3. CASE Repeatable
    BY <2>1, <2>3 DEF FeedStep, Feed!Next, Feed!Deliver, Feed!End
  <2> QED
    BY <2>2, <2>3
<1> QED
  BY <1>1, <1>2, FeedInvariance, PTL DEF Spec, ImplementsSheetFeed, Feed!Spec
===============================================================================
