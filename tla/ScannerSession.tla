--------------------------- MODULE ScannerSession ---------------------------
(***************************************************************************)
(* A scanning session of the Doxie driver (internal/doxiedx400: driver.go, *)
(* commands.go, scan.go, sense.go, image.go) over the SCSI-like transport  *)
(* (internal/scsiusb/cdb.go) and the bulk pipe to the scanner.             *)
(*                                                                         *)
(* The session repeats HasNextPage and ScanPage as the scan loop calls them*)
(* (scanjobs/manager.go), and both are sequences of calls of command, each *)
(* of which goes through the write of a CDB, that of its payload if it has *)
(* one, an optional data phase, a status byte and, after CHECK CONDITION, a*)
(* REQUEST SENSE.  A step is one write or one read of scsiusb.BulkDevice.  *)
(*                                                                         *)
(* The scanner is external.  It is modelled from what the driver's tests   *)
(* script: it executes a command when the CDB and its payload have been    *)
(* written, and queues the transfers that answer it; if the payload does   *)
(* not come, the next CDB starts it over (TestCommand_OutDataWriteError-   *)
(* Retries).  The fault "muddle" is a scanner that takes that CDB for the  *)
(* payload it waits for.  Of a transfer only what it is matters: image data*)
(* is the number of the sheet and of the stripe in it.                     *)
(***************************************************************************)
EXTENDS Naturals, Sequences

CONSTANTS Sheets,   \* sheets in the feeder
          Stripes,  \* bound: image-data chunks of one sheet
          Duplex,   \* ScanOptions.Duplex
          Retries,  \* defaultRetries, 4 in the code
          Troubles  \* what may go wrong in one session, and (bound) how often

\* write:  a CDB or a payload is not delivered
\* muddle: the CDB after a payload that was not delivered is taken for it
\* read:   a read fails
\* busy:   the scanner answers BUSY       jam:   it reports a hardware error
\* soft:   sense key 0, "it succeeded"    pulled: a sheet is taken out by hand
\* split:  data in two short transfers    bare:  an error without data phase
AllKinds == {"write", "muddle", "read", "busy", "jam", "soft", "pulled", "split", "bare"}

ASSUME BoundAssumption == /\ {Sheets, Stripes} \subseteq Nat
                          /\ Retries \in Nat \ {0} /\ Duplex \in BOOLEAN
ASSUME TroublesAssumption == Troubles \subseteq [kinds : SUBSET AllKinds, left : Nat]

VARIABLES
  at,       \* the command of the script that is being executed
  phase,    \* where scsiusb.Command stands
  attempt,  \* failed attempts of this Command
  data,     \* what its data phase has read
  sense,    \* the sense buffer it has fetched
  chunks,   \* the image data scanOnePage has collected
  pages,    \* history: the pages handed to the scan loop
  outcome,  \* "open" until the scan loop leaves the session
  pipe,     \* transfers the scanner has queued
  device,   \* the scanner's own state
  awaits,   \* what it takes the next write for, a CDB or a payload
  faults    \* what may still go wrong, and how often

vars == <<at, phase, attempt, data, sense, chunks, pages, outcome, pipe, device, awaits,
          faults>>

\* hasPaper, and then scanOnePage once for every sheet.
Script == <<"media", "window", "calibration", "matrix", "gamma", "gamma", "gamma",
            "truncate", "truncate", "reserve", "scan", "readImage", "sense",
            "release", "release">>
Command == Script[at]

\* The commands with inLen > 0.  Mutant: the calibration is not read.
DataCommandsFewer == {"media", "readImage", "sense"}
DataCommands == {"media", "calibration", "readImage", "sense"}

\* The commands with outData: setWindow, sendColorMatrix, sendGammaChannel and
\* sendAttachTruncate.
PayloadCommands == {"window", "matrix", "gamma", "truncate"}

Item(kind) == [kind |-> kind, sheet |-> 0, stripe |-> 0]
Statuses == {"good", "check", "busy"}
Senses == {"fine", "end", "jam"}
ItemKinds == Statuses \cup Senses \cup {"empty", "paper", "noPaper", "calibration", "stripe", "half", "rest"}
Items == [kind : ItemKinds, sheet : 0 .. Sheets, stripe : 0 .. Stripes]
Empty == Item("empty")

Device == [feeder : 0 .. Sheets, sheet : 0 .. Sheets, stripe : 0 .. Stripes,
           reserved : BOOLEAN, sense : Senses]

Phases == {"cdb", "payload", "data", "status", "senseCdb", "senseData", "senseStatus"}

Init == /\ at = 1 /\ phase = "cdb" /\ attempt = 0
        /\ data = Empty /\ sense = Empty
        /\ chunks = <<>> /\ pages = <<>> /\ outcome = "open"
        /\ pipe = <<>> /\ awaits = "cdb"
        /\ device = [feeder |-> Sheets, sheet |-> 0, stripe |-> 0,
                     reserved |-> FALSE, sense |-> "fine"]
        /\ faults \in Troubles

-------------------------------------------------------------------------------
(* The scanner *)

\* What the scanner becomes, and the data it sends, when it executes cmd
\* without an error.
After(cmd) ==
  CASE cmd = "scan" -> [device EXCEPT !.feeder = @ - 1, !.sheet = Sheets - device.feeder + 1,
                                      !.stripe = 0]
    [] cmd = "readImage" -> [device EXCEPT !.stripe = @ + 1]
    [] cmd = "reserve" -> [device EXCEPT !.reserved = TRUE]
    [] cmd = "release" -> [device EXCEPT !.reserved = FALSE]
    [] cmd = "sense" -> [device EXCEPT !.sense = "fine"]
    [] OTHER -> device

Sent(cmd) ==
  CASE cmd = "media" -> <<Item(IF device.feeder > 0 THEN "paper" ELSE "noPaper")>>
    [] cmd = "calibration" -> <<Item("calibration")>>
    [] cmd = "sense" -> <<Item(device.sense)>>
    [] cmd = "readImage" -> <<[kind |-> "stripe", sheet |-> device.sheet, stripe |-> device.stripe + 1]>>
    [] OTHER -> <<>>

\* The end of the document: no sheet to take, or no more of it to send.
AtEnd(cmd) == \/ cmd = "scan" /\ device.feeder = 0
              \/ cmd = "readImage" /\ device.stripe = Stripes

NoData(cmd) == IF cmd \in {"media", "calibration", "readImage", "sense"} THEN <<Empty>> ELSE <<>>

Answer(dev, sent, kind) == [device |-> dev, sent |-> sent, kind |-> kind]

Answers(cmd) ==
  {IF AtEnd(cmd)
   THEN Answer([device EXCEPT !.sense = "end"], NoData(cmd) \o <<Item("check")>>, "")
   ELSE Answer(After(cmd), Sent(cmd) \o <<Item("good")>>, ""),
   Answer(device, NoData(cmd) \o <<Item("busy")>>, "busy"),
   Answer([device EXCEPT !.sense = "jam"], NoData(cmd) \o <<Item("check")>>, "jam"),
   Answer([device EXCEPT !.sense = "jam"], <<Item("check")>>, "bare")}
  \cup (IF AtEnd(cmd) THEN {}
        ELSE {Answer([After(cmd) EXCEPT !.sense = "fine"], Sent(cmd) \o <<Item("check")>>, "soft")})
  \cup (IF AtEnd(cmd) \/ cmd # "readImage" THEN {}
        ELSE {Answer(After(cmd), <<Item("half"), Item("rest"), Item("good")>>, "split")})

\* A fault is taken from those that are left; "" is none.
Suffer(kind) == \/ kind = "" /\ UNCHANGED faults
                \/ /\ kind \in faults.kinds /\ faults.left > 0
                   /\ faults' = [faults EXCEPT !.left = @ - 1]

Execute(cmd) == \E answer \in Answers(cmd) :
                  /\ Suffer(answer.kind)
                  /\ device' = answer.device
                  /\ pipe' = pipe \o answer.sent

\* Bytes that are taken for what they are not: for nothing, for the start of
\* some command, or for all of one, which is refused or not.
Misread == \/ awaits' \in {"cdb", "payload"} /\ UNCHANGED <<pipe, device>>
           \/ awaits' = "cdb" /\ pipe' = Append(pipe, Item("good")) /\ UNCHANGED device
           \/ /\ awaits' = "cdb" /\ pipe' = Append(pipe, Item("check"))
              /\ device' = [device EXCEPT !.sense = "jam"]

\* A CDB is delivered.
TakeCDB(cmd) ==
  \/ /\ cmd \in PayloadCommands
     /\ awaits' = "payload"
     /\ UNCHANGED <<pipe, device, faults>>
  \/ /\ cmd \notin PayloadCommands
     /\ awaits' = "cdb"
     /\ Execute(cmd)
  \/ awaits = "payload" /\ Suffer("muddle") /\ Misread

\* A payload is delivered; a scanner that does not wait for one takes it for a
\* CDB.
TakePayload(cmd) ==
  \/ awaits = "payload" /\ awaits' = "cdb" /\ Execute(cmd)
  \/ awaits = "cdb" /\ Misread /\ UNCHANGED faults

\* A read that fails may or may not have consumed what it was to read.
ReadFails == /\ Suffer("read")
             /\ pipe' \in {pipe} \cup (IF pipe = <<>> THEN {} ELSE {Tail(pipe)})

-------------------------------------------------------------------------------
(* The session, above scsiusb.Command *)

\* The next command.
Begin(next) == /\ at' = next
               /\ phase' = "cdb" /\ attempt' = 0 /\ data' = Empty /\ sense' = Empty

Leave(how) == outcome' = how /\ Begin(1)

\* What the bytes of a transfer say when they are read as something else.
Arbitrary == {"calibration", "stripe", "half", "rest"} \cup Senses

\* hasPaper looks at bit 0 of the first byte, which is clear in every status
\* byte.  Mutant: the bit is inverted.
PaperBitInverted(item) ==
  IF item.kind \in Arbitrary THEN BOOLEAN ELSE {item.kind # "paper"}
PaperBit(item) ==
  IF item.kind \in Arbitrary THEN BOOLEAN ELSE {item.kind = "paper"}

\* Even-indexed chunks are the front, odd-indexed ones the back (indexes from
\* 0).
Sides(all) ==
  IF Duplex
  THEN [front |-> [i \in 1 .. (Len(all) + 1) \div 2 |-> all[2 * i - 1]],
        back |-> [i \in 1 .. Len(all) \div 2 |-> all[2 * i]]]
  ELSE [front |-> all, back |-> <<>>]

\* command returns data without an error: from the last command the scan loop
\* gets the page and asks for the next one.
Succeed(got) ==
  \/ /\ Command = "media" /\ FALSE \in PaperBit(got)
     /\ Leave("completed")
     /\ UNCHANGED <<chunks, pages>>
  \/ /\ Command = "readImage" /\ got # Empty
     /\ chunks' = Append(chunks, got)
     /\ Begin(at)
     /\ UNCHANGED <<pages, outcome>>
  \/ /\ at = Len(Script)
     /\ pages' = Append(pages, Sides(chunks))
     /\ chunks' = <<>>
     /\ Begin(1)
     /\ UNCHANGED outcome
  \/ /\ at < Len(Script)
     /\ Command = "media" => TRUE \in PaperBit(got)
     /\ Command = "readImage" => got = Empty
     /\ Begin(at + 1)
     /\ UNCHANGED <<chunks, pages, outcome>>

Fail == Leave("failed") /\ UNCHANGED <<chunks, pages>>

\* Where scanOnePage goes when a READ reports the end of the document.
\* Mutant: it reads on.
ReadOn == at
AfterEnd == at + 1

\* classifySense: a buffer that is too short is an error, like any code that
\* is neither sense key 0 nor the end of the document.
SenseCodes(buffer) ==
  CASE buffer.kind \in Senses -> {buffer.kind}
    [] buffer.kind \in Arbitrary \ Senses -> Senses
    [] OTHER -> {"jam"}

\* Mutant: the data that came with sense key 0 is dropped.
DataDropped == Empty
DataWithSense == data

\* What command and its caller do with a CHECK CONDITION: only the loop over
\* the image data tells the end of the document from an error.
Classify(buffer) ==
  \E code \in SenseCodes(buffer) :
    CASE code = "fine" -> Succeed(DataWithSense)
      [] code = "end" /\ Command = "readImage" ->
           Begin(AfterEnd) /\ UNCHANGED <<chunks, pages, outcome>>
      [] OTHER -> Fail

-------------------------------------------------------------------------------
(* scsiusb.Command *)

\* Mutant: one attempt too many.
IsLastLate == attempt = Retries
IsLast == attempt + 1 = Retries

\* The whole exchange is tried again, or given up.
Retry ==
  IF IsLast
  THEN Fail
  ELSE /\ attempt' = attempt + 1
       /\ phase' = "cdb" /\ data' = Empty
       /\ UNCHANGED <<at, sense, chunks, pages, outcome>>

Open(place) == outcome = "open" /\ phase = place

\* What Command reads first when all is written.
FirstRead == IF Command \in DataCommands THEN "data" ELSE "status"

WriteFails == Suffer("write") /\ Retry /\ UNCHANGED <<pipe, device, awaits>>

SendCDB ==
  /\ Open("cdb")
  /\ \/ /\ TakeCDB(Command)
        /\ phase' = IF Command \in PayloadCommands THEN "payload" ELSE FirstRead
        /\ UNCHANGED <<at, attempt, data, sense, chunks, pages, outcome>>
     \/ WriteFails

\* writeAll(dev, outData), with an error path of its own.
SendPayload ==
  /\ Open("payload")
  /\ \/ /\ TakePayload(Command)
        /\ phase' = FirstRead
        /\ UNCHANGED <<at, attempt, data, sense, chunks, pages, outcome>>
     \/ WriteFails

\* readExact: a short or empty transfer ends it, whatever was to come.
ReadData ==
  /\ Open("data")
  /\ \/ /\ pipe # <<>>
        /\ data' = Head(pipe) /\ pipe' = Tail(pipe)
        /\ phase' = "status"
        /\ UNCHANGED <<at, attempt, sense, chunks, pages, outcome, faults>>
     \/ ReadFails /\ Retry
  /\ UNCHANGED <<device, awaits>>

\* The byte that is read as the status: that of a status or media transfer,
\* the first one of any other transfer.
StatusByte(item) ==
  CASE item.kind \in Statuses -> {item.kind}
    [] item.kind = "noPaper" -> {"good"}
    [] item.kind \in {"paper", "empty"} -> {"unexpected"}
    [] item.kind \in Arbitrary -> Statuses \cup {"unexpected"}

ReadStatus ==
  /\ Open("status")
  /\ \/ /\ pipe # <<>>
        /\ pipe' = Tail(pipe)
        /\ UNCHANGED faults
        /\ \E status \in StatusByte(Head(pipe)) :
             CASE status = "good" -> Succeed(data)
               [] status = "check" -> /\ phase' = "senseCdb"
                                      /\ UNCHANGED <<at, attempt, data, sense, chunks, pages, outcome>>
               [] OTHER -> Retry
     \/ ReadFails /\ Retry
  /\ UNCHANGED <<device, awaits>>

\* requestSense; the status byte at its end is read and ignored.
SendSenseCDB ==
  /\ Open("senseCdb")
  /\ \/ /\ TakeCDB("sense")
        /\ phase' = "senseData"
        /\ UNCHANGED <<at, attempt, data, sense, chunks, pages, outcome>>
     \/ WriteFails

ReadSense ==
  /\ Open("senseData")
  /\ \/ /\ pipe # <<>>
        /\ sense' = Head(pipe) /\ pipe' = Tail(pipe)
        /\ phase' = "senseStatus"
        /\ UNCHANGED <<at, attempt, data, chunks, pages, outcome, faults>>
     \/ ReadFails /\ Retry
  /\ UNCHANGED <<device, awaits>>

ReadSenseStatus ==
  /\ Open("senseStatus")
  /\ \/ pipe # <<>> /\ pipe' = Tail(pipe) /\ UNCHANGED faults
     \/ ReadFails
  /\ Classify(sense)
  /\ UNCHANGED <<device, awaits>>

-------------------------------------------------------------------------------
PaperPulled ==
  /\ device.feeder > 0
  /\ Suffer("pulled")
  /\ device' = [device EXCEPT !.feeder = @ - 1]
  /\ UNCHANGED <<at, phase, attempt, data, sense, chunks, pages, outcome, pipe, awaits>>

Host == SendCDB \/ SendPayload \/ ReadData \/ ReadStatus \/ SendSenseCDB \/ ReadSense \/ ReadSenseStatus

Next == Host \/ PaperPulled

Spec == Init /\ [][Next]_vars

\* The goroutine runs, and a read returns once the scanner has sent something;
\* nothing makes the scanner send what it does not owe (Read has no timeout).
FairSpec == Spec /\ WF_vars(Host)

-------------------------------------------------------------------------------
(* Properties *)

TypeOK == /\ at \in 1 .. Len(Script)
          /\ phase \in Phases
          /\ attempt \in 0 .. Retries - 1
          /\ data \in Items /\ sense \in Items
          /\ chunks \in Seq(Items)
          /\ pages \in Seq([front : Seq(Items), back : Seq(Items)])
          /\ outcome \in {"open", "completed", "failed"}
          /\ pipe \in Seq(Items)
          /\ device \in Device /\ awaits \in {"cdb", "payload"}
          /\ faults \in [kinds : SUBSET AllKinds, left : Nat]

\* The faults after which Command may send a command again: the scanner has
\* not executed it, and one that has its CDB alone starts it over.  (A success
\* reported by sense key 0 is not sent again unless the REQUEST SENSE that
\* follows is not delivered.)  Nothing is claimed of a "muddle".
Repeatable == \E kinds \in {{"write", "busy", "jam"}, {"soft", "busy", "jam"}} :
                faults.kinds \subseteq kinds

\* Host and scanner stay in step: when a command starts, or starts over, there
\* is nothing left in the pipe that it could take for its own answer, and when
\* the status is due it is the only thing in the pipe.
InStep == Repeatable => /\ phase \in {"cdb", "payload", "senseCdb"} => pipe = <<>>
                        /\ phase \in {"status", "senseStatus"} => Len(pipe) = 1

\* Every page is the next sheet, whole: the front has all its stripes and no
\* other, in order, and so has the back.
SheetsComplete ==
  Repeatable => \A i \in DOMAIN pages :
    LET stripe(n) == [kind |-> "stripe", sheet |-> i, stripe |-> n]
    IN  pages[i] = IF Duplex
                   THEN [front |-> [k \in 1 .. (Stripes + 1) \div 2 |-> stripe(2 * k - 1)],
                         back |-> [k \in 1 .. Stripes \div 2 |-> stripe(2 * k)]]
                   ELSE [front |-> [k \in 1 .. Stripes |-> stripe(k)], back |-> <<>>]

\* The session keeps what SheetFeed.tla promises to the scan loop; above all
\* it never reports the end of the batch with a sheet still in the feeder.
\* Nothing is claimed of the sessions in which commands are repeated that the
\* scanner has executed, or has taken for the payload of an earlier one.
Feed == INSTANCE SheetFeed WITH
  delivered <- IF Repeatable THEN Len(pages) ELSE 0,
  outcome <- IF Repeatable THEN outcome ELSE "open"
ImplementsSheetFeed == Feed!Spec

\* Reads have no timeout (usbdevice.go:119).  After an error status in place
\* of a data phase, which is read as the data, no status is to come; after a
\* CDB or a payload that was taken for something else, nothing may.
WaitsForNothing ==
  /\ pipe = <<>>
  /\ \/ "bare" \in faults.kinds /\ phase \in {"status", "senseStatus"}
     \/ /\ "muddle" \in faults.kinds
        /\ phase \in {"data", "status", "senseData", "senseStatus"}

\* The session always ends, with the batch or with an error, whatever goes
\* wrong and however far host and scanner are out of step; only a scanner that
\* leaves out a data phase, or one that takes a CDB for the payload of the
\* command before it, can block the session.
SessionEnds == <>(outcome # "open" \/ WaitsForNothing)

-------------------------------------------------------------------------------
(* What a comment says and the code does not do *)

\* "even-indexed chunks are the front side, odd-indexed are the rear side"
\* (image.go:47): each page is made of stripes of its own side.
StripesAlternate ==
  \A i \in DOMAIN pages :
    /\ \A k \in DOMAIN pages[i].front : pages[i].front[k].stripe % 2 = 1
    /\ \A k \in DOMAIN pages[i].back : pages[i].back[k].stripe % 2 = 0
===============================================================================
