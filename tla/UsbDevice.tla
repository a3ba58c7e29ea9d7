------------------------------ MODULE UsbDevice ------------------------------
(***************************************************************************)
(* Opening and closing the scanner's USB interface                         *)
(* (internal/scsiusb/usbdevice.go), by the scan goroutine and by the status*)
(* polls of any number of clients at the same time.  ScanJobs.tla has this *)
(* as one step that either claims the interface or fails.                  *)
(*                                                                         *)
(* The library (gousb) is external: a handle can be closed only when the   *)
(* handles opened from it are closed, otherwise Close returns an error     *)
(* (which the code does not look at) and the handle stays open.            *)
(***************************************************************************)
EXTENDS Naturals, Sequences

CONSTANTS Openers, Nobody

ASSUME NobodyAssumption == Nobody \notin Openers

VARIABLES
  step,     \* the call of openDevice each opener is at; 0: none
  held,     \* the handles it has open
  closing,  \* the handles it is still going to close
  claim,    \* who has claimed the interface
  session   \* whether it has been given a USBDevice

vars == <<step, held, closing, claim, session>>

\* The calls of openDevice, and the handle each opens.
Steps == <<"newContext", "openDevice", "setAutoDetach", "configNumber", "selectConfig",
           "claimInterface", "inEndpoint", "outEndpoint">>
Opens == [newContext |-> {"ctx"}, openDevice |-> {"dev"}, setAutoDetach |-> {},
          configNumber |-> {}, selectConfig |-> {"cfg"}, claimInterface |-> {"intf"},
          inEndpoint |-> {}, outEndpoint |-> {}]
Handles == {"ctx", "dev", "cfg", "intf"}

\* The handles opened from a handle.
From == [ctx |-> {"dev"}, dev |-> {"cfg"}, cfg |-> {"intf"}, intf |-> {}]

\* What each error return closes, and in which order.  Mutants: the interface
\* is forgotten; outermost first.
CloseAll == <<"intf", "cfg", "dev", "ctx">>
CleanUpForgetful ==
  [newContext |-> <<>>, openDevice |-> <<"ctx">>, setAutoDetach |-> <<"dev", "ctx">>,
   configNumber |-> <<"dev", "ctx">>, selectConfig |-> <<"dev", "ctx">>,
   claimInterface |-> <<"cfg", "dev", "ctx">>, inEndpoint |-> CloseAll,
   outEndpoint |-> <<"cfg", "dev", "ctx">>]
CleanUp ==
  [newContext |-> <<>>, openDevice |-> <<"ctx">>, setAutoDetach |-> <<"dev", "ctx">>,
   configNumber |-> <<"dev", "ctx">>, selectConfig |-> <<"dev", "ctx">>,
   claimInterface |-> <<"cfg", "dev", "ctx">>, inEndpoint |-> CloseAll,
   outEndpoint |-> CloseAll]

Init == /\ step = [p \in Openers |-> 0]
        /\ held = [p \in Openers |-> {}]
        /\ closing = [p \in Openers |-> <<>>]
        /\ claim = Nobody
        /\ session = [p \in Openers |-> FALSE]

Idle(p) == step[p] = 0 /\ closing[p] = <<>>

Open(p) ==
  /\ Idle(p) /\ ~session[p]
  /\ step' = [step EXCEPT ![p] = 1]
  /\ UNCHANGED <<held, closing, claim, session>>

\* All calls have succeeded.
HasAll(p) == step[p] = Len(Steps)

\* The interface goes to one opener at a time; every other call may succeed
\* whatever the others do.
Succeed(p) ==
  LET call == Steps[step[p]]
  IN  /\ step[p] # 0
      /\ call = "claimInterface" => claim = Nobody
      /\ claim' = IF call = "claimInterface" THEN p ELSE claim
      /\ held' = [held EXCEPT ![p] = @ \cup Opens[call]]
      /\ step' = [step EXCEPT ![p] = IF HasAll(p) THEN 0 ELSE @ + 1]
      /\ session' = [session EXCEPT ![p] = HasAll(p)]
      /\ UNCHANGED closing

\* Any call may fail: no scanner, no permission, unplugged meanwhile, busy.
\* NewContext panics, and Open recovers.
Fail(p) ==
  /\ step[p] # 0
  /\ closing' = [closing EXCEPT ![p] = CleanUp[Steps[step[p]]]]
  /\ step' = [step EXCEPT ![p] = 0]
  /\ UNCHANGED <<held, claim, session>>

\* Mutant: outermost first.
CloseOutermostFirst == <<"ctx", "dev", "cfg", "intf">>
CloseOrder == CloseAll

\* USBDevice.Close, up to its first call.
Close(p) ==
  /\ session[p]
  /\ session' = [session EXCEPT ![p] = FALSE]
  /\ closing' = [closing EXCEPT ![p] = CloseOrder]
  /\ UNCHANGED <<step, held, claim>>

CloseHandle(p) ==
  LET handle == Head(closing[p])
      closes == From[handle] \cap held[p] = {}
  IN  /\ closing[p] # <<>>
      /\ closing' = [closing EXCEPT ![p] = Tail(@)]
      /\ held' = [held EXCEPT ![p] = IF closes THEN @ \ {handle} ELSE @]
      /\ claim' = IF handle = "intf" /\ claim = p THEN Nobody ELSE claim
      /\ UNCHANGED <<step, session>>

Next == \E p \in Openers : Open(p) \/ Succeed(p) \/ Fail(p) \/ Close(p) \/ CloseHandle(p)

Spec == Init /\ [][Next]_vars

\* Library calls return, and whoever has a session closes it (Detect at once,
\* the scan goroutine by its deferred Close).
FairSpec == Spec /\ \A p \in Openers :
  /\ WF_vars(Succeed(p) \/ Fail(p)) /\ WF_vars(Close(p)) /\ WF_vars(CloseHandle(p))

-------------------------------------------------------------------------------
(* Properties *)

\* The calls are made one after the other, and stop after the last one.
TypeOK == /\ step \in [Openers -> 0 .. Len(Steps)]
          /\ held \in [Openers -> SUBSET Handles]
          /\ closing \in [Openers -> Seq(Handles)]
          /\ claim \in Openers \cup {Nobody}
          /\ session \in [Openers -> BOOLEAN]

\* Whoever is not between Open and the end of Close has no handle open, on
\* whichever call the open failed; and whoever has a session has them all.
NothingLeaks ==
  \A p \in Openers : Idle(p) => held[p] = IF session[p] THEN Handles ELSE {}

\* The interface always becomes free again for the next one.
ClaimIsReleased == \A p \in Openers : claim = p ~> claim # p
===============================================================================
