---------------------------- MODULE UsbDeviceProofs ----------------------------
(***************************************************************************)
(* Proofs about UsbDevice.tla: whatever number of openers there is, and    *)
(* whichever of their calls fail, no handle is left open.                  *)
(***************************************************************************)
EXTENDS UsbDevice, TLAPS

(* The inductive invariant: what an opener has open is what the calls it has *)
(* made have opened, or what it is still going to close.                     *)

\* What has been opened before the k-th call.
HeldBefore == <<{}, {"ctx"}, {"ctx", "dev"}, {"ctx", "dev"}, {"ctx", "dev"},
                {"ctx", "dev", "cfg"}, Handles, Handles>>

\* What is left to close: the outermost handles, innermost first.
Rest == <<(<<"ctx">>), (<<"dev", "ctx">>), (<<"cfg", "dev", "ctx">>),
          (<<"intf", "cfg", "dev", "ctx">>)>>
HeldWith == <<{"ctx"}, {"ctx", "dev"}, {"ctx", "dev", "cfg"}, Handles>>

Opening(p) == /\ step[p] \in 1 .. 8
              /\ closing[p] = <<>> /\ ~session[p]
              /\ held[p] = HeldBefore[step[p]]
Closing(p) == /\ step[p] = 0 /\ ~session[p]
              /\ \E n \in 1 .. 4 : closing[p] = Rest[n] /\ held[p] = HeldWith[n]
InSession(p) == /\ step[p] = 0 /\ closing[p] = <<>> /\ session[p]
                /\ held[p] = Handles
Resting(p) == /\ step[p] = 0 /\ closing[p] = <<>> /\ ~session[p]
              /\ held[p] = {}

Functional == /\ step \in [Openers -> 0 .. 8]
              /\ held \in [Openers -> SUBSET Handles]
              /\ closing \in [Openers -> Seq(Handles)]
              /\ claim \in Openers \cup {Nobody}
              /\ session \in [Openers -> BOOLEAN]
Stages == \A p \in Openers : Opening(p) \/ Closing(p) \/ InSession(p) \/ Resting(p)

IInv == Functional /\ Stages

-------------------------------------------------------------------------------

THEOREM Initially == Init => IInv
BY DEF Init, IInv, Functional, Stages, Opening, Closing, InSession, Resting

\* The names of the calls, what they open and what their errors close.
LEMMA Calls ==
  /\ Len(Steps) = 8
  /\ \A k \in 1 .. 8 : HeldBefore[k] \subseteq Handles
  /\ \A k \in 1 .. 7 : HeldBefore[k] \cup Opens[Steps[k]] = HeldBefore[k + 1]
  /\ HeldBefore[8] \cup Opens[Steps[8]] = Handles
BY DEF Steps, Opens, HeldBefore, Handles

LEMMA CleanUps ==
  ASSUME NEW k \in 1 .. 8
  PROVE  \/ k = 1 /\ CleanUp[Steps[k]] = <<>> /\ HeldBefore[k] = {}
         \/ \E n \in 1 .. 4 : CleanUp[Steps[k]] = Rest[n] /\ HeldBefore[k] = HeldWith[n]
<1>1. CASE k = 1
  BY <1>1 DEF CleanUp, Steps, HeldBefore
<1>2. CASE k = 2
  BY <1>2 DEF CleanUp, Steps, HeldBefore, Rest, HeldWith
<1>3. CASE k \in {3, 4, 5}
  BY <1>3 DEF CleanUp, Steps, HeldBefore, Rest, HeldWith
<1>4. CASE k = 6
  BY <1>4 DEF CleanUp, Steps, HeldBefore, Rest, HeldWith
<1>5. CASE k \in {7, 8}
  BY <1>5 DEF CleanUp, CloseAll, Steps, HeldBefore, Rest, HeldWith
<1> QED
  BY <1>1, <1>2, <1>3, <1>4, <1>5

\* Closing a handle leaves the next ones to close.
LEMMA Rests ==
  ASSUME NEW n \in 1 .. 4
  PROVE  /\ Rest[n] \in Seq(Handles) /\ Rest[n] # <<>> /\ Head(Rest[n]) \in Handles
         /\ HeldWith[n] \subseteq Handles
         /\ From[Head(Rest[n])] \cap HeldWith[n] = {}
         /\ IF n = 1 THEN Tail(Rest[n]) = <<>> /\ HeldWith[n] \ {Head(Rest[n])} = {}
            ELSE /\ Tail(Rest[n]) = Rest[n - 1]
                 /\ HeldWith[n] \ {Head(Rest[n])} = HeldWith[n - 1]
<1>1. CASE n = 1
  BY <1>1 DEF Rest, HeldWith, Handles, From
<1>2. CASE n = 2
  BY <1>2 DEF Rest, HeldWith, Handles, From
<1>3. CASE n = 3
  BY <1>3 DEF Rest, HeldWith, Handles, From
<1>4. CASE n = 4
  BY <1>4 DEF Rest, HeldWith, Handles, From
<1> QED
  BY <1>1, <1>2, <1>3, <1>4

-------------------------------------------------------------------------------
(* Every step keeps the invariant.  An action changes one opener: the others  *)
(* stay where they are.                                                       *)

LEMMA OthersStay ==
  ASSUME Stages, NEW p \in Openers,
         \A q \in Openers \ {p} : /\ step'[q] = step[q] /\ held'[q] = held[q]
                                  /\ closing'[q] = closing[q] /\ session'[q] = session[q],
         (Opening(p) \/ Closing(p) \/ InSession(p) \/ Resting(p))'
  PROVE  Stages'
<1>1. ASSUME NEW q \in Openers, q # p
      PROVE  (Opening(q) \/ Closing(q) \/ InSession(q) \/ Resting(q))'
  BY <1>1 DEF Stages, Opening, Closing, InSession, Resting
<1> QED
  BY <1>1 DEF Stages

LEMMA OpenStep == ASSUME IInv, NEW p \in Openers, Open(p) PROVE IInv'
<1>1. Resting(p)
  <2>1. step[p] = 0 /\ closing[p] = <<>> /\ ~session[p]
    BY DEF Open, Idle
  <2>2. ~Opening(p) /\ ~InSession(p)
    BY <2>1 DEF Opening, InSession
  <2>3. ~Closing(p)
    BY <2>1, Rests DEF Closing
  <2> QED
    BY <2>2, <2>3 DEF IInv, Stages
<1>2. Opening(p)'
  BY <1>1 DEF IInv, Functional, Open, Opening, Resting, HeldBefore
<1>3. Functional'
  BY DEF IInv, Functional, Open
<1>4. Stages'
  BY <1>2, OthersStay DEF IInv, Functional, Open
<1> QED
  BY <1>3, <1>4 DEF IInv

LEMMA SucceedStep == ASSUME IInv, NEW p \in Openers, Succeed(p) PROVE IInv'
<1>1. Opening(p)
  BY DEF IInv, Functional, Stages, Succeed, Opening, Closing, InSession, Resting
<1>2. /\ held' = [held EXCEPT ![p] = @ \cup Opens[Steps[step[p]]]]
      /\ step' = [step EXCEPT ![p] = IF step[p] = 8 THEN 0 ELSE @ + 1]
      /\ session' = [session EXCEPT ![p] = step[p] = 8]
      /\ claim' \in {p, claim} /\ UNCHANGED closing
  BY Calls DEF Succeed, HasAll
<1>3. held'[p] = IF step[p] = 8 THEN Handles ELSE HeldBefore[step[p] + 1]
  BY <1>1, <1>2, Calls DEF IInv, Functional, Opening
<1>4. held'[p] \subseteq Handles
  BY <1>1, <1>3, Calls DEF Opening
<1>5. Functional'
  BY <1>1, <1>2, <1>4 DEF IInv, Functional, Opening
<1>6. CASE step[p] = 8
  <2>1. InSession(p)'
    BY <1>1, <1>2, <1>3, <1>6 DEF IInv, Functional, Opening, InSession
  <2> QED
    BY <1>2, <1>5, <2>1, OthersStay DEF IInv, Functional
<1>7. CASE step[p] # 8
  <2>1. Opening(p)'
    BY <1>1, <1>2, <1>3, <1>7 DEF IInv, Functional, Opening
  <2> QED
    BY <1>2, <1>5, <2>1, OthersStay DEF IInv, Functional
<1> QED
  BY <1>6, <1>7

LEMMA FailStep == ASSUME IInv, NEW p \in Openers, Fail(p) PROVE IInv'
<1>1. Opening(p)
  BY DEF IInv, Functional, Stages, Fail, Opening, Closing, InSession, Resting
<1>2. CleanUp[Steps[step[p]]] \in Seq(Handles)
  <2>1. step[p] \in 1 .. 8
    BY <1>1 DEF Opening
  <2>2. CASE CleanUp[Steps[step[p]]] = <<>>
    BY <2>2
  <2>3. CASE \E n \in 1 .. 4 : CleanUp[Steps[step[p]]] = Rest[n]
    BY <2>3, Rests
  <2> QED
    BY <2>1, <2>2, <2>3, CleanUps
<1>3. Functional'
  BY <1>2 DEF IInv, Functional, Fail
<1>4. Closing(p)' \/ Resting(p)'
  BY <1>1, CleanUps DEF IInv, Functional, Fail, Opening, Closing, Resting
<1> QED
  BY <1>3, <1>4, OthersStay DEF IInv, Functional, Fail

LEMMA CloseStep == ASSUME IInv, NEW p \in Openers, Close(p) PROVE IInv'
<1>1. InSession(p)
  BY DEF IInv, Functional, Stages, Close, Opening, Closing, InSession, Resting
<1>2. CloseOrder = Rest[4] /\ HeldWith[4] = Handles /\ CloseOrder \in Seq(Handles)
  BY Rests DEF CloseOrder, CloseAll, Rest, HeldWith
<1>3. Functional'
  BY <1>2 DEF IInv, Functional, Close
<1>4. Closing(p)'
  BY <1>1, <1>2 DEF IInv, Functional, Close, Closing, InSession
<1> QED
  BY <1>3, <1>4, OthersStay DEF IInv, Functional, Close

LEMMA CloseHandleStep == ASSUME IInv, NEW p \in Openers, CloseHandle(p) PROVE IInv'
<1>1. Closing(p)
  BY DEF IInv, Functional, Stages, CloseHandle, Opening, Closing, InSession, Resting
<1>2. PICK n \in 1 .. 4 : closing[p] = Rest[n] /\ held[p] = HeldWith[n]
  BY <1>1 DEF Closing
<1>3. /\ closing' = [closing EXCEPT ![p] = Tail(@)]
      /\ held' = [held EXCEPT ![p] = @ \ {Head(Rest[n])}]
      /\ claim' \in {Nobody, claim} /\ UNCHANGED <<step, session>>
  BY <1>2, Rests DEF CloseHandle
<1>4. Functional'
  <2>1. Tail(closing[p]) \in Seq(Handles)
    <3>1. CASE n = 1
      <4>1. Tail(closing[p]) = <<>>
        BY <1>2, <3>1, Rests
      <4>2. <<>> \in Seq(Handles)
        OBVIOUS
      <4> QED
        BY <4>1, <4>2, Zenon
    <3>2. CASE n # 1
      BY <1>2, <3>2, Rests
    <3> QED
      BY <3>1, <3>2
  <2> QED
    BY <1>3, <2>1 DEF IInv, Functional
<1>5. Closing(p)' \/ Resting(p)'
  <2>1. CASE n = 1
    BY <1>1, <1>2, <1>3, <2>1, Rests DEF IInv, Functional, Closing, Resting
  <2>2. CASE n # 1
    <3>1. n - 1 \in 1 .. 4 /\ closing'[p] = Rest[n - 1] /\ held'[p] = HeldWith[n - 1]
      BY <1>2, <1>3, <2>2, Rests DEF IInv, Functional
    <3> QED
      BY <1>1, <1>3, <3>1 DEF Closing
  <2> QED
    BY <2>1, <2>2
<1> QED
  BY <1>3, <1>4, <1>5, OthersStay DEF IInv, Functional

THEOREM Inductive == IInv /\ [Next]_vars => IInv'
<1> SUFFICES ASSUME IInv, [Next]_vars PROVE IInv'
  OBVIOUS
<1>1. CASE Next
  BY <1>1, OpenStep, SucceedStep, FailStep, CloseStep, CloseHandleStep DEF Next
<1>2. CASE UNCHANGED vars
  BY <1>2 DEF IInv, Functional, Stages, Opening, Closing, InSession, Resting, vars
<1> QED
  BY <1>1, <1>2

-------------------------------------------------------------------------------
(* Theorems *)

THEOREM Invariance == Spec => []IInv
BY Initially, Inductive, PTL DEF Spec

\* The calls of openDevice are made one after the other, and stop after the
\* last one.
THEOREM TypeCorrect == Spec => []TypeOK
<1>1. IInv => TypeOK
  BY Calls DEF IInv, Functional, TypeOK
<1> QED
  BY <1>1, Invariance, PTL

\* Whichever call fails, and however the calls of the openers interleave, an
\* opener that is done has no handle open.
THEOREM NoHandleLeaks == Spec => []NothingLeaks
<1>1. IInv => NothingLeaks
  <2> SUFFICES ASSUME IInv, NEW p \in Openers, Idle(p)
               PROVE  held[p] = IF session[p] THEN Handles ELSE {}
    BY DEF NothingLeaks
  <2>1. ~Opening(p)
    BY DEF Idle, Opening
  <2>2. ~Closing(p)
    BY Rests DEF Idle, Closing
  <2> QED
    BY <2>1, <2>2 DEF IInv, Stages, InSession, Resting
<1> QED
  BY <1>1, Invariance, PTL
===============================================================================
