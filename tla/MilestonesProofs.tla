-------------------------- MODULE MilestonesProofs --------------------------
(***************************************************************************)
(* Proofs about Milestones, for any set of calls and of times.             *)
(***************************************************************************)
EXTENDS Milestones, TLAPS

\* What a call shows in its event was written by it.
WrittenFields ==
  \A c \in Calls :
    calls[c].pc = "publish" => Fields(calls[c].dto) \subseteq Fields(calls[c].seen)

\* While calls run one after the other, at most one is running, and what it has
\* checked is what it will leave in the document.
Serial ==
  ~overlapped =>
    /\ \A c, d \in Calls : Running(c) /\ Running(d) => c = d
    /\ \A c \in Calls : calls[c].pc = "write" => Accepts(calls[c].dto, milestones)

\* The inductive invariant.
IInv == TypeOK /\ WrittenFields /\ Serial /\ OrderedWhenSerial

\* Writing a request over a document gives a document with the request's fields.
LEMMA OverTyped ==
  ASSUME NEW dto \in Values, NEW values \in Values
  PROVE  /\ Over(dto, values) \in Values
         /\ Fields(dto) \subseteq Fields(Over(dto, values))
  BY DEF Over, Values, Fields

\* An empty document is in order.
LEMMA NothingOrdered == Nothing \in Values /\ Ordered(Nothing)
  BY DEF Nothing, Values, Unset, Ordered, InOrder, Field

\* The initial states satisfy the invariant.
LEMMA InitHolds == Init => IInv
<1> SUFFICES ASSUME Init PROVE IInv
  OBVIOUS
<1>1. TypeOK
  BY NothingOrdered DEF Init, TypeOK, Call, Pc
<1>2. \A c \in Calls : calls[c].pc = "idle"
  BY DEF Init
<1>3. WrittenFields /\ Serial
  BY <1>2 DEF WrittenFields, Serial, Running
<1>4. OrderedWhenSerial
  BY NothingOrdered DEF Init, OrderedWhenSerial
<1> QED
  BY <1>1, <1>3, <1>4 DEF IInv

\* findById and the checks.
LEMMA FindHolds ==
  ASSUME IInv, NEW c \in Calls, NEW dto \in Values, Find(c, dto)
  PROVE  IInv'
<1> DEFINE H == [pc |-> IF Accepts(dto, milestones) THEN "write" ELSE "done",
                 dto |-> dto, seen |-> milestones]
<1>1. /\ calls' = [calls EXCEPT ![c] = H]
      /\ milestones' = milestones /\ published' = published
      /\ overlapped' = (overlapped \/ \E d \in Calls : Running(d))
  BY DEF Find
<1>2. TypeOK
  BY DEF IInv
<1>3. /\ H \in Call /\ H.pc # "publish" /\ H.dto = dto
      /\ H.pc = "write" => Accepts(dto, milestones)
  BY <1>2 DEF TypeOK, Call, Pc
<1> HIDE DEF H
<1>4. /\ calls'[c] = H
      /\ \A d \in Calls : d # c => calls'[d] = calls[d]
  BY <1>1, <1>2 DEF TypeOK
<1>5. TypeOK'
  BY <1>1, <1>2, <1>3 DEF TypeOK
<1>6. WrittenFields'
  BY <1>3, <1>4 DEF IInv, WrittenFields
<1>7. ASSUME ~overlapped' PROVE ~overlapped /\ \A d \in Calls : ~Running(d)
  BY <1>1, <1>7
<1>8. Serial'
  BY <1>1, <1>3, <1>4, <1>7 DEF Serial, Running
<1>9. OrderedWhenSerial'
  BY <1>1, <1>7 DEF IInv, OrderedWhenSerial
<1> QED
  BY <1>5, <1>6, <1>8, <1>9 DEF IInv

\* The write leaves what was checked, as long as the call runs alone.
LEMMA WriteHolds ==
  ASSUME IInv, NEW c \in Calls, Write(c)
  PROVE  IInv'
<1> DEFINE M == Over(calls[c].dto, milestones)
<1>1. /\ milestones' = M
      /\ calls' = [calls EXCEPT ![c] = [@ EXCEPT !.pc = "publish", !.seen = M]]
      /\ published' = published /\ overlapped' = overlapped
      /\ calls[c].pc = "write"
  BY DEF Write
<1>2. TypeOK /\ calls[c] \in Call
  BY DEF IInv, TypeOK
<1>3. M \in Values /\ Fields(calls[c].dto) \subseteq Fields(M)
  BY <1>2, OverTyped DEF TypeOK, Call
<1>4. ~overlapped => Ordered(M)
  BY <1>1 DEF IInv, Serial, Accepts
<1> HIDE DEF M
<1>5. /\ calls'[c].pc = "publish" /\ calls'[c].seen = M
      /\ calls'[c].dto = calls[c].dto /\ calls'[c] \in Call
      /\ \A d \in Calls : d # c => calls'[d] = calls[d]
  BY <1>1, <1>2, <1>3 DEF TypeOK, Call, Pc
<1>6. TypeOK'
  BY <1>1, <1>2, <1>3, <1>5 DEF TypeOK
<1>7. WrittenFields'
  BY <1>3, <1>5 DEF IInv, WrittenFields
<1>8. Serial'
  <2> SUFFICES ASSUME ~overlapped
               PROVE  /\ \A d, e \in Calls : Running(d)' /\ Running(e)' => d = e
                      /\ \A d \in Calls :
                           calls'[d].pc = "write" => Accepts(calls'[d].dto, milestones')
    BY <1>1 DEF Serial
  <2>1. \A d \in Calls : d # c => ~Running(d)
    BY <1>1 DEF IInv, Serial, Running
  <2>2. \A d \in Calls : d # c => ~Running(d)'
    BY <2>1, <1>5 DEF Running
  <2> QED
    BY <2>2, <1>5 DEF Running
<1>9. OrderedWhenSerial'
  BY <1>1, <1>4 DEF OrderedWhenSerial
<1> QED
  BY <1>6, <1>7, <1>8, <1>9 DEF IInv

\* A call that ends, with or without an event, leaves the document alone.
LEMMA EndHolds ==
  ASSUME IInv, NEW c \in Calls, Publish(c) \/ Fail(c)
  PROVE  IInv'
<1>1. /\ calls' = [calls EXCEPT ![c] = [@ EXCEPT !.pc = "done"]]
      /\ milestones' = milestones /\ overlapped' = overlapped
  BY DEF Publish, Fail
<1>2. TypeOK /\ calls[c] \in Call
  BY DEF IInv, TypeOK
<1>3. /\ calls'[c].pc = "done" /\ calls'[c] \in Call
      /\ \A d \in Calls : d # c => calls'[d] = calls[d]
  BY <1>1, <1>2 DEF TypeOK, Call, Pc
<1>4. published' \subseteq {e \in Event : e.updated \subseteq Fields(e.milestones)}
  <2>1. CASE published' = published
    BY <2>1, <1>2 DEF TypeOK
  <2>2. CASE Publish(c) /\ published' # published
    <3> DEFINE e == [milestones |-> calls[c].seen, updated |-> Fields(calls[c].dto)]
    <3>1. published' = published \cup {e} /\ calls[c].pc = "publish"
      BY <2>2 DEF Publish
    <3>2. e \in Event
      BY <1>2 DEF Event, Call, Fields
    <3>3. e.updated \subseteq Fields(e.milestones)
      BY <3>1 DEF IInv, WrittenFields
    <3> QED
      BY <3>1, <3>2, <3>3, <1>2 DEF TypeOK
  <2> QED
    BY <2>1, <2>2 DEF Fail
<1>5. TypeOK'
  BY <1>1, <1>2, <1>3, <1>4 DEF TypeOK
<1>6. WrittenFields' /\ Serial'
  BY <1>1, <1>3 DEF IInv, WrittenFields, Serial, Running
<1>7. OrderedWhenSerial'
  BY <1>1 DEF IInv, OrderedWhenSerial
<1> QED
  BY <1>5, <1>6, <1>7 DEF IInv

\* The invariant is inductive.
LEMMA NextHolds == IInv /\ [Next]_vars => IInv'
<1> SUFFICES ASSUME IInv, [Next]_vars PROVE IInv'
  OBVIOUS
<1>1. CASE UNCHANGED vars
  BY <1>1 DEF vars, IInv, TypeOK, WrittenFields, Serial, OrderedWhenSerial, Running
<1>2. CASE Next
  <2>1. PICK c \in Calls : \/ \E dto \in Values : Find(c, dto)
                           \/ Write(c) \/ Publish(c) \/ Fail(c)
    BY <1>2 DEF Next
  <2> QED
    BY <2>1, FindHolds, WriteHolds, EndHolds
<1> QED
  BY <1>1, <1>2

\* IInv holds in every state the service reaches.
THEOREM InvariantHolds == Spec => []IInv
<1> QED
  BY InitHolds, NextHolds, PTL DEF Spec

\* The document, the calls and the events keep their types, and an event names
\* only fields that its milestones show.
THEOREM TypeCorrect == Spec => []TypeOK
<1>1. IInv => TypeOK
  BY DEF IInv
<1> QED
  BY <1>1, InvariantHolds, PTL

\* The checks of updateMilestones keep TOBT, TSAT and AOBT in order as long as no
\* two calls overlap.
THEOREM OrderedOneByOne == Spec => []OrderedWhenSerial
<1>1. IInv => OrderedWhenSerial
  BY DEF IInv
<1> QED
  BY <1>1, InvariantHolds, PTL

\* Racing calls never bring back a milestone another one has overwritten.
THEOREM NothingBroughtBack == Spec => ChangedByOwnerOnly
<1> DEFINE Owned == \A f \in Field :
             milestones'[f] # milestones[f] =>
               \E c \in Calls : /\ calls[c].pc = "write" /\ calls'[c].pc # "write"
                                /\ milestones'[f] = calls[c].dto[f]
<1>1. ASSUME IInv, [Next]_vars PROVE [Owned]_vars
  <2>1. CASE milestones' = milestones
    BY <2>1
  <2>2. CASE milestones' # milestones
    <3>1. PICK c \in Calls : Write(c)
      BY <1>1, <2>2 DEF Next, vars, Find, Publish, Fail
    <3>2. calls[c].pc = "write" /\ calls'[c].pc = "publish"
      BY <1>1, <3>1 DEF IInv, TypeOK, Call, Write
    <3>3. \A f \in Field : milestones'[f] # milestones[f] =>
                             milestones'[f] = calls[c].dto[f]
      BY <3>1 DEF Write, Over
    <3> QED
      BY <3>2, <3>3
  <2> QED
    BY <2>1, <2>2
<1> QED
  BY <1>1, InvariantHolds, PTL DEF Spec, ChangedByOwnerOnly
=============================================================================
