----------------------- MODULE EventPipeline_proofs ------------------------
(***************************************************************************)
(* Proofs about EventPipeline, for any length of the input and every way   *)
(* of ending the daemon.                                                   *)
(***************************************************************************)
EXTENDS EventPipeline, SequenceTheorems, TLAPS

(***************************************************************************)
(* What the safety properties rest on: the consumer holds an access        *)
(* exactly between reading and storing it, and a thread that main has      *)
(* found returned stays so.  The window thread that waits for the mutex    *)
(* has seen a vector that is not empty or is just being filled, and the    *)
(* consumer does not give the mutex away before it is.                     *)
(***************************************************************************)

HeldInv == held # 0 <=> pcC \in {"lock", "push"}

ShutdownInv ==
  ~exited => /\ pcM \in {"killWindow", "clear"} => pcC = "returned"
             /\ pcM = "clear" => pcW = "returned"

SizeInv ==
  ~exited => /\ pcW = "lock" => addrVector # <<>> \/ pcC = "push"
             /\ pcW = "copy" => addrVector # <<>>

\* Every step keeps the types, and the mutex with the critical sections.
LEMMA PipelineTypeNext == TypeOK /\ HeldInv /\ [Next]_vars => TypeOK' /\ HeldInv'
  <1> SUFFICES ASSUME TypeOK, HeldInv, [Next]_vars
               PROVE  TypeOK' /\ HeldInv'
    OBVIOUS
  <1> USE PipelineAssumption DEF TypeOK, HeldInv, Free, Accesses, dataVars
  <1>1. CASE ReadLine
    BY <1>1 DEF ReadLine
  <1>2. CASE EndOfInput \/ ReadMalformed
    BY <1>2 DEF EndOfInput, ReadMalformed
  <1>3. CASE ConsumerLock
    BY <1>3 DEF ConsumerLock
  <1>4. CASE ConsumerPush
    <2>1. held \in Accesses
      BY <1>4 DEF ConsumerPush
    <2>2. Append(addrVector, held) \in Seq(Accesses)
      BY <2>1
    <2>3. addrVector' \in Seq(Accesses) /\ held' = 0 /\ mutex' = Free
      BY <1>4, <2>2 DEF ConsumerPush
    <2>4. pcC' = "read" /\ pcW' = pcW /\ pcW # "copy"
      BY <1>4 DEF ConsumerPush
    <2> HIDE DEF Accesses
    <2> QED
      BY <1>4, <2>3, <2>4 DEF ConsumerPush
  <1>5. CASE WindowHead \/ WakeUp \/ CheckSize \/ Dispatch \/ Process
    BY <1>5 DEF WindowHead, WakeUp, CheckSize, Dispatch, Process
  <1>6. CASE WindowLock
    BY <1>6 DEF WindowLock, MayLock
  <1>7. CASE CopyBatch
    <2>1. childVector \o addrVector \in Seq(Accesses) /\ <<>> \in Seq(Accesses)
      BY ConcatProperties
    <2>2. childVector' \in Seq(Accesses) /\ addrVector' \in Seq(Accesses)
      BY <1>7, <2>1 DEF CopyBatch, AfterCopy
    <2>3. mutex' = Free /\ pcW' = "dispatch" /\ pcC' = pcC /\ pcC # "push"
      BY <1>7 DEF CopyBatch
    <2> HIDE DEF Accesses
    <2> QED
      BY <1>7, <2>2, <2>3 DEF CopyBatch
  <1>8. CASE ClearBatch
    <2>1. done \o childVector \in Seq(Accesses) /\ <<>> \in Seq(Accesses)
      BY ConcatProperties
    <2> QED
      BY <1>8, <2>1 DEF ClearBatch
  <1>9. CASE MainReturn
    <2>1. <<>> \in Seq(Accesses)
      OBVIOUS
    <2> QED
      BY <1>9, <2>1 DEF MainReturn
  <1>10. CASE Poll \/ KillConsumer \/ KillWindow \/ HandlerExit
    BY <1>10 DEF Poll, KillConsumer, KillWindow, Kill, HandlerExit
  <1>11. CASE Interrupt \/ TargetExits
    BY <1>11 DEF Interrupt, TargetExits
  <1>12. CASE UNCHANGED vars
    <2> HIDE DEF Accesses
    <2> QED
      BY <1>12 DEF vars
  <1> QED
    BY <1>1, <1>2, <1>3, <1>4, <1>5, <1>6, <1>7, <1>8, <1>9, <1>10, <1>11, <1>12
    DEF Next, Consumer, WindowThread, Main, Ended

\* The types hold throughout.
LEMMA PipelineTypes == Spec => [](TypeOK /\ HeldInv)
  <1>1. Init => TypeOK /\ HeldInv
    <2> SUFFICES ASSUME Init
                 PROVE  TypeOK /\ HeldInv
      OBVIOUS
    <2>1. <<>> \in Seq(Accesses)
      OBVIOUS
    <2>2. 0 \in 0..MaxEvents
      BY PipelineAssumption
    <2> QED
      BY <2>1, <2>2 DEF Init, TypeOK, HeldInv, Free
  <1> QED
    BY <1>1, PipelineTypeNext, PTL DEF Spec

\* Every state of the pipeline is well typed, and the mutex is held exactly in
\* the critical sections.
THEOREM PipelineTypeCorrect == Spec => []TypeOK
  BY PipelineTypes, PTL

\* Every step keeps what main and the window thread rely on.
LEMMA PipelineNext ==
  TypeOK /\ HeldInv /\ ShutdownInv /\ SizeInv /\ BatchNotEmpty /\ [Next]_vars
    => ShutdownInv' /\ SizeInv' /\ BatchNotEmpty'
  <1> SUFFICES ASSUME TypeOK, HeldInv, ShutdownInv, SizeInv, BatchNotEmpty,
                      [Next]_vars
               PROVE  ShutdownInv' /\ SizeInv' /\ BatchNotEmpty'
    OBVIOUS
  <1> USE DEF ShutdownInv, SizeInv, BatchNotEmpty, dataVars
  <1>1. CASE ReadLine \/ EndOfInput \/ ReadMalformed
    BY <1>1 DEF ReadLine, EndOfInput, ReadMalformed
  <1>2. CASE ConsumerLock
    BY <1>2 DEF ConsumerLock
  <1>3. CASE ConsumerPush
    <2>1. addrVector \in Seq(Accesses) /\ held \in Accesses
      BY <1>3 DEF ConsumerPush, TypeOK, HeldInv, Accesses
    <2>2. Append(addrVector, held) # <<>>
      BY <2>1, AppendProperties
    <2> QED
      BY <1>3, <2>2 DEF ConsumerPush
  <1>4. CASE WindowHead \/ WakeUp \/ Dispatch \/ Process
    BY <1>4 DEF WindowHead, WakeUp, Dispatch, Process
  <1>5. CASE CheckSize
    BY <1>5 DEF CheckSize, SizeReads
  <1>6. CASE WindowLock
    BY <1>6 DEF WindowLock, MayLock, TypeOK, Free
  <1>7. CASE CopyBatch
    <2>1. childVector \o addrVector # <<>>
      <3>1. addrVector # <<>> /\ addrVector \in Seq(Accesses) /\ childVector \in Seq(Accesses)
        BY <1>7 DEF CopyBatch, TypeOK
      <3>2. Len(childVector \o addrVector) = Len(childVector) + Len(addrVector)
        BY <3>1
      <3>3. Len(addrVector) > 0 /\ Len(childVector) \in Nat
        BY <3>1, EmptySeq
      <3> QED
        BY <3>2, <3>3
    <2> QED
      BY <1>7, <2>1 DEF CopyBatch
  <1>8. CASE ClearBatch
    BY <1>8 DEF ClearBatch
  <1>9. CASE Poll \/ KillConsumer \/ KillWindow \/ MainReturn \/ HandlerExit
    BY <1>9 DEF Poll, KillConsumer, KillWindow, WindowKilled, Kill, MainReturn,
       HandlerExit
  <1>10. CASE Interrupt \/ TargetExits \/ UNCHANGED vars
    BY <1>10 DEF Interrupt, TargetExits, vars
  <1> QED
    BY <1>1, <1>2, <1>3, <1>4, <1>5, <1>6, <1>7, <1>8, <1>9, <1>10
    DEF Next, Consumer, WindowThread, Main, Ended

\* The invariants of shutdown and of the size test hold throughout.
LEMMA PipelineInvariant == Spec => [](ShutdownInv /\ SizeInv /\ BatchNotEmpty)
  <1>1. Init => ShutdownInv /\ SizeInv /\ BatchNotEmpty
    BY DEF Init, ShutdownInv, SizeInv, BatchNotEmpty
  <1> QED
    BY <1>1, PipelineNext, PipelineTypes, PTL DEF Spec

\* A batch handed to the mapping and the migration has at least one access.
THEOREM BatchesNotEmpty == Spec => []BatchNotEmpty
  BY PipelineInvariant, PTL

\* main clears the shared vector without the mutex only when it is alone.
THEOREM ShutdownAlone == Spec => []UnlockedClearIsAlone
  <1>1. ShutdownInv => UnlockedClearIsAlone
    BY DEF ShutdownInv, UnlockedClearIsAlone
  <1> QED
    BY <1>1, PipelineInvariant, PTL

(***************************************************************************)
(* Order of delivery.                                                      *)
(***************************************************************************)

Held == IF held = 0 THEN <<>> ELSE <<held>>

FifoInv ==
  ~exited => /\ Delivered \in Seq(Accesses)
             /\ \A i \in 1..Len(Delivered) : Delivered[i] = i
             /\ pcC # "returned" => Len(Delivered) = nread

\* A step that leaves the accesses under way as they are, in their order.
LEMMA FifoKept ==
  ASSUME FifoInv, Delivered' = Delivered, nread' = nread, exited' = exited,
         pcC' # "returned" => pcC # "returned"
  PROVE  FifoInv'
  BY DEF FifoInv, Accesses

\* Every step keeps the accesses in order.
LEMMA FifoNext ==
  TypeOK /\ HeldInv /\ ShutdownInv /\ FifoInv /\ [Next]_vars => FifoInv'
  <1> SUFFICES ASSUME TypeOK, HeldInv, ShutdownInv, FifoInv, [Next]_vars
               PROVE  FifoInv'
    OBVIOUS
  <1>1. /\ addrVector \in Seq(Accesses) /\ childVector \in Seq(Accesses)
        /\ done \in Seq(Accesses) /\ held \in 0..MaxEvents
        /\ nread \in Nat /\ MaxEvents \in Nat
    BY PipelineAssumption DEF TypeOK
  <1>2. Held \in Seq(Accesses) /\ <<>> \in Seq(Accesses)
    <2>1. held # 0 => held \in Accesses
      BY <1>1 DEF Accesses
    <2> QED
      BY <2>1 DEF Held
  <1>3. Delivered = done \o childVector \o addrVector \o Held
    BY DEF Delivered, Held
  <1>4. Delivered' = done' \o childVector' \o addrVector' \o Held'
    BY DEF Delivered, Held
  <1>a. \A s, t, u \in Seq(Accesses) : (s \o t) \o u = s \o (t \o u)
    BY ConcatAssociative
  <1> HIDE DEF Accesses
  <1>5. CASE exited'
    BY <1>5 DEF FifoInv
  <1>6. CASE ReadLine /\ alive
    <2>1. /\ ~exited /\ held = 0 /\ held' = nread + 1 /\ nread' = nread + 1
          /\ Len(Delivered) = nread /\ nread < MaxEvents
          /\ UNCHANGED <<done, childVector, addrVector>>
      BY <1>6 DEF ReadLine, HeldInv, FifoInv
    <2>2. Held = <<>> /\ Held' = <<nread + 1>>
      BY <1>1, <2>1 DEF Held
    <2>3. done \o childVector \o addrVector \in Seq(Accesses)
      BY <1>1, ConcatProperties
    <2>4. Delivered = done \o childVector \o addrVector
      BY <1>3, <2>2, <2>3, ConcatEmptySeq
    <2>5. nread + 1 \in Accesses
      BY <1>1, <2>1 DEF Accesses
    <2>6. Delivered' = Append(Delivered, nread + 1)
      BY <1>4, <2>1, <2>2, <2>3, <2>4, <2>5, AppendIsConcat
    <2>7. /\ Delivered' \in Seq(Accesses) /\ Len(Delivered') = nread + 1
          /\ \A i \in 1..nread : Delivered'[i] = Delivered[i]
          /\ Delivered'[nread + 1] = nread + 1
      BY <2>1, <2>3, <2>4, <2>5, <2>6, AppendProperties
    <2>8. \A i \in 1..Len(Delivered') : Delivered'[i] = i
      BY <1>1, <2>1, <2>7 DEF FifoInv
    <2> QED
      BY <2>1, <2>7, <2>8 DEF FifoInv, Accesses
  <1>7. CASE UNCHANGED <<done, childVector, addrVector, held>> /\ exited' = exited
             /\ (nread' = nread \/ pcC' = "returned")
             /\ (pcC' # "returned" => pcC # "returned")
    <2>1. Delivered' = Delivered
      BY <1>7 DEF Delivered
    <2> QED
      BY <1>7, <2>1 DEF FifoInv, Accesses
  <1>8. CASE ConsumerPush
    <2>1. /\ held # 0 /\ held' = 0 /\ addrVector' = Append(addrVector, held)
          /\ UNCHANGED <<done, childVector, nread, exited>>
          /\ pcC # "returned"
      BY <1>8 DEF ConsumerPush, HeldInv
    <2>2. held \in Accesses
      BY <1>1, <2>1 DEF Accesses
    <2>3. Held = <<held>> /\ Held' = <<>>
      BY <2>1 DEF Held
    <2>4. addrVector' = addrVector \o Held /\ addrVector' \in Seq(Accesses)
      BY <1>1, <2>1, <2>2, <2>3, AppendIsConcat, AppendProperties
    <2>5. done \o childVector \in Seq(Accesses)
      BY <1>1, ConcatProperties
    <2>6. (done \o childVector) \o addrVector' = (done \o childVector) \o addrVector \o Held
      BY <1>1, <1>2, <1>a, <2>4, <2>5
    <2>7. (done \o childVector) \o addrVector' \in Seq(Accesses)
      BY <2>4, <2>5, ConcatProperties
    <2>8. Delivered' = Delivered
      BY <1>3, <1>4, <2>1, <2>3, <2>6, <2>7, ConcatEmptySeq
    <2> QED
      BY <2>1, <2>8, FifoKept
  <1>9. CASE CopyBatch
    <2>1. /\ childVector' = childVector \o addrVector /\ addrVector' = <<>>
          /\ UNCHANGED <<done, held, nread, exited, pcC>>
      BY <1>9 DEF CopyBatch, AfterCopy
    <2>2. done \o childVector' = done \o childVector \o addrVector
      BY <1>1, <1>a, <2>1
    <2>3. done \o childVector' \in Seq(Accesses)
      BY <1>1, <2>1, ConcatProperties
    <2>4. Held' = Held
      BY <2>1 DEF Held
    <2>5. Delivered' = Delivered
      BY <1>3, <1>4, <2>1, <2>2, <2>3, <2>4, ConcatEmptySeq
    <2> QED
      BY <2>1, <2>5, FifoKept
  <1>10. CASE ClearBatch
    <2>1. /\ done' = done \o childVector /\ childVector' = <<>>
          /\ UNCHANGED <<addrVector, held, nread, exited, pcC>>
      BY <1>10 DEF ClearBatch
    <2>2. done' \in Seq(Accesses)
      BY <1>1, <2>1, ConcatProperties
    <2>3. done' \o childVector' = done \o childVector
      BY <2>1, <2>2, ConcatEmptySeq
    <2>4. Held' = Held
      BY <2>1 DEF Held
    <2>5. Delivered' = Delivered
      BY <1>3, <1>4, <2>1, <2>3, <2>4
    <2> QED
      BY <2>1, <2>5, FifoKept
  <1>11. CASE Consumer
    <2>1. CASE ReadLine /\ ~alive
      BY <1>7, <2>1 DEF ReadLine
    <2>2. CASE EndOfInput \/ ReadMalformed \/ ConsumerLock
      BY <1>5, <1>7, <2>2 DEF EndOfInput, ReadMalformed, ConsumerLock, dataVars
    <2> QED
      BY <1>6, <1>8, <1>11, <2>1, <2>2 DEF Consumer
  <1>12. CASE WindowThread
    <2>1. CASE WindowHead \/ WakeUp \/ CheckSize \/ WindowLock \/ Dispatch \/ Process
      BY <1>5, <1>7, <2>1 DEF WindowHead, WakeUp, CheckSize, WindowLock, Dispatch,
         Process, dataVars
    <2> QED
      BY <1>9, <1>10, <1>12, <2>1 DEF WindowThread
  <1>13. CASE Main \/ Interrupt \/ TargetExits \/ UNCHANGED vars
    BY <1>5, <1>7, <1>13 DEF Main, Poll, KillConsumer, KillWindow, Kill, MainReturn,
       HandlerExit, Interrupt, TargetExits, vars, dataVars
  <1> QED
    BY <1>11, <1>12, <1>13 DEF Next, Ended

\* No access is lost, duplicated or reordered on its way through the daemon.
THEOREM DeliveryInOrder == Spec => []FifoDelivery
  <1>1. Init => FifoInv
    <2> SUFFICES ASSUME Init
                 PROVE  FifoInv
      OBVIOUS
    <2>1. <<>> \in Seq(Accesses)
      OBVIOUS
    <2>2. Delivered = <<>>
      BY <2>1, ConcatEmptySeq DEF Init, Delivered
    <2> QED
      BY <2>1, <2>2 DEF Init, FifoInv
  <1>2. FifoInv => FifoDelivery
    BY DEF FifoInv, FifoDelivery
  <1> QED
    BY <1>1, <1>2, FifoNext, PipelineTypes, PipelineInvariant, PTL DEF Spec

=============================================================================
