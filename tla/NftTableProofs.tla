---------------------------- MODULE NftTableProofs ----------------------------
(***************************************************************************)
(* Proofs about NftTable for every set of policies and every batch length. *)
(***************************************************************************)
EXTENDS NftTable, SequenceTheorems, TLAPS

(* A call that has not sent its batch starts from a socket with nothing to  *)
(* read, unless it could not discard what was there, and only a committed   *)
(* one is known to have changed the kernel.                                 *)
CallInvariant ==
  /\ pc # "recv" => ~done
  /\ pc = "idle" => ~stale
  /\ pc = "send" /\ ~stale => replies = <<>>
  /\ done => kernel = request

Inv == TypeOK /\ CallInvariant /\ AnswerIsComing /\ OnlyOwnAckConfirms

-----------------------------------------------------------------------------
(* The kernel's answers *)

LEMMA AcksType ==
  ASSUME NEW n \in Nat, n >= 3, NEW F \in SUBSET (1 .. n)
  PROVE  /\ Acks(n, F) \in Seq(Reply) /\ Len(Acks(n, F)) = n - 1
         /\ \A k \in 1 .. n - 1 :
              /\ Acks(n, F)[k].seq = k + 1
              /\ Acks(n, F)[k].ok <=> (k + 1) \notin F
<1>1. n - 1 \in Nat
  OBVIOUS
<1>2. \A k \in 1 .. n - 1 : [seq |-> k + 1, ok |-> (k + 1) \notin F] \in Reply
  BY DEF Reply
<1>3. Acks(n, F) \in [1 .. n - 1 -> Reply]
  BY <1>2 DEF Acks
<1>4. Acks(n, F) \in Seq(Reply)
  BY <1>1, <1>3, SeqDef
<1>5. Len(Acks(n, F)) = n - 1
  BY <1>1, <1>4, LenProperties DEF Acks
<1> QED BY <1>4, <1>5 DEF Acks

(* The replies to a rejected batch hold an error that comes no later than   *)
(* the reply the caller waits for.                                          *)
LEMMA RejectionType ==
  ASSUME NEW n \in Nat, n >= 3, NEW F \in SUBSET (1 .. n), F # {}, 1 \in F => F = {1}
  PROVE  /\ Rejection(n, F) \in Seq(Reply)
         /\ \E i \in 1 .. Len(Rejection(n, F)) :
              /\ ~Rejection(n, F)[i].ok
              /\ \A j \in 1 .. i - 1 : Rejection(n, F)[j].seq # n
<1>1. CASE F = {1}
  <2>1. Rejection(n, F) = <<Error(1)>> \o Acks(n, {})
    BY <1>1 DEF Rejection
  <2>2. Acks(n, {}) \in Seq(Reply) /\ <<Error(1)>> \in Seq(Reply)
    BY AcksType DEF Error, Reply
  <2>3. /\ Rejection(n, F) \in Seq(Reply)
        /\ Len(Rejection(n, F)) = 1 + Len(Acks(n, {}))
        /\ Rejection(n, F)[1] = Error(1)
    BY <2>1, <2>2, ConcatProperties, LenProperties
  <2>4. Len(Rejection(n, F)) \in Nat /\ Len(Rejection(n, F)) >= 1
    BY <2>2, <2>3, LenProperties
  <2>5. ~Rejection(n, F)[1].ok
    BY <2>3 DEF Error
  <2> QED BY <2>3, <2>4, <2>5
<1>2. CASE F # {1}
  <2>0. \A k \in 1 .. n - 1 :
          /\ Acks(n, F)[k].seq = k + 1
          /\ Acks(n, F)[k].ok <=> (k + 1) \notin F
    BY AcksType
  <2>1. PICK f \in F : f # 1
    BY <1>2
  <2>2. f \in Nat /\ f <= n /\ f - 1 \in 1 .. n - 1
    <3>1. f \in 1 .. n
      BY <2>1
    <3> QED BY <2>1, <3>1
  <2>3. Rejection(n, F) = Acks(n, F)
    BY <1>2 DEF Rejection
  <2>4. ~Rejection(n, F)[f - 1].ok
    <3>1. (f - 1) + 1 = f
      BY <2>2
    <3>2. Acks(n, F)[f - 1].ok <=> (f - 1) + 1 \notin F
      BY <2>0, <2>2
    <3> QED BY <2>1, <2>3, <3>1, <3>2
  <2>5. \A j \in 1 .. (f - 1) - 1 : Rejection(n, F)[j].seq # n
    <3>1. ASSUME NEW j \in 1 .. (f - 1) - 1 PROVE Acks(n, F)[j].seq # n
      <4>1. j \in 1 .. n - 1 /\ j + 1 # n
        BY <2>2
      <4>2. Acks(n, F)[j].seq = j + 1
        BY <2>0, <4>1
      <4> QED BY <4>1, <4>2
    <3> QED BY <2>3, <3>1
  <2>6. Rejection(n, F) \in Seq(Reply) /\ Len(Rejection(n, F)) = n - 1
    BY <2>3, AcksType
  <2>7. f - 1 \in 1 .. Len(Rejection(n, F))
    BY <2>2, <2>6
  <2> QED BY <2>4, <2>5, <2>6, <2>7
<1> QED BY <1>1, <1>2

(* Answers come behind what is unread. *)
LEMMA QueuedBehind ==
  ASSUME NEW s \in Seq(Reply), NEW a \in Seq(Reply), NEW i \in 1 .. Len(a)
  PROVE  Len(s) + i \in 1 .. Len(s \o a) /\ (s \o a)[Len(s) + i] = a[i]
<1>1. Len(s) \in Nat /\ Len(a) \in Nat /\ i \in Nat /\ i >= 1 /\ i <= Len(a)
  BY LenProperties
<1>2. Len(s \o a) = Len(s) + Len(a)
  BY ConcatProperties
<1>3. Len(s) + i \in 1 .. Len(s) + Len(a)
  BY <1>1
<1>4. ~(Len(s) + i <= Len(s)) /\ (Len(s) + i) - Len(s) = i
  BY <1>1
<1>5. (s \o a)[Len(s) + i] =
        IF Len(s) + i <= Len(s) THEN s[Len(s) + i] ELSE a[(Len(s) + i) - Len(s)]
  BY <1>3, ConcatProperties
<1> QED BY <1>2, <1>3, <1>4, <1>5

(* What a batch adds to the socket: its replies, or a loss. *)
LEMMA QueueType ==
  ASSUME replies \in Seq(Reply), overflow \in BOOLEAN, NEW a \in Seq(Reply), Queue(a)
  PROVE  /\ replies' \in Seq(Reply) /\ overflow' \in BOOLEAN
         /\ overflow' \/ replies' = replies \o a
<1>1. ASSUME NEW k \in 0 .. Len(a) - 1
      PROVE  replies \o SubSeq(a, 1, k) \in Seq(Reply)
  <2>1. \A i \in 1 .. k : a[i] \in Reply
    BY LenProperties, ElementOfSeq
  <2>2. SubSeq(a, 1, k) \in Seq(Reply)
    BY <2>1, SubSeqProperties
  <2> QED BY <2>2, ConcatProperties
<1>2. CASE replies' = replies \o a /\ UNCHANGED overflow
  BY <1>2, ConcatProperties
<1>3. ASSUME NEW k \in 0 .. Len(a) - 1, replies' = replies \o SubSeq(a, 1, k), overflow' = TRUE
      PROVE  replies' \in Seq(Reply)
  BY <1>1, <1>3
<1> QED BY <1>2, <1>3 DEF Queue

(* A call that gives up discarding keeps the later replies. *)
LEMMA DiscardType ==
  ASSUME replies \in Seq(Reply), overflow \in BOOLEAN, DiscardAll \/ DiscardSome
  PROVE  /\ replies' \in Seq(Reply) /\ overflow' \in BOOLEAN /\ stale' \in BOOLEAN
         /\ ~stale' => replies' = <<>>
<1>1. CASE DiscardAll
  <2>1. <<>> \in Seq(Reply)
    OBVIOUS
  <2> QED BY <1>1, <2>1 DEF DiscardAll, Drained
<1>2. CASE DiscardSome
  <2>1. PICK k \in 0 .. Len(replies) :
          /\ replies' = SubSeq(replies, k + 1, Len(replies))
          /\ overflow' \in {FALSE, overflow /\ k = 0}
          /\ stale' = (replies' # <<>>)
    BY <1>2 DEF DiscardSome
  <2>2. Len(replies) \in Nat
    BY LenProperties
  <2>3. \A i \in k + 1 .. Len(replies) : replies[i] \in Reply
    BY <2>2, ElementOfSeq
  <2>4. SubSeq(replies, k + 1, Len(replies)) \in Seq(Reply)
    BY <2>2, <2>3, SubSeqProperties
  <2>5. overflow' \in BOOLEAN
    <3>1. (overflow /\ k = 0) \in BOOLEAN /\ FALSE \in BOOLEAN
      OBVIOUS
    <3> QED BY <2>1, <3>1
  <2>6. stale' \in BOOLEAN /\ (~stale' => replies' = <<>>)
    <3>1. (replies' # <<>>) \in BOOLEAN
      OBVIOUS
    <3> QED BY <2>1, <3>1
  <2>7. replies' \in Seq(Reply)
    BY <2>1, <2>4
  <2> QED BY <2>5, <2>6, <2>7
<1> QED BY <1>1, <1>2

-----------------------------------------------------------------------------
(* The inductive invariant *)

LEMMA InvInit == Init => Inv
<1> SUFFICES ASSUME Init PROVE Inv
  OBVIOUS
<1>1. <<>> \in Seq(Reply)
  OBVIOUS
<1> QED BY <1>1 DEF Init, Inv, TypeOK, CallInvariant, AnswerIsComing, OnlyOwnAckConfirms

LEMMA CommitStep == Inv /\ Commit => Inv'
<1> SUFFICES ASSUME Inv, Commit PROVE Inv'
  OBVIOUS
<1> DEFINE a == Acks(Length[request], {})
<1>1. /\ request \in Policy /\ last = Length[request] /\ last \in Nat /\ last >= 3
      /\ replies \in Seq(Reply) /\ overflow \in BOOLEAN /\ Len(replies) \in Nat
  BY BatchConstants, LenProperties DEF Inv, TypeOK, Commit
<1>2. /\ a \in Seq(Reply) /\ Len(a) = last - 1
      /\ a[last - 1].seq = last
  <2>1. a = Acks(last, {})
    BY <1>1
  <2>2. {} \in SUBSET (1 .. last)
    OBVIOUS
  <2>3. /\ a \in Seq(Reply) /\ Len(a) = last - 1
        /\ \A k \in 1 .. last - 1 : a[k].seq = k + 1
    <3> HIDE DEF a
    <3> QED BY <1>1, <2>1, <2>2, AcksType
  <2>4. last - 1 \in 1 .. last - 1 /\ (last - 1) + 1 = last
    BY <1>1
  <2> HIDE DEF a
  <2> QED BY <2>3, <2>4
<1>3. /\ replies' \in Seq(Reply) /\ overflow' \in BOOLEAN
      /\ overflow' \/ replies' = replies \o a
  BY <1>1, <1>2, QueueType DEF Commit
<1>4. /\ pc' = "recv" /\ done' = TRUE /\ kernel' = request
      /\ UNCHANGED <<request, last, stale, result>>
  BY DEF Commit
<1>5. AnswerIsComing'
  <2>1. CASE overflow'
    BY <2>1 DEF AnswerIsComing
  <2>2. CASE replies' = replies \o a
    <3>1. last - 1 \in 1 .. Len(a)
      BY <1>1, <1>2
    <3>2. /\ Len(replies) + (last - 1) \in 1 .. Len(replies')
          /\ replies'[Len(replies) + (last - 1)] = a[last - 1]
      BY <1>1, <1>2, <2>2, <3>1, QueuedBehind
    <3> QED BY <1>2, <1>4, <3>2 DEF AnswerIsComing
  <2> QED BY <1>3, <2>1, <2>2
<1> QED BY <1>1, <1>3, <1>4, <1>5 DEF Inv, TypeOK, CallInvariant, OnlyOwnAckConfirms

LEMMA RejectStep ==
  ASSUME Inv, NEW F \in SUBSET (1 .. Length[request]), Reject(F)
  PROVE  Inv'
<1> DEFINE a == Rejection(Length[request], F)
<1>1. /\ request \in Policy /\ last = Length[request] /\ last \in Nat /\ last >= 3
      /\ replies \in Seq(Reply) /\ overflow \in BOOLEAN /\ Len(replies) \in Nat
  BY BatchConstants, LenProperties DEF Inv, TypeOK, Reject
<1>2. /\ a \in Seq(Reply)
      /\ \E i \in 1 .. Len(a) : ~a[i].ok /\ \A j \in 1 .. i - 1 : a[j].seq # last
  BY <1>1, RejectionType DEF Reject
<1>3. /\ replies' \in Seq(Reply) /\ overflow' \in BOOLEAN
      /\ overflow' \/ replies' = replies \o a
  BY <1>1, <1>2, QueueType DEF Reject
<1>4. pc' = "recv" /\ UNCHANGED <<kernel, request, last, done, stale, result>>
  BY DEF Reject
<1>5. AnswerIsComing'
  <2>1. CASE overflow'
    BY <2>1 DEF AnswerIsComing
  <2>2. CASE replies' = replies \o a
    <3>1. PICK i \in 1 .. Len(a) : ~a[i].ok
      BY <1>2
    <3>2. Len(replies) + i \in 1 .. Len(replies') /\ replies'[Len(replies) + i] = a[i]
      BY <1>1, <1>2, <2>2, <3>1, QueuedBehind
    <3> QED BY <3>1, <3>2 DEF AnswerIsComing
  <2> QED BY <1>3, <2>1, <2>2
<1>6. OnlyOwnAckConfirms'
  <2> SUFFICES ASSUME ~overflow', ~stale
               PROVE  \E i \in 1 .. Len(replies') :
                        ~replies'[i].ok /\ \A j \in 1 .. i - 1 : replies'[j].seq # last
    BY <1>4 DEF OnlyOwnAckConfirms
  <2>1. replies = <<>>
    BY DEF Inv, CallInvariant, Reject
  <2>2. replies' = a
    BY <1>2, <1>3, <2>1, ConcatEmptySeq
  <2> QED BY <1>2, <2>2
<1>7. ~done
  BY DEF Inv, CallInvariant, Reject
<1> QED BY <1>1, <1>3, <1>4, <1>5, <1>6, <1>7 DEF Inv, TypeOK, CallInvariant

LEMMA OtherStep == Inv /\ RecvOther => Inv'
<1> SUFFICES ASSUME Inv, RecvOther PROVE Inv'
  OBVIOUS
<1>1. /\ replies \in Seq(Reply) /\ replies # <<>> /\ ~overflow /\ pc = "recv"
      /\ Head(replies) = replies[1] /\ replies[1].ok /\ replies[1].seq # last
      /\ replies' = Tail(replies)
      /\ UNCHANGED <<kernel, overflow, pc, request, last, done, stale, result>>
  BY DEF RecvOther, Readable, Confirms, Inv, TypeOK
<1>2. /\ replies' \in Seq(Reply) /\ Len(replies) \in Nat /\ Len(replies') = Len(replies) - 1
      /\ \A i \in 1 .. Len(replies') : replies'[i] = replies[i + 1]
  BY <1>1, HeadTailProperties, LenProperties
<1>3. AnswerIsComing'
  <2>1. PICK i \in 1 .. Len(replies) : ~replies[i].ok \/ replies[i].seq = last
    BY <1>1 DEF Inv, AnswerIsComing
  <2>2. i - 1 \in 1 .. Len(replies')
    BY <1>1, <1>2, <2>1
  <2>3. replies'[i - 1] = replies[i]
    BY <1>2, <2>2
  <2> QED BY <1>1, <2>1, <2>2, <2>3 DEF AnswerIsComing
<1>4. OnlyOwnAckConfirms'
  <2> SUFFICES ASSUME ~done, ~stale
               PROVE  \E i \in 1 .. Len(replies') :
                        ~replies'[i].ok /\ \A j \in 1 .. i - 1 : replies'[j].seq # last
    BY <1>1 DEF OnlyOwnAckConfirms
  <2>1. PICK i \in 1 .. Len(replies) :
          ~replies[i].ok /\ \A j \in 1 .. i - 1 : replies[j].seq # last
    BY <1>1 DEF Inv, OnlyOwnAckConfirms
  <2>2. i - 1 \in 1 .. Len(replies') /\ i \in Nat
    BY <1>1, <1>2, <2>1
  <2>3. replies'[i - 1] = replies[i]
    BY <1>2, <2>2
  <2>4. ASSUME NEW j \in 1 .. (i - 1) - 1 PROVE replies'[j].seq # last
    <3>1. j \in 1 .. Len(replies') /\ j + 1 \in 1 .. i - 1
      BY <1>2, <2>2
    <3> QED BY <1>2, <2>1, <3>1
  <2> QED BY <2>1, <2>2, <2>3, <2>4
<1> QED BY <1>1, <1>2, <1>3, <1>4 DEF Inv, TypeOK, CallInvariant

LEMMA InvNext == Inv /\ [Next]_vars => Inv'
<1> SUFFICES ASSUME Inv, [Next]_vars PROVE Inv'
  OBVIOUS
<1>1. ASSUME NEW p \in Policy, Apply(p) PROVE Inv'
  <2>1. /\ replies' \in Seq(Reply) /\ overflow' \in BOOLEAN /\ stale' \in BOOLEAN
        /\ ~stale' => replies' = <<>>
    BY <1>1, DiscardType DEF Apply, Inv, TypeOK
  <2>2. /\ pc' = "send" /\ request' = p /\ last' = Length[p] /\ last' \in Nat
        /\ result' = "none" /\ UNCHANGED <<kernel, done>> /\ ~done
    BY <1>1, BatchConstants DEF Apply, LastSeq, Inv, CallInvariant
  <2> QED BY <2>1, <2>2 DEF Inv, TypeOK, CallInvariant, AnswerIsComing, OnlyOwnAckConfirms
<1>2. CASE SendErr
  BY <1>2 DEF SendErr, Return, Inv, TypeOK, CallInvariant, AnswerIsComing, OnlyOwnAckConfirms
<1>3. CASE Commit
  BY <1>3, CommitStep
<1>4. CASE pc = "send" /\ \E F \in SUBSET (1 .. Length[request]) : Reject(F)
  BY <1>4, RejectStep
<1>5. CASE RecvErr
  BY <1>5 DEF RecvErr, Return, Inv, TypeOK, CallInvariant, AnswerIsComing, OnlyOwnAckConfirms
<1>6. CASE RecvRejected \/ RecvLast
  <2>1. replies \in Seq(Reply) /\ replies # <<>> /\ replies' = Tail(replies)
    BY <1>6 DEF RecvRejected, RecvLast, Readable, Inv, TypeOK
  <2>2. replies' \in Seq(Reply)
    BY <2>1, HeadTailProperties
  <2>3. /\ pc' = "idle" /\ request' = NONE /\ done' = FALSE /\ stale' = FALSE
        /\ UNCHANGED <<kernel, overflow>> /\ last' \in Nat /\ result' \in {"ok", "err"}
    BY <1>6 DEF RecvRejected, RecvLast, Return, Inv, TypeOK
  <2> QED BY <2>2, <2>3 DEF Inv, TypeOK, CallInvariant, AnswerIsComing, OnlyOwnAckConfirms
<1>7. CASE RecvOther
  BY <1>7, OtherStep
<1>8. ASSUME NEW adopted \in BOOLEAN, Restart(adopted) PROVE Inv'
  <2>1. <<>> \in Seq(Reply)
    OBVIOUS
  <2> QED BY <1>8, <2>1 DEF Restart, Inv, TypeOK, CallInvariant, AnswerIsComing, OnlyOwnAckConfirms
<1>9. CASE UNCHANGED vars
  BY <1>9 DEF vars, Inv, TypeOK, CallInvariant, AnswerIsComing, OnlyOwnAckConfirms
<1> QED BY <1>1, <1>2, <1>3, <1>4, <1>5, <1>6, <1>7, <1>8, <1>9 DEF Next, Recv

-----------------------------------------------------------------------------
LEMMA InvHolds == Spec => []Inv
<1> QED BY InvInit, InvNext, PTL DEF Spec

(* Between calls and in each call the variables have their types.           *)
THEOREM NftTypeCorrect == Spec => []TypeOK
<1>1. Inv => TypeOK
  BY DEF Inv
<1> QED BY <1>1, InvHolds, PTL

(* What a waiting call waits for is on the socket or is still to come.      *)
THEOREM AnswerCorrect == Spec => []AnswerIsComing
<1>1. Inv => AnswerIsComing
  BY DEF Inv
<1> QED BY <1>1, InvHolds, PTL

(* No call is confirmed by the acknowledgement of another batch or of one   *)
(* the kernel rejected, unless it could not discard the answers to earlier  *)
(* calls.                                                                   *)
THEOREM NftTableCorrect == Spec => []OnlyOwnAckConfirms
<1>1. Inv => OnlyOwnAckConfirms
  BY DEF Inv
<1> QED BY <1>1, InvHolds, PTL

LEMMA ContractStart == Init => Contract!CallInit
BY DEF Init, Contract!CallInit, Contract!Idle

LEMMA ContractStep == Inv /\ [Next]_vars => [Contract!CallNext]_(Contract!transaction)
<1> SUFFICES ASSUME Inv, [Next]_vars PROVE [Contract!CallNext]_(Contract!transaction)
  OBVIOUS
<1>0. NONE \notin Policy
  BY BatchConstants
<1>1. ASSUME NEW p \in Policy, Apply(p) PROVE Contract!Request
  <2>1. /\ request = NONE /\ done = FALSE /\ stale = FALSE
        /\ request' = p /\ done' = FALSE /\ result' = "none" /\ kernel' = kernel
    BY <1>1 DEF Apply, Inv, TypeOK, CallInvariant
  <2>2. stale' \in BOOLEAN
    BY <1>1, DiscardType DEF Apply, Inv, TypeOK
  <2> QED BY <2>1, <2>2 DEF Contract!Request, Contract!Idle, Contract!Begin
<1>2. ASSUME Return("err"), kernel' = kernel, pc # "idle" PROVE Contract!ReturnErr
  BY <1>0, <1>2 DEF Return, Inv, TypeOK, Contract!ReturnErr, Contract!Idle
<1>3. CASE SendErr \/ RecvErr \/ RecvRejected
  BY <1>2, <1>3 DEF SendErr, RecvErr, RecvRejected, Readable, Contract!CallNext
<1>4. CASE Commit
  <2>1. request \in Policy /\ ~done /\ done' /\ kernel' = request /\ request' = request
        /\ result' = result /\ stale' = stale /\ done' = TRUE /\ done = FALSE
    BY <1>4 DEF Commit, Inv, TypeOK, CallInvariant
  <2> QED BY <1>0, <1>4, <2>1 DEF Commit, Contract!CallNext, Contract!Switch, Contract!Idle, Contract!Done
<1>5. CASE (pc = "send" /\ \E F \in SUBSET (1 .. Length[request]) : Reject(F)) \/ RecvOther
  BY <1>5 DEF Reject, RecvOther, Contract!transaction
<1>6. CASE RecvLast
  <2>1. done \/ stale
    <3>1. replies \in Seq(Reply) /\ replies # <<>> /\ Head(replies) = replies[1]
          /\ replies[1].ok /\ replies[1].seq = last /\ pc = "recv" /\ ~overflow
      BY <1>6 DEF RecvLast, Readable, Confirms, Inv, TypeOK
    <3>2. ASSUME NEW i \in 1 .. Len(replies), ~replies[i].ok,
                 \A j \in 1 .. i - 1 : replies[j].seq # last
          PROVE  FALSE
      <4>1. i # 1 => 1 \in 1 .. i - 1
        OBVIOUS
      <4> QED BY <3>1, <3>2, <4>1
    <3> QED BY <3>1, <3>2 DEF Inv, OnlyOwnAckConfirms
  <2>2. request \in Policy
    BY <1>6 DEF RecvLast, Readable, Inv, TypeOK
  <2> QED BY <1>0, <1>6, <2>1, <2>2
        DEF RecvLast, Return, Contract!CallNext, Contract!ReturnOk, Contract!Idle
<1>7. ASSUME NEW adopted \in BOOLEAN, Restart(adopted) PROVE Contract!Abandon
  BY <1>7 DEF Restart, Contract!Abandon, Contract!Idle
<1>8. CASE UNCHANGED vars
  BY <1>8 DEF vars, Contract!transaction
<1> QED BY <1>1, <1>3, <1>4, <1>5, <1>6, <1>7, <1>8 DEF Next, Recv, Contract!CallNext

(* apply_ruleset keeps the contract its callers rely on: all or nothing,    *)
(* and Ok only when it was all, unless the call could not discard the       *)
(* answers to earlier ones.                                                 *)
THEOREM CallImplemented == Spec => ImplementsCall
<1> QED BY InvInit, InvNext, ContractStart, ContractStep, PTL
        DEF Spec, ImplementsCall, Contract!CallSpec
=============================================================================
