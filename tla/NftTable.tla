------------------------------ MODULE NftTable ------------------------------
(***************************************************************************)
(* One call of NftTable::apply_ruleset at the level of netlink messages    *)
(* (src/rustlib/src/bin/obscura/service/os/linux/netfilter.rs).  A batch   *)
(* is numbered from 1, the kernel commits or rejects it as a whole and     *)
(* queues one reply per message on the socket, and the caller waits for    *)
(* the acknowledgement of the last number.  The socket, its rules and the  *)
(* replies nobody read outlive the process that sent the batch.            *)
(***************************************************************************)
EXTENDS Naturals, Sequences

CONSTANTS
  Policy,   (* the rulesets asked for                                      *)
  Length,   (* messages of a policy's batch, its beginning included        *)
  Buffer,   (* bound: replies the socket's receive buffer holds            *)
  NONE

ASSUME BatchConstants ==
  /\ NONE \notin Policy
  /\ Length \in [Policy -> Nat]
  /\ \A p \in Policy : Length[p] >= 3   (* begin, DESTROYTABLE, NEWTABLE *)
  /\ Buffer \in Nat

VARIABLES
  kernel,    (* the rules of the table this socket owns, NONE without one    *)
  replies,   (* unread replies on the socket                                 *)
  overflow,  (* the socket dropped replies: the next recv returns ENOBUFS    *)
  pc,        (* the await of apply_ruleset                                   *)
  request,   (* its policy                                                   *)
  last,      (* last_unchecked_seq, 0 for None                               *)
  done,      (* history: the kernel committed the current batch              *)
  stale,     (* history: the current batch follows answers nobody discarded  *)
  result     (* history: what the last call returned                         *)

vars == <<kernel, replies, overflow, pc, request, last, done, stale, result>>

-----------------------------------------------------------------------------
Ack(seq)   == [seq |-> seq, ok |-> TRUE]
Error(seq) == [seq |-> seq, ok |-> FALSE]

(* The replies to a batch of n messages in which the messages F failed.     *)
(* The beginning, number 1, is answered only when the commit itself failed. *)
Acks(n, F) == [k \in 1 .. n - 1 |-> [seq |-> k + 1, ok |-> (k + 1) \notin F]]

Rejection(n, F) == IF F = {1} THEN <<Error(1)>> \o Acks(n, {}) ELSE Acks(n, F)

(* The number change_msg gave last to the batch of a policy. *)
FaultyLastSeq(p) == Length[p] + 1

LastSeq(p) == Length[p]

-----------------------------------------------------------------------------
Init ==
  /\ kernel = NONE
  /\ replies = <<>>
  /\ overflow = FALSE
  /\ pc = "idle"
  /\ request = NONE
  /\ last = 0
  /\ done = FALSE /\ stale = FALSE
  /\ result = "none"

(* discard_stale_replies reads until the socket would block ... *)
FaultyDrained == replies

Drained == <<>>

DiscardAll == replies' = Drained /\ overflow' = FALSE /\ stale' = FALSE

(* ... or recv reports an error that is neither an interruption nor a loss, *)
(* after any number of replies: the rest stays, and the batch is sent.      *)
DiscardSome ==
  \E k \in 0 .. Len(replies) :
    /\ replies' = SubSeq(replies, k + 1, Len(replies))
    /\ overflow' \in {FALSE, overflow /\ k = 0}
    /\ stale' = (replies' # <<>>)

(* apply_ruleset up to the await in send_batch *)
Apply(p) ==
  /\ pc = "idle"
  /\ pc' = "send"
  /\ request' = p
  /\ DiscardAll \/ DiscardSome
  /\ last' = LastSeq(p)
  /\ result' = "none"
  /\ UNCHANGED <<kernel, done>>

Return(r) ==
  /\ pc' = "idle"
  /\ request' = NONE
  /\ done' = FALSE /\ stale' = FALSE
  /\ result' = r

SendErr ==
  /\ pc = "send"
  /\ Return("err")
  /\ UNCHANGED <<kernel, replies, overflow, last>>

(* The kernel queues its replies; when the socket's buffer is full it drops *)
(* the rest and says so.                                                    *)
Queue(answers) ==
  /\ \/ replies' = replies \o answers /\ UNCHANGED overflow
     \/ \E k \in 0 .. Len(answers) - 1 :
          replies' = replies \o SubSeq(answers, 1, k) /\ overflow' = TRUE
  /\ replies' = replies \/ Len(replies') <= Buffer

Commit ==
  /\ pc = "send"
  /\ pc' = "recv"
  /\ kernel' = request
  /\ done' = TRUE
  /\ Queue(Acks(Length[request], {}))
  /\ UNCHANGED <<request, last, stale, result>>

Reject(F) ==
  /\ pc = "send"
  /\ F # {} /\ F \subseteq 1 .. Length[request] /\ (1 \in F => F = {1})
  /\ pc' = "recv"
  /\ Queue(Rejection(Length[request], F))
  /\ UNCHANGED <<kernel, request, last, done, stale, result>>

(* check_acks: a lost reply, a negative reply, the one it waits for, or     *)
(* another one.                                                             *)
RecvErr ==
  /\ pc = "recv"
  /\ overflow
  /\ overflow' = FALSE
  /\ Return("err")
  /\ UNCHANGED <<kernel, replies, last>>

Readable == pc = "recv" /\ ~overflow /\ replies # <<>>

RecvRejected ==
  /\ Readable
  /\ ~Head(replies).ok
  /\ replies' = Tail(replies)
  /\ Return("err")
  /\ UNCHANGED <<kernel, overflow, last>>

FaultyConfirms(reply) == reply.ok

Confirms(reply) == reply.ok /\ reply.seq = last

RecvLast ==
  /\ Readable
  /\ Confirms(Head(replies))
  /\ replies' = Tail(replies)
  /\ last' = 0
  /\ Return("ok")
  /\ UNCHANGED <<kernel, overflow>>

RecvOther ==
  /\ Readable
  /\ Head(replies).ok /\ ~Confirms(Head(replies))
  /\ replies' = Tail(replies)
  /\ UNCHANGED <<kernel, overflow, pc, request, last, done, stale, result>>

(* The process dies and the next one adopts the socket, or creates another. *)
Restart(adopted) ==
  /\ pc' = "idle"
  /\ request' = NONE
  /\ last' = 0
  /\ done' = FALSE /\ stale' = FALSE
  /\ result' = "none"
  /\ IF adopted
     THEN UNCHANGED <<kernel, replies, overflow>>
     ELSE kernel' = NONE /\ replies' = <<>> /\ overflow' = FALSE

Recv == RecvErr \/ RecvRejected \/ RecvLast \/ RecvOther

Next ==
  \/ \E p \in Policy : Apply(p)
  \/ SendErr
  \/ Commit
  \/ pc = "send" /\ \E F \in SUBSET (1 .. Length[request]) : Reject(F)
  \/ Recv
  \/ \E adopted \in BOOLEAN : Restart(adopted)

Spec == Init /\ [][Next]_vars

(* A sent batch is processed and what can be read is read. *)
FairSpec == Spec /\ WF_vars(Commit) /\ WF_vars(Recv)

-----------------------------------------------------------------------------
(* Properties *)

Reply == [seq : Nat, ok : BOOLEAN]

(* Every variable has its type; a call in progress has a policy and the     *)
(* number of its last message.                                              *)
TypeOK ==
  /\ kernel \in Policy \cup {NONE}
  /\ replies \in Seq(Reply)
  /\ overflow \in BOOLEAN
  /\ pc \in {"idle", "send", "recv"}
  /\ IF pc = "idle" THEN request = NONE ELSE request \in Policy /\ last = Length[request]
  /\ last \in Nat
  /\ done \in BOOLEAN /\ stale \in BOOLEAN
  /\ result \in {"none", "ok", "err"}

(* While the call waits, a reply or the loss of one is there to be read     *)
(* that ends it: check_acks never waits for an answer that does not come.   *)
AnswerIsComing ==
  pc = "recv" =>
    \/ overflow
    \/ \E i \in 1 .. Len(replies) : ~replies[i].ok \/ replies[i].seq = last

(* The acknowledgement the call waits for is that of its own batch: unless  *)
(* the kernel committed it, a negative reply or a loss comes first.  A call *)
(* that could not discard the answers to earlier ones is excepted: it can   *)
(* take the acknowledgement of an earlier batch for its own.                *)
OnlyOwnAckConfirms ==
  pc = "recv" /\ ~done /\ ~overflow /\ ~stale =>
    \E i \in 1 .. Len(replies) :
      ~replies[i].ok /\ \A j \in 1 .. i - 1 : replies[j].seq # last

(* apply_ruleset keeps the contract of FirewallCall: its rules come whole   *)
(* or not at all, and Ok says that they came, if the call could discard     *)
(* what earlier calls left on the socket.                                   *)
Contract == INSTANCE FirewallCall WITH
  rules  <- kernel,
  call   <- [policy |-> request, done |-> done, stale |-> stale],
  answer <- result

ImplementsCall == Contract!CallSpec

(* A call that was sent returns, or its process dies. *)
CallReturns == pc = "recv" ~> pc = "idle"
=============================================================================
