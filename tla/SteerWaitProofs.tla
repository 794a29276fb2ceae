-------------------------- MODULE SteerWaitProofs --------------------------
(***************************************************************************)
(* Theorems about SteerWait, for every set of waiting commands, kinds of   *)
(* question, messages, bounds and faults.                                  *)
(*                                                                         *)
(* The mailbox changes in six ways only (MailStep).  What is true of its   *)
(* rows is shown once for each of these ways; what is true of waiters,     *)
(* helpers and receipts, which point into the mailbox, is shown once for   *)
(* each action and needs only that rows stay where they are.               *)
(***************************************************************************)
EXTENDS SteerWait, TLAPS

ReplyRows == {i \in DOMAIN mail : mail[i].kind = "reply"}
Delivering == {"report", "receipt", "cleanup"}

(* A reply and an end row refer to an arm; an end row that says "reply"    *)
(* refers to the reply, which was delivered before.                        *)
RowsInv ==
    /\ \A i \in DOMAIN mail :
         mail[i].kind \in {"reply", "ended"} => mail[i].wait \in Arms
    /\ \A w \in Arms : \A i \in RowsOf("ended", w) :
         /\ mail[i].word \in Decisions
         /\ mail[i].word = "reply" =>
              mail[i].ref \in Replies(w) /\ mail[i].ref \in delivered

(* Receipts and markers tell of deliveries only. *)
DeliveryInv ==
    /\ delivered \subseteq ReplyRows
    /\ marked \subseteq delivered /\ receipts \subseteq delivered

(* What a waiter holds points to the rows it should. *)
Sound(u, arms, replies, done) ==
    /\ u.seen \subseteq done
    /\ u.pc = "closing" => u.prior \in arms
    /\ u.word # "reply"
    /\ u.pc \in {"publish", "unpublished", "poll", "expiring"} => u.arm \in arms
    /\ u.pc \in Delivering => u.give \in replies
    /\ u.pc \in {"receipt", "cleanup"} => u.give \in done

WaiterInv == \A p \in Waiters : Sound(waiter[p], Arms, ReplyRows, delivered)

HelperInv ==
    \A h \in helpers :
        /\ h.wait \in Arms
        /\ h.op \in {"receipt", "end"} => h.ref \in delivered

GivenUp(w) == \E i \in RowsOf("ended", w) : mail[i].word # "reply"
Concluded(w) == GivenUp(w) \/ Replies(w) \cap delivered # {}

(* Only the newest wait may still be open, or answered and not delivered. *)
SerialInv == \A v, w \in Arms : v < w => Concluded(v)

DeadlineInv == \A w \in deadlined : w \in Arms /\ GivenUp(w)

(* A refusal is for good: the wait has its outcome, or the message cannot  *)
(* answer this kind of question.                                           *)
ToldInv ==
    \A t \in told :
        /\ t.wait \in Arms /\ [word |-> t.word, id |-> t.ref] \in Messages
        /\ ~t.admitted => \/ Settled(t.wait) \/ Replies(t.wait) # {}
                          \/ ~Fits(t.wait, t.word)

WaitInv ==
    /\ TypeOK /\ RowsInv /\ OneOutcome /\ DeliveryInv /\ WaiterInv
    /\ HelperInv /\ SerialInv /\ DeadlineInv /\ ToldInv /\ ToldTruth

(* What an append does to the mailbox seen as a function. *)
LEMMA AppendFacts ==
    ASSUME mail \in Seq(Row), NEW kind, NEW w, NEW word, NEW ref,
           AppendRow(kind, w, word, ref)
    PROVE  /\ Len(mail) \in Nat
           /\ DOMAIN mail = 1..Len(mail)
           /\ DOMAIN mail' = 1..(Len(mail) + 1)
           /\ \A i \in DOMAIN mail : mail'[i] = mail[i]
           /\ mail'[Len(mail) + 1] =
                [kind |-> kind, wait |-> w, word |-> word, ref |-> ref]
BY DEF AppendRow

(* An append of a well-typed row keeps the mailbox well typed. *)
LEMMA AppendType ==
    ASSUME mail \in Seq(Row), NEW kind, NEW w, NEW word, NEW ref,
           [kind |-> kind, wait |-> w, word |-> word, ref |-> ref] \in Row,
           AppendRow(kind, w, word, ref)
    PROVE  mail' \in Seq(Row)
BY DEF AppendRow

(* Row numbers are natural numbers. *)
LEMMA DomainNat ==
    ASSUME mail \in Seq(Row)
    PROVE  /\ DOMAIN mail \subseteq Nat
           /\ \A i \in DOMAIN mail : mail[i] \in Row
<1>1. DOMAIN mail = 1..Len(mail) /\ Len(mail) \in Nat
  OBVIOUS
<1>2. \A i \in DOMAIN mail : mail[i] \in Row
  OBVIOUS
<1> QED
  BY <1>1, <1>2

-----------------------------------------------------------------------------
(* Types *)

(* The initial state is well typed. *)
LEMMA TypeInit == Init => TypeOK
<1> SUFFICES ASSUME Init PROVE TypeOK
  OBVIOUS
<1>1. mail \in Seq(Row)
  BY DEF Init
<1>2. Idle \in Waiter
  BY DEF Idle, Waiter, Points, Kinds, Decisions
<1>3. waiter \in [Waiters -> Waiter]
  BY <1>2 DEF Init
<1> QED
  BY <1>1, <1>3 DEF Init, TypeOK

(* A waiter's next state is again a waiter. *)
LEMMA WaiterUpdate ==
    ASSUME TypeOK, NEW p \in Waiters, NEW u \in Waiter,
           waiter' = [waiter EXCEPT ![p] = u]
    PROVE  waiter' \in [Waiters -> Waiter]
BY DEF TypeOK

(* A command that ends is a waiter again. *)
LEMMA ExitType ==
    ASSUME TypeOK, NEW p \in Waiters, Exit(p)
    PROVE  waiter' \in [Waiters -> Waiter]
BY DEF TypeOK, Exit, Idle, Waiter, Points, Kinds, Decisions

(* So is one that moves to another point, *)
LEMMA MoveType ==
    ASSUME TypeOK, NEW p \in Waiters, NEW to \in Points, Move(p, to)
    PROVE  waiter' \in [Waiters -> Waiter]
BY DEF TypeOK, Move, Waiter

(* one that is about to deliver a reply, *)
LEMMA GiveType ==
    ASSUME TypeOK, NEW p \in Waiters, NEW r \in Nat, Give(p, r)
    PROVE  waiter' \in [Waiters -> Waiter]
BY DEF TypeOK, Give, Idle, Waiter, Points, Kinds, Decisions

(* one that goes on to settle the prior wait, *)
LEMMA SettleType ==
    ASSUME TypeOK, NEW p \in Waiters, NEW to \in Points, NEW a \in SUBSET Nat,
           waiter' = [waiter EXCEPT ![p].pc = to, ![p].acks = a]
    PROVE  waiter' \in [Waiters -> Waiter]
<1>1. waiter \in [Waiters -> Waiter] /\ waiter[p] \in Waiter
  BY DEF TypeOK
<1>2. [waiter[p] EXCEPT !.pc = to, !.acks = a] \in Waiter
  BY <1>1 DEF Waiter
<1> QED
  BY <1>1, <1>2

(* and one that is about to close it. *)
LEMMA ClosingType ==
    ASSUME TypeOK, NEW p \in Waiters, NEW w \in Nat, NEW d \in Decisions,
           NEW to \in Points,
           waiter' = [waiter EXCEPT ![p].pc = to, ![p].prior = w, ![p].word = d]
    PROVE  waiter' \in [Waiters -> Waiter]
<1>1. waiter \in [Waiters -> Waiter] /\ waiter[p] \in Waiter
  BY DEF TypeOK
<1>2. [waiter[p] EXCEPT !.pc = to, !.prior = w, !.word = d] \in Waiter
  BY <1>1 DEF Waiter
<1> QED
  BY <1>1, <1>2

(* The rows an operator of SteerWait names are rows of the mailbox. *)
LEMMA RowsNat ==
    ASSUME TypeOK
    PROVE  /\ Arms \subseteq Nat /\ LatestArm \subseteq Nat
           /\ \A w : Replies(w) \subseteq Nat
           /\ \A s : Recoverable(s) \subseteq Nat
           /\ \A s : Pending(s) \subseteq Nat
<1>1. DOMAIN mail \subseteq Nat
  BY DomainNat DEF TypeOK
<1> QED
  BY <1>1 DEF Arms, LatestArm, Replies, RowsOf, Recoverable, Pending, Steers

(* The appends of SteerWait are of well-typed rows. *)
LEMMA AppendRowType ==
    ASSUME TypeOK, NEW kind \in {"started", "reply", "ended", "steer"},
           NEW w \in Nat, NEW ref \in Nat,
           NEW word \in Kinds \cup Words \cup Decisions \cup {"none"},
           AppendRow(kind, w, word, ref)
    PROVE  mail' \in Seq(Row)
<1>1. [kind |-> kind, wait |-> w, word |-> word, ref |-> ref] \in Row
  BY DEF Row
<1> QED
  BY <1>1, AppendType DEF TypeOK

(* The parts of TypeOK, one by one. *)
LEMMA TypeParts ==
    ASSUME TypeOK
    PROVE  /\ mail \in Seq(Row)
           /\ receipts \subseteq Nat /\ expired \subseteq Nat
           /\ waiter \in [Waiters -> Waiter]
           /\ helpers \subseteq Helper
           /\ delivered \subseteq Nat /\ marked \subseteq Nat
           /\ acked \subseteq Nat /\ deadlined \subseteq Nat
           /\ told \subseteq Told
BY DEF TypeOK

(* The fields of a waiter. *)
LEMMA WaiterFields ==
    ASSUME TypeOK, NEW p \in Waiters
    PROVE  /\ waiter[p].arm \in Nat /\ waiter[p].prior \in Nat
           /\ waiter[p].give \in Nat /\ waiter[p].word \in Decisions
           /\ waiter[p].ask \in Kinds /\ waiter[p].seen \subseteq Nat
BY DEF TypeOK, Waiter

(* Every step of a waiting command preserves the types. *)
LEMMA WaiterTypeStep ==
    ASSUME TypeOK, WaiterInv, NEW p \in Waiters, WaiterStep(p) \/ Die(p)
    PROVE  TypeOK'
<1> USE TypeParts, WaiterFields, RowsNat, ExitType, GiveType
<1>0. "read" \in Points /\ "settle" \in Points /\ "arming" \in Points
      /\ "poll" \in Points /\ "unpublished" \in Points /\ "closing" \in Points
      /\ "expiring" \in Points /\ "receipt" \in Points /\ "cleanup" \in Points
      /\ "publish" \in Points
  BY DEF Points
<1>1. ASSUME NEW ask \in Asked, Begin(p, ask) PROVE TypeOK'
  <2>1. PICK seen \in SUBSET (receipts \cup marked) :
          waiter' = [waiter EXCEPT ![p] =
                       [Idle EXCEPT !.pc = "read", !.ask = ask,
                                    !.seen = seen, !.acks = acked]]
    BY <1>1 DEF Begin
  <2>2. [Idle EXCEPT !.pc = "read", !.ask = ask, !.seen = seen, !.acks = acked]
          \in Waiter
    BY <1>0, AskedAssumption DEF Idle, Waiter, Decisions
  <2>3. waiter' \in [Waiters -> Waiter]
    BY <2>1, <2>2, WaiterUpdate
  <2> QED
    BY <1>1, <2>3 DEF Begin, TypeOK, MailboxUnchanged, OutputUnchanged
<1>2. ASSUME InitialRead(p) PROVE TypeOK'
  <2>1. CASE \E r \in Recoverable(waiter[p].seen) : Give(p, r)
    <3>1. waiter' \in [Waiters -> Waiter]
      BY <2>1
    <3> QED
      BY <1>2, <3>1 DEF InitialRead, TypeOK, MailboxUnchanged, OutputUnchanged
  <2>2. CASE Exit(p)
    BY <1>2, <2>2 DEF InitialRead, TypeOK, MailboxUnchanged, OutputUnchanged
  <2>3. CASE waiter' = [waiter EXCEPT ![p].pc = "settle", ![p].acks = {}]
    <3>0. {} \in SUBSET Nat
      OBVIOUS
    <3>1. waiter' \in [Waiters -> Waiter]
      BY <2>3, <1>0, <3>0, SettleType
    <3> QED
      BY <1>2, <3>1 DEF InitialRead, TypeOK, MailboxUnchanged, OutputUnchanged
  <2> QED
    BY <1>2, <2>1, <2>2, <2>3 DEF InitialRead
<1>3. ASSUME GiveUp(p) PROVE TypeOK'
  BY <1>3 DEF GiveUp, TypeOK, MailboxUnchanged, OutputUnchanged
<1>4. ASSUME SettleStalePriorWait(p) PROVE TypeOK'
  <2>1. CASE Move(p, "arming")
    <3>1. waiter' \in [Waiters -> Waiter]
      BY <2>1, <1>0, MoveType
    <3> QED
      BY <1>4, <3>1 DEF SettleStalePriorWait, TypeOK, MailboxUnchanged, OutputUnchanged
  <2>2. CASE \E w \in LatestArm, d \in {"timeout", "failed"} :
               waiter' = [waiter EXCEPT ![p].pc = "closing",
                                   ![p].prior = w, ![p].word = d]
    <3>1. PICK w \in LatestArm, d \in {"timeout", "failed"} :
            waiter' = [waiter EXCEPT ![p].pc = "closing",
                                ![p].prior = w, ![p].word = d]
      BY <2>2
    <3>2. d \in Decisions
      BY Zenon DEF Decisions
    <3>3. waiter' \in [Waiters -> Waiter]
      BY <3>1, <3>2, <1>0, ClosingType
    <3> QED
      BY <1>4, <3>3 DEF SettleStalePriorWait, TypeOK, MailboxUnchanged, OutputUnchanged
  <2> QED
    BY <1>4, <2>1, <2>2 DEF SettleStalePriorWait
<1>5. ASSUME ClosePriorWait(p) PROVE TypeOK'
  <2>1. waiter' \in [Waiters -> Waiter]
    <3>1. CASE Reconsider(p)
      BY <3>1, <1>0, ClosingType DEF Reconsider, Decisions
    <3>2. CASE \E r \in Replies(waiter[p].prior) : Give(p, r)
      BY <3>2
    <3> QED
      BY <1>5, <3>1, <3>2 DEF ClosePriorWait
  <2>2. mail' \in Seq(Row)
    BY <1>5, AppendRowType DEF ClosePriorWait
  <2> QED
    BY <1>5, <2>1, <2>2 DEF ClosePriorWait, TypeOK, OutputUnchanged
<1>6. ASSUME ArmWait(p) PROVE TypeOK'
  <2>1. CASE AppendRow("started", 0, waiter[p].ask, 0)
             /\ waiter' = [waiter EXCEPT ![p] =
                             [Idle EXCEPT !.pc = "publish", !.arm = Len(mail) + 1]]
    <3>1. Len(mail) + 1 \in Nat
      BY <2>1, AppendFacts
    <3>2. [Idle EXCEPT !.pc = "publish", !.arm = Len(mail) + 1] \in Waiter
      BY <1>0, <3>1 DEF Idle, Waiter, Decisions, Kinds
    <3>3. waiter' \in [Waiters -> Waiter]
      BY <2>1, <3>2, WaiterUpdate
    <3>4. mail' \in Seq(Row)
      BY <2>1, AppendRowType
    <3> QED
      BY <1>6, <3>3, <3>4 DEF ArmWait, TypeOK, OutputUnchanged
  <2>2. CASE UNCHANGED mail /\ \E r \in Recoverable(waiter[p].seen) : Give(p, r)
    <3>1. waiter' \in [Waiters -> Waiter]
      BY <2>2
    <3> QED
      BY <1>6, <2>2, <3>1 DEF ArmWait, TypeOK, OutputUnchanged
  <2>3. CASE UNCHANGED mail /\ Exit(p)
    BY <1>6, <2>3 DEF ArmWait, TypeOK, OutputUnchanged
  <2> QED
    BY <1>6, <2>1, <2>2, <2>3 DEF ArmWait
<1>7. ASSUME PublishQuestion(p) PROVE TypeOK'
  <2>1. waiter' \in [Waiters -> Waiter]
    BY <1>7, <1>0, MoveType DEF PublishQuestion
  <2> QED
    BY <1>7, <2>1 DEF PublishQuestion, TypeOK, MailboxUnchanged, OutputUnchanged
<1>8. ASSUME FailWait(p) PROVE TypeOK'
  <2>1. mail' \in Seq(Row)
    BY <1>8, AppendRowType DEF FailWait, Decisions
  <2>2. helpers' \subseteq Helper
    BY <1>8 DEF FailWait, Helper
  <2> QED
    BY <1>8, <2>1, <2>2 DEF FailWait, TypeOK, OutputUnchanged
<1>9. ASSUME PollReply(p) PROVE TypeOK'
  <2>1. waiter' \in [Waiters -> Waiter]
    BY <1>9 DEF PollReply
  <2> QED
    BY <1>9, <2>1 DEF PollReply, TypeOK, MailboxUnchanged, OutputUnchanged
<1>10. ASSUME PollDeadline(p) PROVE TypeOK'
  <2>1. waiter' \in [Waiters -> Waiter]
    BY <1>10, <1>0, MoveType DEF PollDeadline
  <2> QED
    BY <1>10, <2>1 DEF PollDeadline, TypeOK, MailboxUnchanged, OutputUnchanged
<1>11. ASSUME DeadlineResult(p) PROVE TypeOK'
  <2>1. mail' \in Seq(Row)
    BY <1>11, AppendRowType DEF DeadlineResult, Decisions
  <2>2. helpers' \subseteq Helper
    BY <1>11 DEF DeadlineResult, Helper
  <2>3. waiter' \in [Waiters -> Waiter]
    BY <1>11 DEF DeadlineResult
  <2>4. deadlined' \subseteq Nat
    BY <1>11 DEF DeadlineResult
  <2> QED
    BY <1>11, <2>1, <2>2, <2>3, <2>4 DEF DeadlineResult, TypeOK
<1>12. ASSUME ReportReply(p) PROVE TypeOK'
  <2>1. waiter' \in [Waiters -> Waiter]
    BY <1>12, <1>0, MoveType DEF ReportReply
  <2> QED
    BY <1>12, <2>1 DEF ReportReply, TypeOK, MailboxUnchanged
<1>13. ASSUME ReportReceipt(p) PROVE TypeOK'
  <2>1. waiter' \in [Waiters -> Waiter]
    BY <1>13, <1>0, MoveType DEF ReportReceipt
  <2> QED
    BY <1>13, <2>1 DEF ReportReceipt, TypeOK, MailboxUnchanged
<1>14. ASSUME ScheduleCleanup(p) PROVE TypeOK'
  <2>1. PICK ops \in SUBSET {"receipt", "end"} :
          helpers' = helpers \cup
            {[op |-> o, wait |-> mail[waiter[p].give].wait, ref |-> waiter[p].give] :
               o \in ops}
    BY <1>14 DEF ScheduleCleanup
  <2>2. mail[waiter[p].give].wait \in Nat
    <3>1. waiter[p].give \in DOMAIN mail
      BY <1>14 DEF ScheduleCleanup, WaiterInv, Sound, Delivering, ReplyRows
    <3>2. mail[waiter[p].give] \in Row
      BY <3>1, DomainNat
    <3> QED
      BY <3>2 DEF Row
  <2>3. helpers' \subseteq Helper
    BY <2>1, <2>2 DEF Helper
  <2> QED
    BY <1>14, <2>3 DEF ScheduleCleanup, TypeOK, MailboxUnchanged, OutputUnchanged
<1>15. ASSUME Die(p) PROVE TypeOK'
  BY <1>15 DEF Die, TypeOK, MailboxUnchanged, OutputUnchanged
<1> QED
  BY <1>1, <1>2, <1>3, <1>4, <1>5, <1>6, <1>7, <1>8, <1>9, <1>10, <1>11, <1>12,
     <1>13, <1>14, <1>15 DEF WaiterStep

(* Every other step preserves the types. *)
LEMMA OtherTypeStep ==
    ASSUME TypeOK,
           \/ \E h \in helpers : RunHelper(h) \/ HelperEnds(h)
           \/ ControllerStep
           \/ \E i \in Pending(acked) : AckSteer(i)
           \/ \E w \in Arms : Expire(w)
    PROVE  TypeOK'
<1> USE TypeParts, RowsNat
<1>1. ASSUME NEW h \in helpers, RunHelper(h) PROVE TypeOK'
  <2>1. h \in Helper
    OBVIOUS
  <2>2. h.wait \in Nat /\ h.ref \in Nat
    BY <2>1 DEF Helper
  <2>3. mail' \in Seq(Row)
    BY <1>1, <2>2, AppendRowType DEF RunHelper, Decisions
  <2>4. receipts' \subseteq Nat
    BY <1>1, <2>2 DEF RunHelper
  <2> QED
    BY <1>1, <2>3, <2>4 DEF RunHelper, TypeOK, OutputUnchanged
<1>2. ASSUME NEW h \in helpers, HelperEnds(h) PROVE TypeOK'
  BY <1>2 DEF HelperEnds, TypeOK, MailboxUnchanged, OutputUnchanged
<1>3. ASSUME NEW w \in Arms, NEW m \in Messages, NEW b \in BOOLEAN, Hear(w, m, b)
      PROVE  told' \subseteq Told
  <2>1. m.word \in Words /\ m.id \in Nat
    BY MessagesAssumption
  <2>2. w \in Nat
    OBVIOUS
  <2>3. [wait |-> w, word |-> m.word, ref |-> m.id, admitted |-> b] \in Told
    BY <2>1, <2>2 DEF Told
  <2> QED
    BY <1>3, <2>3 DEF Hear
<1>4. ASSUME NEW w \in Arms, NEW m \in Messages, AdmitReply(w, m) PROVE TypeOK'
  <2>1. m.word \in Words /\ m.id \in Nat
    BY MessagesAssumption
  <2>2. mail' \in Seq(Row)
    BY <1>4, <2>1, AppendRowType DEF AdmitReply
  <2>3. told' \subseteq Told
    BY <1>3, <1>4 DEF AdmitReply
  <2> QED
    BY <1>4, <2>2, <2>3 DEF AdmitReply, TypeOK, OutputUnchanged
<1>5. ASSUME NEW w \in Arms, NEW m \in Messages, RetryReply(w, m) PROVE TypeOK'
  <2>1. told' \subseteq Told
    BY <1>3, <1>5 DEF RetryReply
  <2> QED
    BY <1>5, <2>1 DEF RetryReply, TypeOK, OutputUnchanged
<1>6. ASSUME NEW w \in Arms, NEW m \in Messages, RefuseReply(w, m) PROVE TypeOK'
  <2>1. told' \subseteq Told
    BY <1>3, <1>6 DEF RefuseReply
  <2> QED
    BY <1>6, <2>1 DEF RefuseReply, TypeOK, OutputUnchanged
<1>7. ASSUME SendSteer PROVE TypeOK'
  <2>1. mail' \in Seq(Row)
    BY <1>7, AppendRowType DEF SendSteer
  <2> QED
    BY <1>7, <2>1 DEF SendSteer, TypeOK, OutputUnchanged
<1>8. ASSUME NEW i \in Pending(acked), AckSteer(i) PROVE TypeOK'
  BY <1>8 DEF AckSteer, TypeOK, OutputUnchanged
<1>9. ASSUME NEW w \in Arms, Expire(w) PROVE TypeOK'
  BY <1>9 DEF Expire, TypeOK, OutputUnchanged
<1> QED
  BY <1>1, <1>2, <1>4, <1>5, <1>6, <1>7, <1>8, <1>9 DEF ControllerStep

(* Types are preserved. *)
LEMMA TypeStep ==
    ASSUME TypeOK, WaiterInv, [Next]_vars
    PROVE  TypeOK'
<1>1. CASE UNCHANGED vars
  BY <1>1 DEF vars, TypeOK
<1>2. CASE Next
  BY <1>2, WaiterTypeStep, OtherTypeStep DEF Next
<1> QED
  BY <1>1, <1>2

-----------------------------------------------------------------------------
(* The mailbox *)

(* The six ways in which a step treats the mailbox. *)
SteerAppended == AppendRow("steer", 0, "none", 0)

ArmAppended ==
    \E k \in Kinds, seen \in SUBSET delivered :
        PriorClosed(seen) /\ AppendRow("started", 0, k, 0)

ReplyAppended(w, m) ==
    /\ ~Settled(w) /\ Replies(w) = {} /\ Fits(w, m.word)
    /\ AppendRow("reply", w, m.word, m.id)

EndAppended(w, d) == EndWins(w) /\ AppendRow("ended", w, d, 0)

ReplyEndAppended(w, r) ==
    Replies(w) = {r} /\ ~Settled(w) /\ AppendRow("ended", w, "reply", r)

MailStep ==
    \/ UNCHANGED mail
    \/ SteerAppended
    \/ ArmAppended
    \/ \E w \in Arms, m \in Messages : ReplyAppended(w, m)
    \/ \E w \in Arms, d \in {"timeout", "failed"} : EndAppended(w, d)
    \/ \E w \in Arms, r \in delivered : ReplyEndAppended(w, r)

(* What an append does to the sets of rows the code reads. *)
LEMMA AppendSets ==
    ASSUME mail \in Seq(Row), NEW kind, NEW w, NEW word, NEW ref,
           AppendRow(kind, w, word, ref)
    PROVE  /\ Len(mail) + 1 \in Nat /\ Len(mail) + 1 \notin DOMAIN mail
           /\ \A i \in DOMAIN mail : i \in Nat /\ i < Len(mail) + 1
           /\ DOMAIN mail' = DOMAIN mail \cup {Len(mail) + 1}
           /\ \A i \in DOMAIN mail : mail'[i] = mail[i]
           /\ mail'[Len(mail) + 1].kind = kind /\ mail'[Len(mail) + 1].wait = w
           /\ mail'[Len(mail) + 1].word = word /\ mail'[Len(mail) + 1].ref = ref
           /\ Arms' = Arms \cup (IF kind = "started" THEN {Len(mail) + 1} ELSE {})
           /\ \A v : Replies(v)' = Replies(v) \cup
                (IF kind = "reply" /\ v = w THEN {Len(mail) + 1} ELSE {})
           /\ \A v : RowsOf("ended", v)' = RowsOf("ended", v) \cup
                (IF kind = "ended" /\ v = w THEN {Len(mail) + 1} ELSE {})
<1> DEFINE n == Len(mail) + 1
<1>0. /\ Len(mail) \in Nat
      /\ DOMAIN mail = 1..Len(mail)
      /\ DOMAIN mail' = 1..(Len(mail) + 1)
      /\ \A i \in DOMAIN mail : mail'[i] = mail[i]
      /\ mail'[n] = [kind |-> kind, wait |-> w, word |-> word, ref |-> ref]
  <2>1. mail \in Seq(Row) /\ AppendRow(kind, w, word, ref)
    OBVIOUS
  <2> QED
    BY <2>1, AppendFacts DEF AppendRow
<1>1. /\ n \in Nat /\ n \notin DOMAIN mail
      /\ \A i \in DOMAIN mail : i \in Nat /\ i < n
      /\ DOMAIN mail' = DOMAIN mail \cup {n}
      /\ \A i \in DOMAIN mail : mail'[i] = mail[i]
      /\ mail'[n] = [kind |-> kind, wait |-> w, word |-> word, ref |-> ref]
  BY <1>0
<1>2. /\ mail'[n].kind = kind /\ mail'[n].wait = w
      /\ mail'[n].word = word /\ mail'[n].ref = ref
  BY <1>1
<1> HIDE DEF n
<1>3. Arms' = Arms \cup (IF kind = "started" THEN {n} ELSE {})
  BY <1>1, <1>2 DEF Arms
<1>4. \A v : Replies(v)' = Replies(v) \cup
         (IF kind = "reply" /\ v = w THEN {n} ELSE {})
  BY <1>1, <1>2 DEF Replies, RowsOf
<1>5. \A v : RowsOf("ended", v)' = RowsOf("ended", v) \cup
         (IF kind = "ended" /\ v = w THEN {n} ELSE {})
  BY <1>1, <1>2 DEF RowsOf
<1> QED
  BY <1>1, <1>2, <1>3, <1>4, <1>5 DEF n

(* No step of the mailbox moves a row, loses one or unsettles a wait. *)
LEMMA MailGrows ==
    ASSUME TypeOK, MailStep
    PROVE  /\ \A i \in DOMAIN mail : i \in DOMAIN mail' /\ mail'[i] = mail[i]
           /\ Arms \subseteq Arms' /\ ReplyRows \subseteq ReplyRows'
           /\ \A w : Replies(w) \subseteq Replies(w)'
           /\ \A w : RowsOf("ended", w) \subseteq RowsOf("ended", w)'
           /\ \A w : Settled(w) => Settled(w)'
           /\ \A w : GivenUp(w) => GivenUp(w)'
<1>1. \A i \in DOMAIN mail : i \in DOMAIN mail' /\ mail'[i] = mail[i]
  <2>1. CASE UNCHANGED mail
    BY <2>1
  <2>2. CASE \E kind, w, word, ref : AppendRow(kind, w, word, ref)
    <3>1. PICK kind, w, word, ref : AppendRow(kind, w, word, ref)
      BY <2>2
    <3>2. mail \in Seq(Row)
      BY DEF TypeOK
    <3>3. /\ DOMAIN mail' = DOMAIN mail \cup {Len(mail) + 1}
          /\ \A i \in DOMAIN mail : mail'[i] = mail[i]
      BY <3>1, <3>2, AppendSets, Zenon
    <3> QED
      BY <3>3
  <2> QED
    BY <2>1, <2>2 DEF MailStep, SteerAppended, ArmAppended, ReplyAppended,
                      EndAppended, ReplyEndAppended
<1>2. Arms \subseteq Arms' /\ ReplyRows \subseteq ReplyRows'
  BY <1>1 DEF Arms, ReplyRows
<1>3. /\ \A w : Replies(w) \subseteq Replies(w)'
      /\ \A w : RowsOf("ended", w) \subseteq RowsOf("ended", w)'
  BY <1>1 DEF Replies, RowsOf
<1>4. \A w, i : i \in RowsOf("ended", w) => mail'[i] = mail[i]
  BY <1>1 DEF RowsOf
<1>5. \A w : Settled(w) => Settled(w)'
  BY <1>3, <1>4 DEF Settled
<1>6. \A w : GivenUp(w) => GivenUp(w)'
  BY <1>3, <1>4 DEF GivenUp
<1> QED
  BY <1>1, <1>2, <1>3, <1>5, <1>6

(* Nothing refers to what is not an arm. *)
LEMMA NoArmNoRows ==
    ASSUME RowsInv
    PROVE  \A v : v \notin Arms => Replies(v) = {} /\ RowsOf("ended", v) = {}
BY DEF RowsInv, Replies, RowsOf

(* Rows keep pointing to the right rows. *)
LEMMA RowsStep ==
    ASSUME TypeOK, RowsInv, MailStep, delivered \subseteq delivered'
    PROVE  RowsInv'
<1>0. mail \in Seq(Row)
  BY DEF TypeOK
<1>1. CASE UNCHANGED mail
  BY <1>1 DEF RowsInv, Arms, RowsOf, Replies
<1>2. ASSUME NEW kind, NEW w, NEW word, NEW ref, AppendRow(kind, w, word, ref),
             kind \in {"reply", "ended"} => w \in Arms,
             kind = "ended" => word \in Decisions,
             kind = "ended" /\ word = "reply" => ref \in Replies(w) /\ ref \in delivered
      PROVE  RowsInv'
  <2> DEFINE n == Len(mail) + 1
  <2>1. /\ n \notin DOMAIN mail
        /\ DOMAIN mail' = DOMAIN mail \cup {n}
        /\ \A i \in DOMAIN mail : mail'[i] = mail[i]
        /\ mail'[n].kind = kind /\ mail'[n].wait = w
        /\ mail'[n].word = word /\ mail'[n].ref = ref
        /\ \A v : RowsOf("ended", v)' = RowsOf("ended", v) \cup
             (IF kind = "ended" /\ v = w THEN {n} ELSE {})
    BY <1>0, <1>2, AppendSets
  <2>0. Arms \subseteq Arms' /\ \A v : Replies(v) \subseteq Replies(v)'
    BY MailGrows
  <2> HIDE DEF n
  <2>2. \A i \in DOMAIN mail' :
          mail'[i].kind \in {"reply", "ended"} => mail'[i].wait \in Arms'
    BY <1>2, <2>0, <2>1 DEF RowsInv
  <2>3. ASSUME NEW v \in Arms', NEW i \in RowsOf("ended", v)'
        PROVE  /\ mail'[i].word \in Decisions
               /\ mail'[i].word = "reply" =>
                    mail'[i].ref \in Replies(v)' /\ mail'[i].ref \in delivered'
    <3>1. CASE i \in RowsOf("ended", v)
      <4>1. v \in Arms
        BY <3>1, NoArmNoRows
      <4>2. i \in DOMAIN mail
        BY <3>1 DEF RowsOf
      <4> QED
        BY <2>0, <2>1, <2>3, <3>1, <4>1, <4>2 DEF RowsInv
    <3>2. CASE kind = "ended" /\ v = w /\ i = n
      BY <1>2, <2>0, <2>1, <2>3, <3>2
    <3> QED
      BY <2>1, <3>1, <3>2
  <2> QED
    BY <2>2, <2>3 DEF RowsInv
<1>3. CASE SteerAppended
  BY <1>2, <1>3 DEF SteerAppended
<1>4. CASE ArmAppended
  BY <1>2, <1>4 DEF ArmAppended
<1>5. ASSUME NEW w \in Arms, NEW m \in Messages, ReplyAppended(w, m) PROVE RowsInv'
  BY <1>2, <1>5 DEF ReplyAppended
<1>6. ASSUME NEW w \in Arms, NEW d \in {"timeout", "failed"}, EndAppended(w, d)
      PROVE  RowsInv'
  BY <1>2, <1>6 DEF EndAppended, Decisions
<1>7. ASSUME NEW w \in Arms, NEW r \in delivered, ReplyEndAppended(w, r)
      PROVE  RowsInv'
  BY <1>2, <1>7 DEF ReplyEndAppended, Decisions
<1> QED
  BY <1>1, <1>3, <1>4, <1>5, <1>6, <1>7 DEF MailStep

(* A wait that is not settled has no end row. *)
LEMMA UnsettledNoEnd ==
    ASSUME RowsInv, NEW w \in Arms, ~Settled(w)
    PROVE  RowsOf("ended", w) = {}
<1> SUFFICES ASSUME NEW i \in RowsOf("ended", w) PROVE FALSE
  OBVIOUS
<1>1. mail[i].word \in {"timeout", "failed"} \/ mail[i].ref \in Replies(w)
  BY DEF RowsInv, Decisions
<1> QED
  BY <1>1 DEF Settled

(* One outcome per wait, after every step of the mailbox. *)
LEMMA OutcomeStep ==
    ASSUME TypeOK, RowsInv, OneOutcome, MailStep
    PROVE  OneOutcome'
<1>0. mail \in Seq(Row)
  BY DEF TypeOK
<1>1. CASE UNCHANGED mail
  BY <1>1 DEF OneOutcome, Arms, RowsOf, Replies
<1>2. ASSUME NEW kind, NEW w, NEW word, NEW ref, AppendRow(kind, w, word, ref),
             kind = "reply" => Replies(w) = {} /\ RowsOf("ended", w) = {},
             kind = "ended" => RowsOf("ended", w) = {},
             kind = "ended" => (word = "reply" <=> Replies(w) # {})
      PROVE  OneOutcome'
  <2> DEFINE n == Len(mail) + 1
  <2>1. /\ n \notin DOMAIN mail
        /\ \A i \in DOMAIN mail : mail'[i] = mail[i]
        /\ mail'[n].word = word
        /\ Arms' = Arms \cup (IF kind = "started" THEN {n} ELSE {})
        /\ \A v : Replies(v)' = Replies(v) \cup
             (IF kind = "reply" /\ v = w THEN {n} ELSE {})
        /\ \A v : RowsOf("ended", v)' = RowsOf("ended", v) \cup
             (IF kind = "ended" /\ v = w THEN {n} ELSE {})
    BY <1>0, <1>2, AppendSets
  <2> HIDE DEF n
  <2>2. \A v : \A i \in RowsOf("ended", v) : mail'[i].word = mail[i].word
    BY <2>1 DEF RowsOf
  <2>3. ASSUME NEW v \in Arms'
        PROVE  /\ \A r, s \in Replies(v)' : r = s
               /\ \A i, j \in RowsOf("ended", v)' : i = j
               /\ \A i \in RowsOf("ended", v)' :
                    mail'[i].word = "reply" <=> Replies(v)' # {}
    <3>1. /\ \A r, s \in Replies(v) : r = s
          /\ \A i, j \in RowsOf("ended", v) : i = j
          /\ \A i \in RowsOf("ended", v) : mail[i].word = "reply" <=> Replies(v) # {}
      <4>1. CASE v \in Arms
        BY <4>1 DEF OneOutcome
      <4>2. CASE v \notin Arms
        BY <4>2, NoArmNoRows
      <4> QED
        BY <4>1, <4>2
    <3>2. CASE v = w /\ kind = "reply"
      BY <1>2, <2>1, <3>1, <3>2
    <3>3. CASE v = w /\ kind = "ended"
      BY <1>2, <2>1, <2>2, <3>1, <3>3
    <3>4. CASE v # w \/ kind \notin {"reply", "ended"}
      BY <2>1, <2>2, <3>1, <3>4
    <3> QED
      BY <3>2, <3>3, <3>4
  <2> QED
    BY <2>3 DEF OneOutcome
<1>3. CASE SteerAppended
  BY <1>2, <1>3 DEF SteerAppended
<1>4. CASE ArmAppended
  BY <1>2, <1>4 DEF ArmAppended
<1>5. ASSUME NEW w \in Arms, NEW m \in Messages, ReplyAppended(w, m)
      PROVE  OneOutcome'
  BY <1>2, <1>5, UnsettledNoEnd DEF ReplyAppended
<1>6. ASSUME NEW w \in Arms, NEW d \in {"timeout", "failed"}, EndAppended(w, d)
      PROVE  OneOutcome'
  BY <1>2, <1>6, UnsettledNoEnd DEF EndAppended, EndWins
<1>7. ASSUME NEW w \in Arms, NEW r \in delivered, ReplyEndAppended(w, r)
      PROVE  OneOutcome'
  BY <1>2, <1>7, UnsettledNoEnd DEF ReplyEndAppended
<1> QED
  BY <1>1, <1>3, <1>4, <1>5, <1>6, <1>7 DEF MailStep

(* A wait that was concluded stays so. *)
LEMMA ConcludedKept ==
    ASSUME TypeOK, MailStep, delivered \subseteq delivered', NEW v, Concluded(v)
    PROVE  Concluded(v)'
<1>1. CASE GivenUp(v)
  BY <1>1, MailGrows DEF Concluded
<1>2. CASE Replies(v) \cap delivered # {}
  <2>1. Replies(v) \subseteq Replies(v)'
    BY MailGrows
  <2> QED
    BY <1>2, <2>1 DEF Concluded
<1> QED
  BY <1>1, <1>2 DEF Concluded

(* A wait that no longer stands in the way of the next one is concluded. *)
LEMMA ClosedConcluded ==
    ASSUME RowsInv, SerialInv, TypeOK, NEW seen \in SUBSET delivered, PriorClosed(seen),
           NEW v \in Arms
    PROVE  Concluded(v)
<1>1. PICK w \in LatestArm : Settled(w) \/ \E r \in seen : Replies(w) = {r}
  BY DEF PriorClosed
<1>2. w \in Arms /\ v <= w
  BY <1>1 DEF LatestArm
<1>3. CASE v = w
  <2>1. CASE \E r \in seen : Replies(w) = {r}
    BY <1>3, <2>1 DEF Concluded
  <2>2. CASE Settled(w)
    <3>1. PICK i \in RowsOf("ended", w) :
            mail[i].word \in {"timeout", "failed"} \/ mail[i].ref \in Replies(w)
      BY <2>2 DEF Settled
    <3>2. mail[i].word = "reply" => mail[i].ref \in Replies(w) \cap delivered
      BY <1>2 DEF RowsInv
    <3> QED
      BY <1>3, <3>1, <3>2 DEF Concluded, GivenUp
  <2> QED
    BY <1>1, <2>1, <2>2
<1>4. CASE v # w
  <2>1. v \in Nat /\ w \in Nat
    BY <1>2, RowsNat
  <2> QED
    BY <1>2, <1>4, <2>1 DEF SerialInv
<1> QED
  BY <1>3, <1>4

(* Waits follow one another. *)
LEMMA SerialStep ==
    ASSUME TypeOK, RowsInv, SerialInv, MailStep, delivered \subseteq delivered'
    PROVE  SerialInv'
<1>0. mail \in Seq(Row)
  BY DEF TypeOK
<1>1. CASE Arms' = Arms
  BY <1>1, ConcludedKept DEF SerialInv
<1>2. CASE ArmAppended
  <2>1. PICK k \in Kinds, seen \in SUBSET delivered :
          PriorClosed(seen) /\ AppendRow("started", 0, k, 0)
    BY <1>2 DEF ArmAppended
  <2>2. /\ Arms' = Arms \cup {Len(mail) + 1}
        /\ \A i \in DOMAIN mail : i \in Nat /\ i < Len(mail) + 1
        /\ Len(mail) + 1 \in Nat
    BY <1>0, <2>1, AppendSets
  <2>3. \A v \in Arms : Concluded(v)'
    BY <2>1, ClosedConcluded, ConcludedKept
  <2>4. \A v, w \in Arms' : v < w => v \in Arms
    BY <2>2 DEF Arms
  <2> QED
    BY <2>3, <2>4 DEF SerialInv
<1>3. CASE \E kind \in {"steer", "reply", "ended"} : \E w, word, ref :
             AppendRow(kind, w, word, ref)
  <2>0. PICK kind \in {"steer", "reply", "ended"} :
          \E w, word, ref : AppendRow(kind, w, word, ref)
    BY <1>3
  <2>1. PICK w, word, ref : AppendRow(kind, w, word, ref)
    BY <2>0
  <2>2. Arms' = Arms
    BY <1>0, <2>1, AppendSets
  <2> QED
    BY <1>1, <2>2
<1>4. CASE UNCHANGED mail
  BY <1>1, <1>4 DEF Arms
<1> QED
  BY <1>2, <1>3, <1>4 DEF MailStep, SteerAppended, ReplyAppended, EndAppended,
                          ReplyEndAppended

-----------------------------------------------------------------------------
(* The steps *)

(* Every step treats the mailbox in one of the six ways, and nothing that  *)
(* was delivered is taken back.                                            *)
LEMMA StepMail ==
    ASSUME WaitInv, [Next]_vars
    PROVE  MailStep /\ delivered \subseteq delivered'
<1> USE DEF MailStep
<1>0. TypeOK /\ WaiterInv /\ HelperInv
  BY DEF WaitInv
<1>1. CASE UNCHANGED vars
  BY <1>1 DEF vars
<1>2. ASSUME NEW p \in Waiters, WaiterStep(p) \/ Die(p)
      PROVE  MailStep /\ delivered \subseteq delivered'
  <2>1. delivered \subseteq delivered'
    BY <1>2 DEF WaiterStep, Die, Begin, InitialRead, GiveUp, SettleStalePriorWait,
       ClosePriorWait, ArmWait, PublishQuestion, FailWait, PollReply, PollDeadline,
       DeadlineResult, ReportReply, ReportReceipt, ScheduleCleanup, OutputUnchanged
  <2>2. CASE ClosePriorWait(p)
    <3>1. waiter[p].prior \in Arms /\ waiter[p].word \in {"timeout", "failed"}
      BY <1>0, <2>2, WaiterFields DEF ClosePriorWait, WaiterInv, Sound, Decisions
    <3> QED
      BY <2>1, <2>2, <3>1 DEF ClosePriorWait, EndAppended
  <2>3. CASE ArmWait(p)
    <3>1. waiter[p].ask \in Kinds /\ waiter[p].seen \in SUBSET delivered
      BY <1>0, WaiterFields DEF WaiterInv, Sound
    <3> QED
      BY <2>1, <2>3, <3>1 DEF ArmWait, ArmAppended
  <2>4. CASE FailWait(p)
    <3>1. waiter[p].arm \in Arms
      BY <1>0, <2>4 DEF FailWait, WaiterInv, Sound
    <3> QED
      BY <2>1, <2>4, <3>1 DEF FailWait, EndAppended
  <2>5. CASE DeadlineResult(p)
    <3>1. waiter[p].arm \in Arms
      BY <1>0, <2>5 DEF DeadlineResult, WaiterInv, Sound
    <3> QED
      BY <2>1, <2>5, <3>1 DEF DeadlineResult, EndAppended
  <2>6. CASE UNCHANGED mail
    BY <2>1, <2>6
  <2> QED
    BY <1>2, <2>2, <2>3, <2>4, <2>5, <2>6 DEF WaiterStep, Die, Begin, InitialRead,
       GiveUp, SettleStalePriorWait, PublishQuestion, PollReply, PollDeadline,
       ReportReply, ReportReceipt, ScheduleCleanup, MailboxUnchanged
<1>3. ASSUME NEW h \in helpers, RunHelper(h) \/ HelperEnds(h)
      PROVE  MailStep /\ delivered \subseteq delivered'
  <2>1. h.wait \in Arms /\ (h.op \in {"receipt", "end"} => h.ref \in delivered)
    BY <1>0 DEF HelperInv
  <2>2. CASE RunHelper(h)
    BY <2>1, <2>2 DEF RunHelper, OutputUnchanged, EndAppended, ReplyEndAppended
  <2>3. CASE HelperEnds(h)
    BY <2>3 DEF HelperEnds, MailboxUnchanged, OutputUnchanged
  <2> QED
    BY <1>3, <2>2, <2>3
<1>4. ASSUME ControllerStep
      PROVE  MailStep /\ delivered \subseteq delivered'
  BY <1>4 DEF ControllerStep, AdmitReply, RetryReply, RefuseReply, SendSteer,
              SteerAppended, ReplyAppended, OutputUnchanged
<1>5. ASSUME \/ \E i \in Pending(acked) : AckSteer(i)
             \/ \E w \in Arms : Expire(w)
      PROVE  MailStep /\ delivered \subseteq delivered'
  BY <1>5 DEF AckSteer, Expire, OutputUnchanged
<1> QED
  BY <1>1, <1>2, <1>3, <1>4, <1>5 DEF Next

(* Receipts, markers and deliveries stay in step. *)
LEMMA DeliveryStep ==
    ASSUME WaitInv, [Next]_vars
    PROVE  DeliveryInv'
<1>0. TypeOK /\ WaiterInv /\ HelperInv /\ DeliveryInv
  BY DEF WaitInv
<1>1. ReplyRows \subseteq ReplyRows' /\ delivered \subseteq delivered'
  BY <1>0, StepMail, MailGrows
<1>2. ASSUME delivered' = delivered, marked' = marked, receipts' = receipts
      PROVE  DeliveryInv'
  BY <1>0, <1>1, <1>2 DEF DeliveryInv
<1>3. ASSUME NEW p \in Waiters, ReportReply(p) PROVE DeliveryInv'
  <2>1. waiter[p].give \in ReplyRows
    BY <1>0, <1>3 DEF ReportReply, WaiterInv, Sound, Delivering
  <2> QED
    BY <1>0, <1>1, <1>3, <2>1 DEF ReportReply, DeliveryInv, MailboxUnchanged
<1>4. ASSUME NEW p \in Waiters, ReportReceipt(p) PROVE DeliveryInv'
  <2>1. waiter[p].give \in delivered
    BY <1>0, <1>4 DEF ReportReceipt, WaiterInv, Sound
  <2> QED
    BY <1>0, <1>1, <1>4, <2>1 DEF ReportReceipt, DeliveryInv, MailboxUnchanged
<1>5. ASSUME NEW h \in helpers, RunHelper(h) PROVE DeliveryInv'
  <2>1. h.op = "receipt" => h.ref \in delivered
    BY <1>0 DEF HelperInv
  <2>2. receipts' \subseteq delivered
    BY <1>0, <1>5, <2>1 DEF RunHelper, DeliveryInv
  <2> QED
    BY <1>0, <1>1, <1>5, <2>2 DEF RunHelper, DeliveryInv, OutputUnchanged
<1>6. CASE UNCHANGED vars
  BY <1>2, <1>6 DEF vars
<1>7. ASSUME NEW p \in Waiters, WaiterStep(p) \/ Die(p) PROVE DeliveryInv'
  BY <1>2, <1>3, <1>4, <1>7 DEF WaiterStep, Die, Begin, InitialRead, GiveUp,
     SettleStalePriorWait, ClosePriorWait, ArmWait, PublishQuestion, FailWait,
     PollReply, PollDeadline, DeadlineResult, ScheduleCleanup, OutputUnchanged,
     MailboxUnchanged
<1>8. ASSUME \/ \E h \in helpers : HelperEnds(h)
             \/ ControllerStep
             \/ \E i \in Pending(acked) : AckSteer(i)
             \/ \E w \in Arms : Expire(w)
      PROVE  DeliveryInv'
  BY <1>2, <1>8 DEF HelperEnds, ControllerStep, AdmitReply, RetryReply, RefuseReply,
     SendSteer, AckSteer, Expire, OutputUnchanged, MailboxUnchanged
<1> QED
  BY <1>5, <1>6, <1>7, <1>8 DEF Next

(* A waiter that keeps its state stays sound. *)
LEMMA SoundGrows ==
    ASSUME WaitInv, [Next]_vars, NEW u, Sound(u, Arms, ReplyRows, delivered)
    PROVE  Sound(u, Arms', ReplyRows', delivered')
<1>1. /\ Arms \subseteq Arms' /\ ReplyRows \subseteq ReplyRows'
      /\ delivered \subseteq delivered'
  BY StepMail, MailGrows DEF WaitInv
<1> QED
  BY <1>1 DEF Sound

(* Only the moving waiter has to be looked at. *)
LEMMA SoundOthers ==
    ASSUME WaitInv, [Next]_vars, NEW p \in Waiters,
           \A q \in Waiters : q # p => waiter'[q] = waiter[q],
           Sound(waiter'[p], Arms', ReplyRows', delivered')
    PROVE  WaiterInv'
<1> SUFFICES ASSUME NEW q \in Waiters
             PROVE  Sound(waiter'[q], Arms', ReplyRows', delivered')
  BY DEF WaiterInv
<1>1. CASE q = p
  BY <1>1
<1>2. CASE q # p
  <2>1. Sound(waiter[q], Arms, ReplyRows, delivered)
    BY DEF WaitInv, WaiterInv
  <2>2. Sound(waiter[q], Arms', ReplyRows', delivered')
    BY <2>1, SoundGrows
  <2> QED
    BY <1>2, <2>2
<1> QED
  BY <1>1, <1>2

(* A command that ends holds nothing. *)
LEMMA ExitSound ==
    ASSUME WaitInv, [Next]_vars, NEW p \in Waiters, Exit(p)
    PROVE  WaiterInv'
<1>1. waiter \in [Waiters -> Waiter]
  BY DEF WaitInv, TypeOK
<1>2. waiter'[p] = Idle /\ \A q \in Waiters : q # p => waiter'[q] = waiter[q]
  BY <1>1 DEF Exit
<1>3. Sound(Idle, Arms', ReplyRows', delivered')
  BY DEF Sound, Idle, Delivering
<1> QED
  BY <1>2, <1>3, SoundOthers

(* A waiter that delivers holds a reply. *)
LEMMA GiveSound ==
    ASSUME WaitInv, [Next]_vars, NEW p \in Waiters, NEW r \in ReplyRows, Give(p, r)
    PROVE  WaiterInv'
<1>1. waiter \in [Waiters -> Waiter]
  BY DEF WaitInv, TypeOK
<1>2. /\ waiter'[p] = [Idle EXCEPT !.pc = "report", !.arm = waiter[p].arm, !.give = r]
      /\ \A q \in Waiters : q # p => waiter'[q] = waiter[q]
  BY <1>1 DEF Give
<1>3. r \in ReplyRows'
  BY StepMail, MailGrows DEF WaitInv
<1>4. Sound(waiter'[p], Arms', ReplyRows', delivered')
  BY <1>2, <1>3 DEF Sound, Idle, Delivering
<1> QED
  BY <1>2, <1>4, SoundOthers

(* The point a waiter moves to asks for no more than it holds. *)
LEMMA MoveSound ==
    ASSUME WaitInv, [Next]_vars, NEW p \in Waiters, NEW to, Move(p, to),
           to # "closing",
           to \in {"publish", "unpublished", "poll", "expiring"} =>
             waiter[p].arm \in Arms,
           to \in Delivering => waiter[p].give \in ReplyRows,
           to \in {"receipt", "cleanup"} => waiter[p].give \in delivered'
    PROVE  WaiterInv'
<1>1. waiter \in [Waiters -> Waiter]
  BY DEF WaitInv, TypeOK
<1>2. /\ waiter'[p] = [waiter[p] EXCEPT !.pc = to]
      /\ \A q \in Waiters : q # p => waiter'[q] = waiter[q]
  BY <1>1 DEF Move
<1>3. waiter[p] \in Waiter /\ Sound(waiter[p], Arms, ReplyRows, delivered)
  BY <1>1 DEF WaitInv, WaiterInv
<1>4. /\ waiter'[p].pc = to /\ waiter'[p].seen = waiter[p].seen
      /\ waiter'[p].word = waiter[p].word /\ waiter'[p].arm = waiter[p].arm
      /\ waiter'[p].give = waiter[p].give
  BY <1>2, <1>3 DEF Waiter
<1>5. /\ Arms \subseteq Arms' /\ ReplyRows \subseteq ReplyRows'
      /\ delivered \subseteq delivered'
  BY StepMail, MailGrows DEF WaitInv
<1>6. Sound(waiter'[p], Arms', ReplyRows', delivered')
  BY <1>3, <1>4, <1>5 DEF Sound
<1> QED
  BY <1>2, <1>6, SoundOthers

(* The replies that the code finds are replies. *)
LEMMA FoundReplies ==
    /\ \A w : Replies(w) \subseteq ReplyRows
    /\ \A seen : Recoverable(seen) \subseteq ReplyRows
<1>1. \A w : Replies(w) \subseteq ReplyRows
  BY DEF Replies, RowsOf, ReplyRows
<1>2. \A seen : \A r \in Recoverable(seen) : \E w : r \in Replies(w)
  BY DEF Recoverable
<1> QED
  BY <1>1, <1>2

(* Waiters stay sound. *)
LEMMA WaiterSoundStep ==
    ASSUME WaitInv, [Next]_vars, NEW p \in Waiters, WaiterStep(p) \/ Die(p)
    PROVE  WaiterInv'
<1> USE ExitSound, GiveSound, FoundReplies
<1>0. TypeOK /\ WaiterInv /\ DeliveryInv /\ waiter \in [Waiters -> Waiter]
  BY DEF WaitInv, TypeOK
<1>a. /\ waiter[p] \in Waiter /\ Sound(waiter[p], Arms, ReplyRows, delivered)
      /\ Arms \subseteq Arms' /\ ReplyRows \subseteq ReplyRows'
      /\ delivered \subseteq delivered'
  BY <1>0, StepMail, MailGrows DEF WaiterInv
<1>1. ASSUME NEW ask \in Asked, Begin(p, ask) PROVE WaiterInv'
  <2>1. PICK seen \in SUBSET (receipts \cup marked) :
          waiter' = [waiter EXCEPT ![p] =
                       [Idle EXCEPT !.pc = "read", !.ask = ask,
                                    !.seen = seen, !.acks = acked]]
    BY <1>1 DEF Begin
  <2>2. seen \subseteq delivered
    BY <1>0 DEF DeliveryInv
  <2>3. /\ waiter'[p] = [Idle EXCEPT !.pc = "read", !.ask = ask,
                                     !.seen = seen, !.acks = acked]
        /\ \A q \in Waiters : q # p => waiter'[q] = waiter[q]
    BY <1>0, <2>1
  <2>4. Sound(waiter'[p], Arms', ReplyRows', delivered')
    BY <1>a, <2>2, <2>3 DEF Sound, Idle, Delivering
  <2> QED
    BY <2>3, <2>4, SoundOthers
<1>2. ASSUME InitialRead(p) PROVE WaiterInv'
  <2>1. CASE waiter' = [waiter EXCEPT ![p].pc = "settle", ![p].acks = {}]
    <3>1. /\ waiter'[p].pc = "settle" /\ waiter'[p].seen = waiter[p].seen
          /\ waiter'[p].word = waiter[p].word
          /\ \A q \in Waiters : q # p => waiter'[q] = waiter[q]
      BY <1>0, <1>a, <2>1 DEF Waiter
    <3>2. Sound(waiter'[p], Arms', ReplyRows', delivered')
      BY <1>a, <3>1 DEF Sound, Delivering
    <3> QED
      BY <3>1, <3>2, SoundOthers
  <2> QED
    BY <1>2, <2>1 DEF InitialRead
<1>3. ASSUME GiveUp(p) PROVE WaiterInv'
  BY <1>3 DEF GiveUp
<1>4. ASSUME SettleStalePriorWait(p) PROVE WaiterInv'
  <2>1. CASE Move(p, "arming")
    BY <2>1, MoveSound DEF Delivering
  <2>2. CASE \E w \in LatestArm, d \in {"timeout", "failed"} :
               waiter' = [waiter EXCEPT ![p].pc = "closing",
                                   ![p].prior = w, ![p].word = d]
    <3>1. PICK w \in LatestArm, d \in {"timeout", "failed"} :
            waiter' = [waiter EXCEPT ![p].pc = "closing",
                                ![p].prior = w, ![p].word = d]
      BY <2>2
    <3>2. /\ waiter'[p].pc = "closing" /\ waiter'[p].prior = w
          /\ waiter'[p].word = d /\ waiter'[p].seen = waiter[p].seen
          /\ \A q \in Waiters : q # p => waiter'[q] = waiter[q]
      BY <1>0, <1>a, <3>1 DEF Waiter
    <3>3. w \in Arms
      BY DEF LatestArm
    <3>4. Sound(waiter'[p], Arms', ReplyRows', delivered')
      BY <1>a, <3>2, <3>3 DEF Sound, Delivering
    <3> QED
      BY <3>2, <3>4, SoundOthers
  <2> QED
    BY <1>4, <2>1, <2>2 DEF SettleStalePriorWait
<1>5. ASSUME ClosePriorWait(p) PROVE WaiterInv'
  <2>1. CASE Reconsider(p)
    <3>1. /\ waiter'[p].pc = "arming" /\ waiter'[p].seen = waiter[p].seen
          /\ waiter'[p].word = "failed"
          /\ \A q \in Waiters : q # p => waiter'[q] = waiter[q]
      BY <1>0, <1>a, <2>1 DEF Reconsider, Waiter
    <3>2. Sound(waiter'[p], Arms', ReplyRows', delivered')
      BY <1>a, <3>1 DEF Sound, Delivering
    <3> QED
      BY <3>1, <3>2, SoundOthers
  <2> QED
    BY <1>5, <2>1 DEF ClosePriorWait
<1>6. ASSUME ArmWait(p) PROVE WaiterInv'
  <2>1. CASE AppendRow("started", 0, waiter[p].ask, 0)
             /\ waiter' = [waiter EXCEPT ![p] =
                             [Idle EXCEPT !.pc = "publish", !.arm = Len(mail) + 1]]
    <3>0. mail \in Seq(Row)
      BY <1>0 DEF TypeOK
    <3>1. Len(mail) + 1 \in Arms'
      BY <2>1, <3>0, AppendSets
    <3>2. /\ waiter'[p] = [Idle EXCEPT !.pc = "publish", !.arm = Len(mail) + 1]
          /\ \A q \in Waiters : q # p => waiter'[q] = waiter[q]
      BY <1>0, <2>1
    <3>3. Sound(waiter'[p], Arms', ReplyRows', delivered')
      BY <3>1, <3>2 DEF Sound, Idle, Delivering
    <3> QED
      BY <3>2, <3>3, SoundOthers
  <2> QED
    BY <1>6, <2>1 DEF ArmWait
<1>7. ASSUME PublishQuestion(p) PROVE WaiterInv'
  <2>1. waiter[p].arm \in Arms
    BY <1>7, <1>a DEF PublishQuestion, Sound
  <2> QED
    BY <1>7, <2>1, MoveSound DEF PublishQuestion, Delivering
<1>8. ASSUME FailWait(p) PROVE WaiterInv'
  BY <1>8 DEF FailWait
<1>9. ASSUME PollReply(p) PROVE WaiterInv'
  BY <1>9 DEF PollReply
<1>10. ASSUME PollDeadline(p) PROVE WaiterInv'
  <2>1. waiter[p].arm \in Arms
    BY <1>10, <1>a DEF PollDeadline, Sound
  <2> QED
    BY <1>10, <2>1, MoveSound DEF PollDeadline, Delivering
<1>11. ASSUME DeadlineResult(p) PROVE WaiterInv'
  BY <1>11 DEF DeadlineResult
<1>12. ASSUME ReportReply(p) PROVE WaiterInv'
  <2>1. waiter[p].give \in ReplyRows /\ waiter[p].give \in delivered'
    BY <1>12, <1>a DEF ReportReply, Sound, Delivering
  <2> QED
    BY <1>12, <2>1, MoveSound DEF ReportReply
<1>13. ASSUME ReportReceipt(p) PROVE WaiterInv'
  <2>1. waiter[p].give \in ReplyRows /\ waiter[p].give \in delivered'
    BY <1>13, <1>a DEF ReportReceipt, Sound, Delivering
  <2> QED
    BY <1>13, <2>1, MoveSound DEF ReportReceipt
<1>14. ASSUME ScheduleCleanup(p) PROVE WaiterInv'
  BY <1>14 DEF ScheduleCleanup
<1>15. ASSUME Die(p) PROVE WaiterInv'
  BY <1>15 DEF Die
<1> QED
  BY <1>1, <1>2, <1>3, <1>4, <1>5, <1>6, <1>7, <1>8, <1>9, <1>10, <1>11, <1>12,
     <1>13, <1>14, <1>15 DEF WaiterStep

(* The waiters' part of the invariant, for every step. *)
LEMMA WaiterInvStep ==
    ASSUME WaitInv, [Next]_vars
    PROVE  WaiterInv'
<1>1. ASSUME waiter' = waiter PROVE WaiterInv'
  <2>1. \A p \in Waiters : Sound(waiter[p], Arms', ReplyRows', delivered')
    BY SoundGrows DEF WaitInv, WaiterInv
  <2> QED
    BY <1>1, <2>1 DEF WaiterInv
<1>2. CASE UNCHANGED vars
  BY <1>1, <1>2 DEF vars
<1>3. ASSUME \/ \E h \in helpers : RunHelper(h) \/ HelperEnds(h)
             \/ ControllerStep
             \/ \E i \in Pending(acked) : AckSteer(i)
             \/ \E w \in Arms : Expire(w)
      PROVE  waiter' = waiter
  BY <1>3 DEF RunHelper, HelperEnds, ControllerStep, AdmitReply, RetryReply,
              RefuseReply, SendSteer, AckSteer, Expire
<1> QED
  BY <1>1, <1>2, <1>3, WaiterSoundStep DEF Next

(* A helper is given rows that exist. *)
LEMMA HelperStep ==
    ASSUME WaitInv, [Next]_vars
    PROVE  HelperInv'
<1>0. TypeOK /\ WaiterInv /\ HelperInv /\ RowsInv
  BY DEF WaitInv
<1>1. Arms \subseteq Arms' /\ delivered \subseteq delivered'
  BY <1>0, StepMail, MailGrows
<1>2. ASSUME helpers' \subseteq helpers PROVE HelperInv'
  BY <1>0, <1>1, <1>2 DEF HelperInv
<1>3. ASSUME NEW p \in Waiters, FailWait(p) \/ DeadlineResult(p) PROVE HelperInv'
  <2>1. waiter[p].arm \in Arms
    BY <1>0, <1>3 DEF FailWait, DeadlineResult, WaiterInv, Sound
  <2>2. CASE helpers' = helpers
    BY <1>2, <2>2
  <2>3. CASE \E o \in {"timeout", "failed"} :
               helpers' = helpers \cup {[op |-> o, wait |-> waiter[p].arm, ref |-> 0]}
    BY <1>0, <1>1, <2>1, <2>3 DEF HelperInv
  <2> QED
    BY <1>3, <2>2, <2>3 DEF FailWait, DeadlineResult
<1>4. ASSUME NEW p \in Waiters, ScheduleCleanup(p) PROVE HelperInv'
  <2>1. PICK ops \in SUBSET {"receipt", "end"} :
          helpers' = helpers \cup
            {[op |-> o, wait |-> mail[waiter[p].give].wait, ref |-> waiter[p].give] :
               o \in ops}
    BY <1>4 DEF ScheduleCleanup
  <2>2. waiter[p].give \in ReplyRows /\ waiter[p].give \in delivered
    BY <1>0, <1>4 DEF ScheduleCleanup, WaiterInv, Sound, Delivering
  <2>3. mail[waiter[p].give].wait \in Arms
    BY <1>0, <2>2 DEF ReplyRows, RowsInv
  <2> QED
    BY <1>0, <1>1, <2>1, <2>2, <2>3 DEF HelperInv
<1>5. CASE UNCHANGED vars
  BY <1>2, <1>5 DEF vars
<1>6. ASSUME NEW p \in Waiters, WaiterStep(p) \/ Die(p) PROVE HelperInv'
  BY <1>2, <1>3, <1>4, <1>6 DEF WaiterStep, Die, Begin, InitialRead, GiveUp,
     SettleStalePriorWait, ClosePriorWait, ArmWait, PublishQuestion, PollReply,
     PollDeadline, ReportReply, ReportReceipt
<1>7. ASSUME \/ \E h \in helpers : RunHelper(h) \/ HelperEnds(h)
             \/ ControllerStep
             \/ \E i \in Pending(acked) : AckSteer(i)
             \/ \E w \in Arms : Expire(w)
      PROVE  HelperInv'
  BY <1>2, <1>7 DEF RunHelper, HelperEnds, ControllerStep, AdmitReply, RetryReply,
                    RefuseReply, SendSteer, AckSteer, Expire
<1> QED
  BY <1>5, <1>6, <1>7 DEF Next

(* A wait without replies that is settled was given up. *)
LEMMA EndedGivenUp ==
    ASSUME NEW w, Settled(w), Replies(w) = {}
    PROVE  GivenUp(w)
<1>1. PICK i \in RowsOf("ended", w) : mail[i].word \in {"timeout", "failed"}
  BY DEF Settled
<1> QED
  BY <1>1 DEF GivenUp

(* A deadline is reported of waits that were given up. *)
LEMMA DeadlineStep ==
    ASSUME WaitInv, [Next]_vars
    PROVE  DeadlineInv'
<1>0. TypeOK /\ WaiterInv /\ DeadlineInv /\ mail \in Seq(Row)
  BY DEF WaitInv, TypeOK
<1>1. Arms \subseteq Arms' /\ \A w : GivenUp(w) => GivenUp(w)'
  BY <1>0, StepMail, MailGrows
<1>2. ASSUME deadlined' = deadlined PROVE DeadlineInv'
  BY <1>0, <1>1, <1>2 DEF DeadlineInv
<1>3. ASSUME NEW p \in Waiters, DeadlineResult(p) PROVE DeadlineInv'
  <2> DEFINE w == waiter[p].arm
  <2>1. w \in Arms
    BY <1>0, <1>3 DEF DeadlineResult, WaiterInv, Sound
  <2>2. CASE deadlined' = deadlined
    BY <1>2, <2>2
  <2>3. CASE EndedBefore(w) /\ UNCHANGED mail /\ deadlined' = deadlined \cup {w}
    <3>1. GivenUp(w)
      BY <2>3, EndedGivenUp DEF EndedBefore
    <3>2. \A v : GivenUp(v) => \E i \in RowsOf("ended", v)' : mail'[i].word # "reply"
      BY <2>3 DEF GivenUp, RowsOf
    <3> QED
      BY <1>0, <1>1, <2>1, <2>3, <3>1, <3>2 DEF DeadlineInv, GivenUp
  <2>4. CASE AppendRow("ended", w, "timeout", 0) /\ deadlined' = deadlined \cup {w}
    <3>1. /\ mail'[Len(mail) + 1].word = "timeout"
          /\ \A v : RowsOf("ended", v)' = RowsOf("ended", v) \cup
               (IF "ended" = "ended" /\ v = w THEN {Len(mail) + 1} ELSE {})
      BY <1>0, <2>4, AppendSets
    <3>2. \A v \in deadlined' : v \in deadlined \/ v = w
      BY <2>4
    <3>3. \A v : v = w => \E i \in RowsOf("ended", v)' : mail'[i].word # "reply"
      BY <3>1
    <3> QED
      BY <1>0, <1>1, <2>1, <3>2, <3>3 DEF DeadlineInv, GivenUp
  <2> QED
    BY <1>3, <2>2, <2>3, <2>4 DEF DeadlineResult
<1>4. CASE UNCHANGED vars
  BY <1>2, <1>4 DEF vars
<1>5. ASSUME NEW p \in Waiters, WaiterStep(p) \/ Die(p) PROVE DeadlineInv'
  BY <1>2, <1>3, <1>5 DEF WaiterStep, Die, Begin, InitialRead, GiveUp,
     SettleStalePriorWait, ClosePriorWait, ArmWait, PublishQuestion, FailWait,
     PollReply, PollDeadline, ReportReply, ReportReceipt, ScheduleCleanup,
     OutputUnchanged
<1>6. ASSUME \/ \E h \in helpers : RunHelper(h) \/ HelperEnds(h)
             \/ ControllerStep
             \/ \E i \in Pending(acked) : AckSteer(i)
             \/ \E w \in Arms : Expire(w)
      PROVE  DeadlineInv'
  BY <1>2, <1>6 DEF RunHelper, HelperEnds, ControllerStep, AdmitReply, RetryReply,
                    RefuseReply, SendSteer, AckSteer, Expire, OutputUnchanged
<1> QED
  BY <1>4, <1>5, <1>6 DEF Next

(* A step changes the replies to a wait only if it admits the first one,   *)
(* while the wait is open and the decision fits.                           *)
LEMMA RepliesChange ==
    ASSUME TypeOK, MailStep, NEW v
    PROVE  \/ Replies(v)' = Replies(v)
           \/ /\ Replies(v) = {} /\ ~Settled(v)
              /\ \E m \in Messages :
                   /\ Fits(v, m.word)
                   /\ \A r \in Replies(v)' : mail'[r].ref = m.id
<1>0. mail \in Seq(Row)
  BY DEF TypeOK
<1>1. CASE UNCHANGED mail
  BY <1>1 DEF Replies, RowsOf
<1>2. CASE \E kind \in {"steer", "started", "ended"} : \E w, word, ref :
             AppendRow(kind, w, word, ref)
  <2>1. PICK kind \in {"steer", "started", "ended"} : \E w, word, ref :
             AppendRow(kind, w, word, ref)
    BY <1>2
  <2>2. PICK w, word, ref : AppendRow(kind, w, word, ref)
    BY <2>1
  <2>3. kind # "reply"
    OBVIOUS
  <2>4. \A x : Replies(x)' = Replies(x) \cup
          (IF kind = "reply" /\ x = w THEN {Len(mail) + 1} ELSE {})
    BY <1>0, <2>2, AppendSets
  <2> QED
    BY <2>3, <2>4
<1>3. CASE \E w \in Arms, m \in Messages : ReplyAppended(w, m)
  <2>1. PICK w \in Arms, m \in Messages : ReplyAppended(w, m)
    BY <1>3
  <2>2. /\ mail'[Len(mail) + 1].ref = m.id
        /\ \A x : Replies(x)' = Replies(x) \cup
             (IF "reply" = "reply" /\ x = w THEN {Len(mail) + 1} ELSE {})
    BY <1>0, <2>1, AppendSets DEF ReplyAppended
  <2>3. ~Settled(w) /\ Replies(w) = {} /\ Fits(w, m.word)
    BY <2>1 DEF ReplyAppended
  <2> QED
    BY <2>2, <2>3
<1> QED
  BY <1>1, <1>2, <1>3 DEF MailStep, SteerAppended, ArmAppended, EndAppended,
                          ReplyEndAppended

(* What a controller was told stays true. *)
LEMMA ToldKept ==
    ASSUME WaitInv, [Next]_vars, NEW t \in told
    PROVE  /\ t.wait \in Arms' /\ [word |-> t.word, id |-> t.ref] \in Messages
           /\ ~t.admitted => \/ Settled(t.wait)' \/ Replies(t.wait)' # {}
                             \/ ~Fits(t.wait, t.word)'
           /\ t.admitted <=> SameMessage(t.wait, t.ref)'
<1>0. /\ TypeOK /\ ToldInv /\ ToldTruth /\ MailStep /\ t.wait \in Arms
      /\ [word |-> t.word, id |-> t.ref] \in Messages /\ mail \in Seq(Row)
  BY StepMail DEF WaitInv, ToldInv, TypeOK
<1> DEFINE w == t.wait
<1>1. /\ \A i \in DOMAIN mail : mail'[i] = mail[i]
      /\ Arms \subseteq Arms' /\ Replies(w) \subseteq Replies(w)'
      /\ Settled(w) => Settled(w)'
  BY <1>0, MailGrows
<1>2. \A word : Fits(w, word)' <=> Fits(w, word)
  BY <1>0, <1>1 DEF Fits, Arms
<1>3. \A r \in Replies(w) : mail'[r] = mail[r]
  BY <1>1 DEF Replies, RowsOf
<1>4. ~t.admitted => \/ Settled(w) \/ Replies(w) # {} \/ ~Fits(w, t.word)
  BY <1>0 DEF ToldInv
<1>5. t.admitted <=> SameMessage(w, t.ref)
  BY <1>0 DEF ToldTruth
<1>6. CASE Replies(w)' = Replies(w)
  <2>1. SameMessage(w, t.ref)' <=> SameMessage(w, t.ref)
    BY <1>3, <1>6 DEF SameMessage
  <2> QED
    BY <1>0, <1>1, <1>2, <1>4, <1>5, <1>6, <2>1
<1>7. CASE /\ Replies(w) = {} /\ ~Settled(w)
           /\ \E m \in Messages :
                Fits(w, m.word) /\ \A r \in Replies(w)' : mail'[r].ref = m.id
  <2>1. ~t.admitted
    BY <1>5, <1>7 DEF SameMessage
  <2>2. ~Fits(w, t.word)
    BY <1>4, <1>7, <2>1
  <2>3. ~SameMessage(w, t.ref)'
    <3>1. PICK m \in Messages :
            Fits(w, m.word) /\ \A r \in Replies(w)' : mail'[r].ref = m.id
      BY <1>7
    <3>2. m.id # t.ref
      <4>1. SUFFICES ASSUME m.id = t.ref PROVE FALSE
        OBVIOUS
      <4>2. m = [word |-> t.word, id |-> t.ref]
        BY <1>0, <4>1, MessagesAssumption DEF ToldInv
      <4> QED
        BY <2>2, <3>1, <4>2
    <3> QED
      BY <3>1, <3>2 DEF SameMessage
  <2> QED
    BY <1>0, <1>1, <1>2, <2>1, <2>2, <2>3
<1> QED
  BY <1>0, <1>6, <1>7, RepliesChange

(* What a controller is told is true when it hears it. *)
LEMMA ToldStep ==
    ASSUME WaitInv, [Next]_vars
    PROVE  ToldInv' /\ ToldTruth'
<1> DEFINE True(t) ==
      /\ t.wait \in Arms' /\ [word |-> t.word, id |-> t.ref] \in Messages
      /\ ~t.admitted => \/ Settled(t.wait)' \/ Replies(t.wait)' # {}
                        \/ ~Fits(t.wait, t.word)'
      /\ t.admitted <=> SameMessage(t.wait, t.ref)'
<1>0. /\ TypeOK /\ MailStep /\ mail \in Seq(Row)
  BY StepMail DEF WaitInv, TypeOK
<1>1. \A t \in told : True(t)
  BY ToldKept
<1>2. ASSUME \A t \in told' : True(t) PROVE ToldInv' /\ ToldTruth'
  BY <1>2 DEF ToldInv, ToldTruth
<1>3. ASSUME told' = told PROVE ToldInv' /\ ToldTruth'
  BY <1>1, <1>2, <1>3
<1>4. ASSUME NEW w \in Arms, NEW m \in Messages,
             \/ AdmitReply(w, m) \/ RetryReply(w, m) \/ RefuseReply(w, m)
      PROVE  ToldInv' /\ ToldTruth'
  <2>0. w \in Arms'
    BY <1>0, MailGrows
  <2>1. ASSUME NEW b \in BOOLEAN, Hear(w, m, b),
               b <=> SameMessage(w, m.id)',
               ~b => Settled(w)' \/ Replies(w)' # {} \/ ~Fits(w, m.word)'
        PROVE  ToldInv' /\ ToldTruth'
    <3> DEFINE new == [wait |-> w, word |-> m.word, ref |-> m.id, admitted |-> b]
    <3>1. \A t \in told' : t \in told \/ t = new
      BY <2>1 DEF Hear
    <3>2. /\ new.wait = w /\ new.word = m.word /\ new.ref = m.id
          /\ new.admitted = b
      OBVIOUS
    <3>3. m = [word |-> m.word, id |-> m.id]
      BY MessagesAssumption
    <3>4. True(new)
      BY <2>0, <2>1, <3>2, <3>3
    <3> QED
      BY <1>1, <1>2, <3>1, <3>4
  <2>2. CASE AdmitReply(w, m)
    <3>1. /\ mail'[Len(mail) + 1].word = m.word /\ mail'[Len(mail) + 1].ref = m.id
          /\ \A x : Replies(x)' = Replies(x) \cup
               (IF "reply" = "reply" /\ x = w THEN {Len(mail) + 1} ELSE {})
      BY <1>0, <2>2, AppendSets DEF AdmitReply
    <3>2. Replies(w) = {}
      BY <2>2 DEF AdmitReply
    <3>3. Replies(w)' = {Len(mail) + 1}
      BY <3>1, <3>2
    <3>4. SameMessage(w, m.id)'
      BY <3>1, <3>3 DEF SameMessage
    <3> QED
      BY <1>3, <2>1, <2>2, <3>4 DEF AdmitReply
  <2>3. CASE RetryReply(w, m)
    <3>1. SameMessage(w, m.id)'
      BY <2>3 DEF RetryReply, SameMessage, Replies, RowsOf
    <3> QED
      BY <2>1, <2>3, <3>1 DEF RetryReply
  <2>4. CASE RefuseReply(w, m)
    <3>1. ~SameMessage(w, m.id)'
      BY <2>4 DEF RefuseReply, SameMessage, Replies, RowsOf
    <3>2. Settled(w)' \/ Replies(w)' # {} \/ ~Fits(w, m.word)'
      BY <2>4 DEF RefuseReply, Settled, Replies, RowsOf, Fits
    <3> QED
      BY <2>1, <2>4, <3>1, <3>2 DEF RefuseReply
  <2> QED
    BY <1>4, <2>2, <2>3, <2>4
<1>5. ASSUME told' = told
             \/ \E w \in Arms, m \in Messages :
                  AdmitReply(w, m) \/ RetryReply(w, m) \/ RefuseReply(w, m)
      PROVE  ToldInv' /\ ToldTruth'
  BY <1>3, <1>4, <1>5
<1>6. ASSUME NEW p \in Waiters, WaiterStep(p) \/ Die(p) PROVE told' = told
  BY <1>6 DEF WaiterStep, Die, Begin, InitialRead, GiveUp, SettleStalePriorWait,
     ClosePriorWait, ArmWait, PublishQuestion, FailWait, PollReply, PollDeadline,
     DeadlineResult, ReportReply, ReportReceipt, ScheduleCleanup, MailboxUnchanged
<1>7. ASSUME \/ \E h \in helpers : RunHelper(h) \/ HelperEnds(h)
             \/ SendSteer
             \/ \E i \in Pending(acked) : AckSteer(i)
             \/ \E w \in Arms : Expire(w)
      PROVE  told' = told
  BY <1>7 DEF RunHelper, HelperEnds, SendSteer, AckSteer, Expire, MailboxUnchanged
<1>8. CASE UNCHANGED vars
  BY <1>5, <1>8 DEF vars
<1> QED
  BY <1>5, <1>6, <1>7, <1>8 DEF Next, ControllerStep

-----------------------------------------------------------------------------
(* The invariant and the theorems *)

(* The invariant holds initially. *)
LEMMA WaitInvInit == Init => WaitInv
<1> SUFFICES ASSUME Init PROVE WaitInv
  OBVIOUS
<1>1. TypeOK
  BY TypeInit
<1>2. DOMAIN mail = {}
  BY DEF Init
<1>3. Arms = {} /\ \A w : Replies(w) = {}
  BY <1>2 DEF Arms, Replies, RowsOf
<1>4. \A p \in Waiters : Sound(waiter[p], Arms, ReplyRows, delivered)
  BY DEF Init, Sound, Idle, Delivering
<1>5. RowsInv /\ OneOutcome /\ DeliveryInv /\ HelperInv /\ SerialInv
      /\ DeadlineInv /\ ToldInv /\ ToldTruth
  BY <1>2, <1>3 DEF Init, RowsInv, OneOutcome, DeliveryInv, HelperInv, SerialInv,
                    DeadlineInv, ToldInv, ToldTruth
<1> QED
  BY <1>1, <1>4, <1>5 DEF WaitInv, WaiterInv

(* Every step preserves it. *)
LEMMA WaitInvStep == WaitInv /\ [Next]_vars => WaitInv'
<1> SUFFICES ASSUME WaitInv, [Next]_vars PROVE WaitInv'
  OBVIOUS
<1>1. MailStep /\ delivered \subseteq delivered'
  BY StepMail
<1>2. TypeOK'
  BY TypeStep DEF WaitInv
<1>3. RowsInv' /\ OneOutcome' /\ SerialInv'
  BY <1>1, RowsStep, OutcomeStep, SerialStep DEF WaitInv
<1>4. DeliveryInv' /\ WaiterInv' /\ HelperInv' /\ DeadlineInv'
  BY DeliveryStep, WaiterInvStep, HelperStep, DeadlineStep
<1>5. ToldInv' /\ ToldTruth'
  BY ToldStep
<1> QED
  BY <1>2, <1>3, <1>4, <1>5 DEF WaitInv

(* The invariant holds in every reachable state. *)
LEMMA WaitInvariant == Spec => []WaitInv
  BY WaitInvInit, WaitInvStep, PTL DEF Spec

(* The mailbox, the waiters and the helpers have their types in every      *)
(* reachable state.                                                        *)
THEOREM WaitTypeCorrect == Spec => []TypeOK
<1>1. WaitInv => TypeOK
  BY DEF WaitInv
<1> QED
  BY <1>1, WaitInvariant, PTL

(* However many waiters, repliers and helpers race for the mailbox, a wait *)
(* has one outcome (append_worker_wait_reply, append_worker_wait_ended).   *)
THEOREM OneOutcomeHolds == Spec => []OneOutcome
<1>1. WaitInv => OneOutcome
  BY DEF WaitInv
<1> QED
  BY <1>1, WaitInvariant, PTL

(* Admitted stays admitted and refused stays refused, through any number   *)
(* of retries of any message (append_worker_wait_reply).                   *)
THEOREM ToldTruthHolds == Spec => []ToldTruth
<1>1. WaitInv => ToldTruth
  BY DEF WaitInv
<1> QED
  BY <1>1, WaitInvariant, PTL

(* A deadline reported as settled is never overtaken by a reply            *)
(* (deadline_result).                                                      *)
THEOREM DeadlineIsFinalHolds == Spec => []DeadlineIsFinal
<1>1. WaitInv => DeadlineIsFinal
  <2> SUFFICES ASSUME WaitInv, NEW w \in deadlined
               PROVE  Replies(w) = {} /\ \A r \in delivered : mail[r].wait # w
    BY DEF DeadlineIsFinal
  <2>1. w \in Arms /\ GivenUp(w)
    BY DEF WaitInv, DeadlineInv
  <2>2. Replies(w) = {}
    BY <2>1 DEF WaitInv, OneOutcome, GivenUp
  <2>3. ASSUME NEW r \in delivered, mail[r].wait = w PROVE FALSE
    <3>1. r \in Replies(w)
      BY <2>3 DEF WaitInv, DeliveryInv, ReplyRows, Replies, RowsOf
    <3> QED
      BY <2>2, <3>1
  <2> QED
    BY <2>2, <2>3
<1> QED
  BY <1>1, WaitInvariant, PTL

-----------------------------------------------------------------------------
(* Refinement *)

(* The state of Questions that a state of SteerWait stands for. *)
Answered == {w \in Arms : Replies(w) # {}}
Received == {w \in Arms : Replies(w) \cap delivered # {}}
Abandoned == {w \in Arms : GivenUp(w)}

(* A delivery leaves the mailbox alone and is of one reply. *)
LEMMA DeliverOne ==
    ASSUME WaitInv, [Next]_vars
    PROVE  \/ delivered' = delivered
           \/ mail' = mail /\ \E r \in ReplyRows : delivered' = delivered \cup {r}
<1>1. ASSUME NEW p \in Waiters, ReportReply(p)
      PROVE  mail' = mail /\ \E r \in ReplyRows : delivered' = delivered \cup {r}
  <2>1. waiter[p].give \in ReplyRows
    BY <1>1 DEF WaitInv, ReportReply, WaiterInv, Sound, Delivering
  <2> QED
    BY <1>1, <2>1 DEF ReportReply, MailboxUnchanged
<1>2. CASE UNCHANGED vars
  BY <1>2 DEF vars
<1>3. ASSUME NEW p \in Waiters, WaiterStep(p) \/ Die(p), ~ReportReply(p)
      PROVE  delivered' = delivered
  BY <1>3 DEF WaiterStep, Die, Begin, InitialRead, GiveUp, SettleStalePriorWait,
     ClosePriorWait, ArmWait, PublishQuestion, FailWait, PollReply, PollDeadline,
     DeadlineResult, ReportReceipt, ScheduleCleanup, OutputUnchanged
<1>4. ASSUME \/ \E h \in helpers : RunHelper(h) \/ HelperEnds(h)
             \/ ControllerStep
             \/ \E i \in Pending(acked) : AckSteer(i)
             \/ \E w \in Arms : Expire(w)
      PROVE  delivered' = delivered
  BY <1>4 DEF RunHelper, HelperEnds, ControllerStep, AdmitReply, RetryReply,
              RefuseReply, SendSteer, AckSteer, Expire, OutputUnchanged
<1> QED
  BY <1>1, <1>2, <1>3, <1>4 DEF Next

(* An append to a wait, seen by Questions. *)
LEMMA AppendSeen ==
    ASSUME WaitInv, delivered' = delivered, NEW kind, NEW w, NEW word, NEW ref,
           AppendRow(kind, w, word, ref)
    PROVE  /\ Arms' = Arms \cup (IF kind = "started" THEN {Len(mail) + 1} ELSE {})
           /\ Len(mail) + 1 \notin Arms
           /\ w \in Arms => Answered' = Answered \cup (IF kind = "reply" THEN {w} ELSE {})
           /\ w \in Arms => Abandoned' = Abandoned \cup
                (IF kind = "ended" /\ word # "reply" THEN {w} ELSE {})
           /\ kind \notin {"reply", "ended"} =>
                Answered' = Answered /\ Abandoned' = Abandoned
           /\ Received' = Received
<1> DEFINE n == Len(mail) + 1
<1>0. TypeOK /\ RowsInv /\ DeliveryInv /\ mail \in Seq(Row)
  BY DEF WaitInv, TypeOK
<1>1. /\ n \notin DOMAIN mail
      /\ \A i \in DOMAIN mail : mail'[i] = mail[i]
      /\ mail'[n].word = word
      /\ Arms' = Arms \cup (IF kind = "started" THEN {n} ELSE {})
      /\ \A v : Replies(v)' = Replies(v) \cup
           (IF kind = "reply" /\ v = w THEN {n} ELSE {})
      /\ \A v : RowsOf("ended", v)' = RowsOf("ended", v) \cup
           (IF kind = "ended" /\ v = w THEN {n} ELSE {})
  BY <1>0, AppendSets
<1> HIDE DEF n
<1>2. n \notin Arms /\ n \notin delivered
  BY <1>0, <1>1 DEF Arms, DeliveryInv, ReplyRows
<1>3. \A v : \A i \in RowsOf("ended", v) : mail'[i].word = mail[i].word
  BY <1>1 DEF RowsOf
<1>4. \A v : v \notin Arms => Replies(v) = {} /\ RowsOf("ended", v) = {}
  BY <1>0, NoArmNoRows
<1>5. \A v : GivenUp(v)' <=> GivenUp(v) \/ (kind = "ended" /\ v = w /\ word # "reply")
  <2>1. \A v : GivenUp(v)' <=> \E i \in RowsOf("ended", v)' : mail'[i].word # "reply"
    BY DEF GivenUp
  <2> QED
    BY <1>1, <1>3, <2>1 DEF GivenUp
<1>6. \A v : (Replies(v) \cap delivered)' = Replies(v) \cap delivered
  BY <1>1, <1>2
<1>7. \A v : v \notin Arms => Replies(v) \cap delivered = {} /\ ~GivenUp(v)
  BY <1>4 DEF GivenUp
<1>8. Received' = Received
  BY <1>1, <1>6, <1>7 DEF Received
<1>9. kind \in {"reply", "ended"} => Arms' = Arms
  BY <1>1
<1>10. kind \notin {"reply", "ended"} => Answered' = Answered
  BY <1>1, <1>4 DEF Answered
<1>11. kind \notin {"reply", "ended"} => Abandoned' = Abandoned
  BY <1>1, <1>5, <1>7 DEF Abandoned
<1>12. w \in Arms => Answered' = Answered \cup (IF kind = "reply" THEN {w} ELSE {})
  BY <1>1, <1>4, <1>9 DEF Answered
<1>13. w \in Arms => Abandoned' = Abandoned \cup
         (IF kind = "ended" /\ word # "reply" THEN {w} ELSE {})
  BY <1>1, <1>5, <1>7 DEF Abandoned
<1> QED
  BY <1>1, <1>2, <1>8, <1>10, <1>11, <1>12, <1>13 DEF n

(* The mapped state changes as Questions allows. *)
LEMMA QuestionsStep ==
    ASSUME WaitInv, [Next]_vars
    PROVE  \/ UNCHANGED <<Arms, Answered, Received, Abandoned>>
           \/ /\ Arms \subseteq Received \cup Abandoned
              /\ \E q \in Arms' \ Arms : Arms' = Arms \cup {q}
              /\ UNCHANGED <<Answered, Received, Abandoned>>
           \/ /\ \E q \in Arms \ (Answered \cup Abandoned) :
                   Answered' = Answered \cup {q}
              /\ UNCHANGED <<Arms, Received, Abandoned>>
           \/ /\ \E q \in Answered \ Received : Received' = Received \cup {q}
              /\ UNCHANGED <<Arms, Answered, Abandoned>>
           \/ /\ \E q \in Arms \ (Answered \cup Abandoned) :
                   Abandoned' = Abandoned \cup {q}
              /\ UNCHANGED <<Arms, Answered, Received>>
<1>0. TypeOK /\ RowsInv /\ OneOutcome /\ SerialInv /\ MailStep
  BY StepMail DEF WaitInv
<1>a. \A w \in Arms : ~Settled(w) => ~GivenUp(w)
  BY <1>0, UnsettledNoEnd DEF GivenUp
<1>1. CASE mail' = mail /\ delivered' = delivered
  BY <1>1 DEF Arms, Answered, Received, Abandoned, Replies, RowsOf, GivenUp
<1>2. CASE mail' = mail /\ \E r \in ReplyRows : delivered' = delivered \cup {r}
  <2>1. PICK r \in ReplyRows : delivered' = delivered \cup {r}
    BY <1>2
  <2> DEFINE w == mail[r].wait
  <2>2. w \in Arms /\ r \in Replies(w) /\ \A v : r \in Replies(v) => v = w
    BY <1>0 DEF RowsInv, ReplyRows, Replies, RowsOf
  <2>3. UNCHANGED <<Arms, Answered, Abandoned>> /\ \A v : Replies(v)' = Replies(v)
    BY <1>2 DEF Arms, Answered, Abandoned, Replies, RowsOf, GivenUp
  <2> HIDE DEF w
  <2>4. Received' = Received \cup {w}
    BY <2>1, <2>2, <2>3 DEF Received
  <2>5. w \in Answered
    BY <2>2 DEF Answered
  <2>6. CASE w \in Received
    BY <2>3, <2>4, <2>6
  <2>7. CASE w \notin Received
    BY <2>3, <2>4, <2>5, <2>7
  <2> QED
    BY <2>6, <2>7
<1>3. CASE delivered' = delivered /\ SteerAppended
  <2>1. Arms' = Arms \cup (IF "steer" = "started" THEN {Len(mail) + 1} ELSE {})
        /\ Answered' = Answered /\ Abandoned' = Abandoned /\ Received' = Received
    BY <1>3, AppendSeen DEF SteerAppended
  <2> QED
    BY <2>1
<1>4. CASE delivered' = delivered /\ ArmAppended
  <2>1. PICK k \in Kinds, seen \in SUBSET delivered :
          PriorClosed(seen) /\ AppendRow("started", 0, k, 0)
    BY <1>4 DEF ArmAppended
  <2>2. /\ Arms' = Arms \cup (IF "started" = "started" THEN {Len(mail) + 1} ELSE {})
        /\ Len(mail) + 1 \notin Arms
        /\ Answered' = Answered /\ Abandoned' = Abandoned /\ Received' = Received
    BY <1>4, <2>1, AppendSeen
  <2>3. \A v \in Arms : Concluded(v)
    BY <1>0, <2>1, ClosedConcluded
  <2>4. Arms \subseteq Received \cup Abandoned
    BY <2>3 DEF Concluded, Received, Abandoned
  <2> QED
    BY <2>2, <2>4
<1>5. ASSUME delivered' = delivered, NEW w \in Arms, NEW m \in Messages,
             ReplyAppended(w, m)
      PROVE  /\ w \in Arms \ (Answered \cup Abandoned)
             /\ Answered' = Answered \cup {w}
             /\ UNCHANGED <<Arms, Received, Abandoned>>
  <2>1. /\ Arms' = Arms \cup (IF "reply" = "started" THEN {Len(mail) + 1} ELSE {})
        /\ Answered' = Answered \cup (IF "reply" = "reply" THEN {w} ELSE {})
        /\ Abandoned' = Abandoned \cup
             (IF "reply" = "ended" /\ m.word # "reply" THEN {w} ELSE {})
        /\ Received' = Received
    BY <1>5, AppendSeen DEF ReplyAppended
  <2>2. w \notin Answered /\ w \notin Abandoned
    BY <1>a, <1>5 DEF ReplyAppended, Answered, Abandoned
  <2> QED
    BY <2>1, <2>2
<1>6. ASSUME delivered' = delivered, NEW w \in Arms, NEW d \in {"timeout", "failed"},
             EndAppended(w, d)
      PROVE  /\ w \in Arms \ (Answered \cup Abandoned)
             /\ Abandoned' = Abandoned \cup {w}
             /\ UNCHANGED <<Arms, Answered, Received>>
  <2>1. /\ Arms' = Arms \cup (IF "ended" = "started" THEN {Len(mail) + 1} ELSE {})
        /\ Answered' = Answered \cup (IF "ended" = "reply" THEN {w} ELSE {})
        /\ Abandoned' = Abandoned \cup
             (IF "ended" = "ended" /\ d # "reply" THEN {w} ELSE {})
        /\ Received' = Received
    BY <1>6, AppendSeen DEF EndAppended
  <2>2. w \notin Answered /\ w \notin Abandoned
    BY <1>a, <1>6 DEF EndAppended, EndWins, Answered, Abandoned
  <2> QED
    BY <2>1, <2>2
<1>7. ASSUME delivered' = delivered, NEW w \in Arms, NEW r \in delivered,
             ReplyEndAppended(w, r)
      PROVE  UNCHANGED <<Arms, Answered, Received, Abandoned>>
  <2>1. /\ Arms' = Arms \cup (IF "ended" = "started" THEN {Len(mail) + 1} ELSE {})
        /\ Answered' = Answered \cup (IF "ended" = "reply" THEN {w} ELSE {})
        /\ Abandoned' = Abandoned \cup
             (IF "ended" = "ended" /\ "reply" # "reply" THEN {w} ELSE {})
        /\ Received' = Received
    BY <1>7, AppendSeen DEF ReplyEndAppended
  <2> QED
    BY <2>1
<1>8. \/ delivered' = delivered
      \/ mail' = mail /\ \E r \in ReplyRows : delivered' = delivered \cup {r}
  BY DeliverOne
<1>9. CASE delivered' = delivered /\ \E w \in Arms, m \in Messages : ReplyAppended(w, m)
  BY <1>5, <1>9
<1>10. CASE delivered' = delivered
            /\ \E w \in Arms, d \in {"timeout", "failed"} : EndAppended(w, d)
  BY <1>6, <1>10
<1>11. CASE delivered' = delivered
            /\ \E w \in Arms, r \in delivered : ReplyEndAppended(w, r)
  BY <1>7, <1>11
<1> QED
  BY <1>0, <1>1, <1>2, <1>3, <1>4, <1>8, <1>9, <1>10, <1>11 DEF MailStep

(* The mailbox protocol implements Questions: one question at a time,      *)
(* answered once or given up, and an admitted answer is given to the       *)
(* worker before the worker can ask again.                                 *)
THEOREM QuestionsRefined == Spec => QuestionsKept
<1>1. Init => Asks!Init
  <2> SUFFICES ASSUME Init PROVE Asks!Init
    OBVIOUS
  <2>1. Arms = {}
    BY DEF Init, Arms
  <2> QED
    BY <2>1 DEF Asks!Init
<1>2. WaitInv /\ [Next]_vars => [Asks!Next]_(Asks!qvars)
  <2> SUFFICES ASSUME WaitInv, [Next]_vars PROVE [Asks!Next]_(Asks!qvars)
    OBVIOUS
  <2> QED
    BY QuestionsStep DEF Asks!Next, Asks!Ask, Asks!Answer, Asks!Receive, Asks!GiveUp,
       Asks!Open, Asks!qvars, Answered, Received, Abandoned, GivenUp
<1> QED
  BY <1>1, <1>2, WaitInvariant, PTL DEF Spec, QuestionsKept, Asks!Spec
=============================================================================
