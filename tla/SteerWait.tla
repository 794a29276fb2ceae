----------------------------- MODULE SteerWait -----------------------------
(***************************************************************************)
(* A worker asks its controller and waits for the answer: "steer --wait",  *)
(* the typed replies to it and the detached helpers that record what was   *)
(* consumed (scripts/goalflight_steer_mailbox.py).                         *)
(*                                                                         *)
(* The mailbox of one dispatch is an append-only file whose rows are       *)
(* numbered by their seq; every read and every append holds its lock, so   *)
(* each is one action here, and the interleavings are those between        *)
(* transactions.  A wait is named by the seq of the row that armed it      *)
(* (the code's wait id is a fresh uuid in that row).                       *)
(***************************************************************************)
EXTENDS Naturals, Sequences, FiniteSets

CONSTANTS
    Waiters,     \* "steer --wait" commands that may run at the same time
    Asked,       \* the kinds of question the worker asks
    Messages,    \* the messages the controller sends in reply
    MaxWaits,    \* bound on the number of arms
    MaxSteers,   \* bound on the number of untyped steer messages
    Faults       \* the faults that are switched on

(* "need" is USER-NEED, "confirm" is USER-CONFIRM.  A reply is "decided"   *)
(* when it carries decision=yes or decision=no, "open" when it has none.   *)
(* The id of a message is its envelope's id.                               *)
Kinds == {"need", "confirm"}
Words == {"open", "decided"}
Decisions == {"reply", "timeout", "failed"}

(* "crash": a waiting command is killed or fails.  "blind": a waiter's     *)
(* identity cannot be read, or a receipt file.  "retry": the controller    *)
(* repeats itself and what it hears is kept.                               *)
ASSUME BoundsAssumption == MaxWaits \in Nat /\ MaxSteers \in Nat
ASSUME AskedAssumption == Asked \subseteq Kinds
ASSUME MessagesAssumption ==
    /\ Messages \subseteq [word : Words, id : Nat]
    /\ \A m, n \in Messages : m.id = n.id => m = n
ASSUME WaitFaultsAssumption == Faults \subseteq {"crash", "blind", "retry"}

VARIABLES
    mail,       \* the rows of <dispatch>.steer.jsonl
    receipts,   \* replies recorded in <dispatch>.steer.receipts.jsonl
    expired,    \* waits whose deadline_awake_mono_ns has passed
    waiter,     \* the state of each "steer --wait" command
    helpers,    \* detached cleanup helpers that have not finished
    delivered,  \* replies printed to the worker (STEER-MESSAGE)
    marked,     \* replies whose STEER-REPLY line was printed after that
    acked,      \* untyped steers the worker has acknowledged
    deadlined,  \* waits reported to the worker as ended by their deadline
    told        \* what the controller was told of its messages

vars == <<mail, receipts, expired, waiter, helpers, delivered, marked, acked,
          deadlined, told>>

(* wait: the arm a reply or an end row refers to.  word: the question kind *)
(* of an arm, the decision of a reply or of an end row.  ref: the message  *)
(* id of a reply, the reply_seq of an end row with decision "reply".       *)
Row == [kind : {"started", "reply", "ended", "steer"}, wait : Nat,
        word : Kinds \cup Words \cup Decisions \cup {"none"}, ref : Nat]

Points == {"idle", "read", "settle", "closing", "arming", "publish",
           "unpublished", "poll", "expiring", "report", "receipt", "cleanup"}

(* ask: --question-kind.  seen, acks: consumed_reply_receipts and          *)
(* acked_seqs, read before the wait begins.  arm: the waiter's own arm, 0  *)
(* before it has one.  prior, word: the arm it is about to settle and how. *)
(* give: the reply it is about to deliver.                                 *)
Waiter == [pc : Points, ask : Kinds, seen : SUBSET Nat, acks : SUBSET Nat,
           arm : Nat, prior : Nat, word : Decisions, give : Nat]

Idle == [pc |-> "idle", ask |-> "need", seen |-> {}, acks |-> {}, arm |-> 0,
         prior |-> 0, word |-> "failed", give |-> 0]

Helper == [op : {"receipt", "end", "timeout", "failed"}, wait : Nat, ref : Nat]
Told == [wait : Nat, word : Words, ref : Nat, admitted : BOOLEAN]

-----------------------------------------------------------------------------
(* Reading the mailbox *)

RowsOf(kind, w) ==
    {i \in DOMAIN mail : mail[i].kind = kind /\ mail[i].wait = w}

Arms == {i \in DOMAIN mail : mail[i].kind = "started"}
Steers == {i \in DOMAIN mail : mail[i].kind = "steer"}

(* _worker_wait_replies *)
Replies(w) == RowsOf("reply", w)

(* _latest_worker_wait_arm: the newest arm, if there is one. *)
LatestArm == {w \in Arms : \A v \in Arms : v <= w}

(* _worker_wait_settlement: an end row settles its wait; one that says     *)
(* "reply" only if the reply it names is there.                            *)
Settled(w) ==
    \E i \in RowsOf("ended", w) :
        mail[i].word \in {"timeout", "failed"} \/ mail[i].ref \in Replies(w)

(* The decision fits the question: USER-CONFIRM needs an explicit one. *)
Fits(w, word) == mail[w].word = "confirm" => word = "decided"

(* _recoverable_worker_wait_reply: the one reply to the newest wait, if    *)
(* neither the mailbox nor a receipt in seen says that it was consumed.    *)
Recoverable(seen) ==
    {r \in DOMAIN mail :
        \E w \in LatestArm :
            /\ ~Settled(w) /\ Replies(w) = {r}
            /\ r \notin seen /\ Fits(w, mail[r].word)}

(* Mutant: a wait past its deadline no longer stands in the way. *)
PriorExpired(seen) ==
    \/ Arms = {}
    \/ \E w \in LatestArm :
          \/ Settled(w) \/ w \in expired
          \/ \E r \in seen : Replies(w) = {r}

(* reject_unsettled_prior_wait: the prior wait no longer stands in the way *)
(* because it is settled or its only reply has a receipt.                  *)
PriorClosed(seen) ==
    \/ Arms = {}
    \/ \E w \in LatestArm :
          Settled(w) \/ \E r \in seen : Replies(w) = {r}

(* pending_worker_entries: untyped controller messages not acknowledged. *)
Pending(acks) == Steers \ acks

(* The process that armed wait w still runs. *)
WaiterAlive(w) == \E p \in Waiters : waiter[p].arm = w

(* process_identity_matches on the waiter recorded in an arm. *)
WaiterMatches(w) ==
    {IF WaiterAlive(w) THEN "true" ELSE "false"}
      \cup (IF "blind" \in Faults THEN {"unknown"} ELSE {})

-----------------------------------------------------------------------------
(* Writing the mailbox *)

(* append_steer_entry *)
AppendRow(kind, w, word, ref) ==
    mail' = Append(mail, [kind |-> kind, wait |-> w, word |-> word, ref |-> ref])

(* Mutant: an end row is written over a reply. *)
EndWinsOverReply(w) == ~Settled(w)

(* append_worker_wait_ended for "timeout" and "failed": the validation     *)
(* under the lock has three outcomes.  A reply that won the race is raised *)
(* as WorkerWaitReplyPending.                                              *)
EndWins(w) == Replies(w) = {} /\ ~Settled(w)

ReplyWins(w, r) == r \in Replies(w) /\ \A s \in Replies(w) : r <= s

EndedBefore(w) == Replies(w) = {} /\ Settled(w)

Init ==
    /\ mail = <<>>
    /\ receipts = {} /\ expired = {} /\ helpers = {}
    /\ waiter = [p \in Waiters |-> Idle]
    /\ delivered = {} /\ marked = {} /\ acked = {}
    /\ deadlined = {} /\ told = {}

-----------------------------------------------------------------------------
(* The waiting command *)

MailboxUnchanged == UNCHANGED <<mail, receipts, expired, acked, told>>
OutputUnchanged == UNCHANGED <<delivered, marked, deadlined>>

Move(p, to) == waiter' = [waiter EXCEPT ![p].pc = to]
Exit(p) == waiter' = [waiter EXCEPT ![p] = Idle]

(* deliver_reply begins; the report itself is the next step.  What a       *)
(* waiter does not read again is forgotten, here and when it arms.         *)
Give(p, r) ==
    waiter' = [waiter EXCEPT ![p] =
                 [Idle EXCEPT !.pc = "report", !.arm = waiter[p].arm, !.give = r]]

Reconsider(p) ==
    waiter' = [waiter EXCEPT ![p].pc = "arming", ![p].prior = 0,
                             ![p].word = "failed"]

(* _cmd_steer reads the receipts: the sidecar and those STEER-REPLY        *)
(* markers that status.json and the tail still show.  An unreadable file   *)
(* counts as empty.                                                        *)
Begin(p, ask) ==
    /\ waiter[p].pc = "idle"
    /\ \E seen \in SUBSET (receipts \cup marked) :
         /\ "blind" \in Faults \/ receipts \subseteq seen
         /\ waiter' = [waiter EXCEPT ![p] =
                         [Idle EXCEPT !.pc = "read", !.ask = ask,
                                      !.seen = seen, !.acks = acked]]
    /\ MailboxUnchanged /\ OutputUnchanged /\ UNCHANGED helpers

(* wait_for_worker_entries, the first read: an unproven reply is delivered *)
(* again, a backlog is reported and answers an open need.                  *)
InitialRead(p) ==
    /\ waiter[p].pc = "read"
    /\ \/ \E r \in Recoverable(waiter[p].seen) : Give(p, r)
       \/ /\ Recoverable(waiter[p].seen) = {}
          /\ IF Pending(waiter[p].acks) # {} /\ waiter[p].ask = "need" THEN Exit(p)
             ELSE waiter' = [waiter EXCEPT ![p].pc = "settle", ![p].acks = {}]
    /\ MailboxUnchanged /\ OutputUnchanged /\ UNCHANGED helpers

(* The deadline, or the lock, is reached before the wait is armed. *)
GiveUp(p) ==
    /\ waiter[p].pc \in {"read", "settle", "closing", "arming"}
    /\ Exit(p)
    /\ MailboxUnchanged /\ OutputUnchanged /\ UNCHANGED helpers

(* Mutant: only a waiter that is provably gone is closed, whatever the time. *)
SettleDeadWaiterOnly(p) ==
    /\ waiter[p].pc = "settle"
    /\ \/ /\ Arms = {} \/ \E w \in LatestArm : Settled(w)
          /\ Move(p, "arming")
       \/ \E w \in LatestArm :
             /\ ~Settled(w)
             /\ \/ /\ "false" \in WaiterMatches(w)
                   /\ waiter' = [waiter EXCEPT ![p].pc = "closing",
                                   ![p].prior = w, ![p].word = "failed"]
                \/ /\ WaiterMatches(w) \cap {"true", "unknown"} # {}
                   /\ Move(p, "arming")
    /\ MailboxUnchanged /\ OutputUnchanged /\ UNCHANGED helpers

(* settle_stale_prior_wait, the read: a prior wait that is past its        *)
(* deadline, or whose waiter is provably gone, is to be closed.            *)
SettleStalePriorWait(p) ==
    /\ waiter[p].pc = "settle"
    /\ \/ /\ Arms = {} \/ \E w \in LatestArm : Settled(w)
          /\ Move(p, "arming")
       \/ \E w \in LatestArm :
             /\ ~Settled(w)
             /\ \/ /\ w \in expired
                   /\ waiter' = [waiter EXCEPT ![p].pc = "closing",
                                   ![p].prior = w, ![p].word = "timeout"]
                \/ /\ w \notin expired /\ "false" \in WaiterMatches(w)
                   /\ waiter' = [waiter EXCEPT ![p].pc = "closing",
                                   ![p].prior = w, ![p].word = "failed"]
                \/ /\ w \notin expired
                   /\ WaiterMatches(w) \cap {"true", "unknown"} # {}
                   /\ Move(p, "arming")
    /\ MailboxUnchanged /\ OutputUnchanged /\ UNCHANGED helpers

(* settle_stale_prior_wait, the append. *)
ClosePriorWait(p) ==
    /\ waiter[p].pc = "closing"
    /\ LET w == waiter[p].prior IN
         \/ EndWins(w) /\ AppendRow("ended", w, waiter[p].word, 0) /\ Reconsider(p)
         \/ EndedBefore(w) /\ Reconsider(p) /\ UNCHANGED mail
         \/ (\E r \in Replies(w) : ReplyWins(w, r) /\ Give(p, r)) /\ UNCHANGED mail
    /\ OutputUnchanged /\ UNCHANGED <<receipts, expired, acked, told, helpers>>

(* append_worker_wait_started under the lock: arm, or deliver the reply    *)
(* that landed since the first read, or refuse.                            *)
ArmWait(p) ==
    /\ waiter[p].pc = "arming"
    /\ \/ /\ PriorClosed(waiter[p].seen) /\ Cardinality(Arms) < MaxWaits
          /\ AppendRow("started", 0, waiter[p].ask, 0)
          /\ waiter' = [waiter EXCEPT ![p] =
                          [Idle EXCEPT !.pc = "publish", !.arm = Len(mail) + 1]]
       \/ /\ ~PriorClosed(waiter[p].seen)
          /\ \E r \in Recoverable(waiter[p].seen) : Give(p, r)
          /\ UNCHANGED mail
       \/ /\ ~PriorClosed(waiter[p].seen) /\ Recoverable(waiter[p].seen) = {}
          /\ Exit(p) /\ UNCHANGED mail
    /\ OutputUnchanged /\ UNCHANGED <<receipts, expired, acked, told, helpers>>

(* publish_question and the "armed" report. *)
PublishQuestion(p) ==
    /\ waiter[p].pc = "publish"
    /\ \/ Move(p, "poll")
       \/ Move(p, "unpublished")
    /\ MailboxUnchanged /\ OutputUnchanged /\ UNCHANGED helpers

(* The publication failed: the wait is closed as failed, here or, when the *)
(* lock cannot be had in time, by a helper that may fail to start.  Every  *)
(* outcome ends the command with an error.                                 *)
FailWait(p) ==
    /\ waiter[p].pc = "unpublished"
    /\ LET w == waiter[p].arm IN
         \/ EndWins(w) /\ AppendRow("ended", w, "failed", 0) /\ UNCHANGED helpers
         \/ ~EndWins(w) /\ UNCHANGED <<mail, helpers>>
         \/ /\ helpers' = helpers \cup {[op |-> "failed", wait |-> w, ref |-> 0]}
            /\ UNCHANGED mail
    /\ Exit(p)
    /\ OutputUnchanged /\ UNCHANGED <<receipts, expired, acked, told>>

(* The poll loop finds the reply; two replies are an error. *)
PollReply(p) ==
    /\ waiter[p].pc = "poll"
    /\ \E r \in Replies(waiter[p].arm) :
         IF Replies(waiter[p].arm) = {r} THEN Give(p, r) ELSE Exit(p)
    /\ MailboxUnchanged /\ OutputUnchanged /\ UNCHANGED helpers

(* The poll loop runs out of time. *)
PollDeadline(p) ==
    /\ waiter[p].pc = "poll" /\ waiter[p].arm \in expired
    /\ Move(p, "expiring")
    /\ MailboxUnchanged /\ OutputUnchanged /\ UNCHANGED helpers

(* deadline_result: the lock decides between the deadline and a reply.     *)
(* When the lock is not to be had, the worker is told to retry and a       *)
(* helper is started to settle the wait.                                   *)
DeadlineResult(p) ==
    /\ waiter[p].pc = "expiring"
    /\ LET w == waiter[p].arm IN
         \/ /\ EndWins(w) /\ AppendRow("ended", w, "timeout", 0)
            /\ deadlined' = deadlined \cup {w}
            /\ Exit(p) /\ UNCHANGED helpers
         \/ /\ EndedBefore(w) /\ deadlined' = deadlined \cup {w}
            /\ Exit(p) /\ UNCHANGED <<mail, helpers>>
         \/ /\ \E r \in Replies(w) : ReplyWins(w, r) /\ Give(p, r)
            /\ UNCHANGED <<mail, helpers, deadlined>>
         \/ /\ helpers' = helpers \cup {[op |-> "timeout", wait |-> w, ref |-> 0]}
            /\ Exit(p) /\ UNCHANGED <<mail, deadlined>>
    /\ UNCHANGED <<receipts, expired, acked, told, delivered, marked>>

(* report: the payload is flushed first, then the exact STEER-REPLY line   *)
(* (worker_wait_reply_output_lines).                                       *)
ReportReply(p) ==
    /\ waiter[p].pc = "report"
    /\ delivered' = delivered \cup {waiter[p].give}
    /\ Move(p, "receipt")
    /\ MailboxUnchanged /\ UNCHANGED <<marked, deadlined, helpers>>

ReportReceipt(p) ==
    /\ waiter[p].pc = "receipt"
    /\ marked' = marked \cup {waiter[p].give}
    /\ Move(p, "cleanup")
    /\ MailboxUnchanged /\ UNCHANGED <<delivered, deadlined, helpers>>

(* Mutant: the helper's command line lacks the reply's seq. *)
ScheduleCleanupNoSeq(p) ==
    /\ waiter[p].pc = "cleanup"
    /\ \E ops \in SUBSET {"receipt", "end"} :
         helpers' = helpers \cup
           {[op |-> o, wait |-> mail[waiter[p].give].wait] : o \in ops}
    /\ Exit(p)
    /\ MailboxUnchanged /\ OutputUnchanged

(* schedule_worker_wait_reply_cleanup: each of the two helpers may fail to *)
(* start.  A second one for the same reply adds nothing: the slot lock     *)
(* lets one run.                                                           *)
ScheduleCleanup(p) ==
    /\ waiter[p].pc = "cleanup"
    /\ \E ops \in SUBSET {"receipt", "end"} :
         helpers' = helpers \cup
           {[op |-> o, wait |-> mail[waiter[p].give].wait, ref |-> waiter[p].give] :
              o \in ops}
    /\ Exit(p)
    /\ MailboxUnchanged /\ OutputUnchanged

(* The command is killed, or an error it does not handle ends it. *)
Die(p) ==
    /\ "crash" \in Faults /\ waiter[p].pc # "idle"
    /\ Exit(p)
    /\ MailboxUnchanged /\ OutputUnchanged /\ UNCHANGED helpers

-----------------------------------------------------------------------------
(* Helpers, controller, worker, time *)

(* _run_worker_wait_cleanup: the helper checks the rows it was named       *)
(* against the mailbox and writes its record, if that is still right.      *)
RunHelper(h) ==
    /\ h \in helpers
    /\ \/ /\ h.op = "receipt" /\ Replies(h.wait) = {h.ref}
          /\ receipts' = receipts \cup {h.ref} /\ UNCHANGED mail
       \/ /\ h.op = "end" /\ Replies(h.wait) = {h.ref} /\ ~Settled(h.wait)
          /\ AppendRow("ended", h.wait, "reply", h.ref) /\ UNCHANGED receipts
       \/ /\ h.op \in {"timeout", "failed"} /\ EndWins(h.wait)
          /\ AppendRow("ended", h.wait, h.op, 0) /\ UNCHANGED receipts
    /\ helpers' = helpers \ {h}
    /\ OutputUnchanged /\ UNCHANGED <<waiter, expired, acked, told>>

(* It finds nothing to do, loses the lock or is killed. *)
HelperEnds(h) ==
    /\ h \in helpers
    /\ helpers' = helpers \ {h}
    /\ MailboxUnchanged /\ OutputUnchanged /\ UNCHANGED waiter

Hear(w, m, admitted) ==
    told' = told \cup {[wait |-> w, word |-> m.word, ref |-> m.id,
                        admitted |-> admitted]}

(* The one reply to w is this very message, by its id. *)
SameMessage(w, id) ==
    \E r \in Replies(w) : Replies(w) = {r} /\ mail[r].ref = id

(* Mutant: a reply is admitted to a settled wait. *)
AdmitReplySettled(w, m) ==
    /\ w \in Arms
    /\ Replies(w) = {} /\ Fits(w, m.word)
    /\ AppendRow("reply", w, m.word, m.id)
    /\ UNCHANGED told
    /\ OutputUnchanged /\ UNCHANGED <<receipts, expired, acked, waiter, helpers>>

(* append_worker_wait_reply: message m answers wait w.  The sender may be  *)
(* killed before it hears the outcome, and may send the message again.     *)
AdmitReply(w, m) ==
    /\ w \in Arms
    /\ ~Settled(w) /\ Replies(w) = {} /\ Fits(w, m.word)
    /\ AppendRow("reply", w, m.word, m.id)
    /\ \/ "retry" \in Faults /\ Hear(w, m, TRUE)
       \/ UNCHANGED told
    /\ OutputUnchanged /\ UNCHANGED <<receipts, expired, acked, waiter, helpers>>

RetryReply(w, m) ==
    /\ "retry" \in Faults
    /\ w \in Arms /\ SameMessage(w, m.id)
    /\ Hear(w, m, TRUE)
    /\ OutputUnchanged
    /\ UNCHANGED <<mail, receipts, expired, acked, waiter, helpers>>

(* Mutant: the settlement is looked at before the message's identity. *)
RefuseRetry(w, m) ==
    /\ "retry" \in Faults
    /\ w \in Arms
    /\ Settled(w) \/ Replies(w) # {} \/ ~Fits(w, m.word)
    /\ Hear(w, m, FALSE)
    /\ OutputUnchanged
    /\ UNCHANGED <<mail, receipts, expired, acked, waiter, helpers>>

RefuseReply(w, m) ==
    /\ "retry" \in Faults
    /\ w \in Arms /\ ~SameMessage(w, m.id)
    /\ Settled(w) \/ Replies(w) # {} \/ ~Fits(w, m.word)
    /\ Hear(w, m, FALSE)
    /\ OutputUnchanged
    /\ UNCHANGED <<mail, receipts, expired, acked, waiter, helpers>>

(* append_message_view without reply_to: an untyped steer. *)
SendSteer ==
    /\ Cardinality(Steers) < MaxSteers
    /\ AppendRow("steer", 0, "none", 0)
    /\ OutputUnchanged
    /\ UNCHANGED <<receipts, expired, acked, told, waiter, helpers>>

(* The worker prints STEER-ACK for a steer. *)
AckSteer(i) ==
    /\ i \in Pending(acked)
    /\ acked' = acked \cup {i}
    /\ OutputUnchanged
    /\ UNCHANGED <<mail, receipts, expired, told, waiter, helpers>>

(* The deadline of a wait passes. *)
Expire(w) ==
    /\ w \in Arms \ expired
    /\ expired' = expired \cup {w}
    /\ OutputUnchanged
    /\ UNCHANGED <<mail, receipts, acked, told, waiter, helpers>>

WaiterStep(p) ==
    \/ \E ask \in Asked : Begin(p, ask)
    \/ InitialRead(p) \/ GiveUp(p) \/ SettleStalePriorWait(p)
    \/ ClosePriorWait(p) \/ ArmWait(p) \/ PublishQuestion(p) \/ FailWait(p)
    \/ PollReply(p) \/ PollDeadline(p) \/ DeadlineResult(p)
    \/ ReportReply(p) \/ ReportReceipt(p) \/ ScheduleCleanup(p)

ControllerStep ==
    \/ \E w \in Arms, m \in Messages :
          AdmitReply(w, m) \/ RetryReply(w, m) \/ RefuseReply(w, m)
    \/ SendSteer

Next ==
    \/ \E p \in Waiters : WaiterStep(p) \/ Die(p)
    \/ \E h \in helpers : RunHelper(h) \/ HelperEnds(h)
    \/ ControllerStep
    \/ \E i \in Pending(acked) : AckSteer(i)
    \/ \E w \in Arms : Expire(w)

Spec == Init /\ [][Next]_vars

(* A command that is not killed goes on; the worker keeps asking; neither  *)
(* the lock nor the output fails it for ever at the same point; time       *)
(* passes.  Nothing obliges a controller to reply or a helper to succeed.  *)
Fairness ==
    /\ \A p \in Waiters :
         /\ WF_vars(WaiterStep(p))
         /\ SF_vars(InitialRead(p))
         /\ SF_vars(SettleStalePriorWait(p))
         /\ SF_vars(ClosePriorWait(p))
         /\ SF_vars(ReportReply(p))
    /\ WF_vars(\E w \in Arms : Expire(w))

FairSpec == Spec /\ Fairness

-----------------------------------------------------------------------------
(* Properties *)

(* Every variable has its type. *)
TypeOK ==
    /\ mail \in Seq(Row)
    /\ receipts \subseteq Nat /\ expired \subseteq Nat
    /\ waiter \in [Waiters -> Waiter]
    /\ helpers \subseteq Helper
    /\ delivered \subseteq Nat /\ marked \subseteq Nat
    /\ acked \subseteq Nat /\ deadlined \subseteq Nat
    /\ told \subseteq Told

(* However waiters, repliers and helpers race, the mailbox holds one       *)
(* outcome for a wait: at most one reply, at most one end row, and no end  *)
(* row that denies the reply (append_worker_wait_reply and                 *)
(* append_worker_wait_ended, validate).                                    *)
OneOutcome ==
    \A w \in Arms :
        /\ \A r, s \in Replies(w) : r = s
        /\ \A i, j \in RowsOf("ended", w) : i = j
        /\ \A i \in RowsOf("ended", w) :
             mail[i].word = "reply" <=> Replies(w) # {}

(* "the mailbox lock must decide the reply-versus-timeout race before this *)
(* waiter reports a settled deadline": a worker that was told that its     *)
(* deadline settled the wait is not given an answer to it, nor is one      *)
(* admitted.                                                               *)
DeadlineIsFinal ==
    \A w \in deadlined : Replies(w) = {} /\ \A r \in delivered : mail[r].wait # w

(* What a controller hears of a message is true and stays true through any *)
(* number of retries: admitted means that the reply is in the mailbox,     *)
(* refused that this message never is.                                     *)
ToldTruth ==
    \A t \in told : t.admitted <=> SameMessage(t.wait, t.ref)

(* The protocol keeps what module Questions promises: an admitted reply    *)
(* reaches the worker before the worker can ask the next question.         *)
Asks ==
    INSTANCE Questions WITH
        asked <- Arms,
        answered <- {w \in Arms : Replies(w) # {}},
        received <- {w \in Arms : Replies(w) \cap delivered # {}},
        givenUp <- {w \in Arms :
                      \E i \in RowsOf("ended", w) : mail[i].word # "reply"}

QuestionsKept == Asks!Spec

(* An admitted reply reaches the worker, wherever waiters are killed, as   *)
(* long as the worker asks again.                                          *)
ReplyReaches ==
    \A r \in 1..(3 * MaxWaits + MaxSteers) :
        r \in DOMAIN mail /\ mail[r].kind = "reply" ~> r \in delivered

(* A wait whose waiter is gone does not stay open: it is settled or its    *)
(* reply delivered, unless an unacknowledged steer answers every later     *)
(* need first.                                                             *)
WaitCloses ==
    \A w \in 1..(3 * MaxWaits + MaxSteers) :
        w \in Arms ~> \/ Settled(w) \/ Replies(w) \cap delivered # {}
                      \/ Pending(acked) # {}
=============================================================================
