--------------------------- MODULE SessionDelivery ---------------------------
(***************************************************************************)
(* src/runtime/delivery.ts: the host reads the rows a container wrote to a *)
(* session's outbound.db, hands them to the channel adapter, and records   *)
(* each as delivered or failed in the session's inbound.db.                *)
(*                                                                         *)
(* Two polls run, each a chain of timer, loop over sessions, timer. A      *)
(* chain is named by a member of Chains: polls that are stopped and        *)
(* started again while an old chain sleeps leave two chains of a kind.     *)
(*                                                                         *)
(* A chain gives way at two awaits: the handler or adapter it called, and  *)
(* its timer. The tables survive a crash of the host; the adapter, the     *)
(* in-flight set and the counts of attempts do not.                        *)
(***************************************************************************)
EXTENDS Naturals, Sequences, FiniteSets, SequencesExt

CONSTANTS
  Messages, Sessions, Chains,
  SessionOf,      \* the session a message is written in
  KindOf,         \* what deliverMessage makes of it, see Kinds
  PollOf,         \* the kind of a chain: active or sweep
  MaxTroubles,    \* bound: faults of the databases and of the adapter, crashes
                  \* of the host and calls of stopDeliveryPolls together
  None

\* chat, files: a channel message, without and with attachments;
\* system: applied by a registered handler; noop: a system action nobody
\* registered; denied: malformed, unknown group, no permission or no
\* agent-to-agent module; unrouted: without channel or platform.
Kinds == {"chat", "files", "system", "noop", "denied", "unrouted"}

ASSUME SessionDeliveryAssumption ==
  /\ SessionOf \in [Messages -> Sessions]
  /\ KindOf \in [Messages -> Kinds]
  /\ PollOf \in [Chains -> {"active", "sweep"}]
  /\ MaxTroubles \in Nat
  /\ None \notin Sessions

MAX_DELIVERY_ATTEMPTS == 3

VARIABLES
  rows,        \* due rows of messages_out, oldest first
  mark,        \* the delivered table: none, delivered or failed
  outbox,      \* messages whose attachments are on disk
  adapter,     \* deliveryAdapter has been set
  polling,     \* kinds of poll that are switched on
  inflight,    \* inflightDeliveries
  attempts,    \* deliveryAttempts
  at,          \* where each chain is
  todo,        \* the sessions its loop has still to visit
  on,          \* the session it drains
  batch,       \* what it has still to deliver of what it read there: places in rows
  shown,       \* how often a message took effect: on a screen, or handled
  faults, crashes, stops

host == <<adapter, polling, inflight, attempts>>
chain == <<at, todo, on, batch>>
counters == <<faults, crashes, stops>>
vars == <<rows, mark, outbox, host, chain, shown, counters>>

-----------------------------------------------------------------------------
Init ==
  /\ rows = <<>>
  /\ mark = [m \in Messages |-> "none"]
  /\ outbox = {}
  /\ adapter = FALSE
  /\ polling = {}
  /\ inflight = {}
  /\ attempts = [m \in Messages |-> 0]
  /\ at = [c \in Chains |-> "off"]
  /\ todo = [c \in Chains |-> {}]
  /\ on = [c \in Chains |-> None]
  /\ batch = [c \in Chains |-> {}]
  /\ shown = [m \in Messages |-> 0]
  /\ faults = 0 /\ crashes = 0 /\ stops = 0

Troubles == faults + crashes + stops

Fault == Troubles < MaxTroubles /\ faults' = faults + 1

-----------------------------------------------------------------------------
(* The container and the host around the polls *)

\* The container writes a message and its attachments, or one falls due.
Write(m) ==
  /\ ~Contains(rows, m)
  /\ rows' = Append(rows, m)
  /\ outbox' = IF KindOf[m] = "files" THEN outbox \cup {m} ELSE outbox
  /\ UNCHANGED <<mark, host, chain, shown, counters>>

SetAdapter ==
  /\ ~adapter
  /\ adapter' = TRUE
  /\ UNCHANGED <<rows, mark, outbox, polling, inflight, attempts, chain, shown, counters>>

StartPoll(c) ==
  /\ PollOf[c] \notin polling
  /\ at[c] = "off"
  /\ polling' = polling \cup {PollOf[c]}
  /\ at' = [at EXCEPT ![c] = "woken"]
  /\ UNCHANGED <<rows, mark, outbox, adapter, inflight, attempts, todo, on, batch,
                 shown, counters>>

StopPolls ==
  /\ Troubles < MaxTroubles
  /\ stops' = stops + 1
  /\ polling' = {}
  /\ UNCHANGED <<rows, mark, outbox, adapter, inflight, attempts, chain, shown,
                 faults, crashes>>

Crash ==
  /\ Troubles < MaxTroubles
  /\ crashes' = crashes + 1
  /\ adapter' = FALSE
  /\ polling' = {}
  /\ inflight' = {}
  /\ attempts' = [m \in Messages |-> 0]
  /\ at' = [c \in Chains |-> "off"]
  /\ todo' = [c \in Chains |-> {}]
  /\ on' = [c \in Chains |-> None]
  /\ batch' = [c \in Chains |-> {}]
  /\ UNCHANGED <<rows, mark, outbox, shown, faults, stops>>

-----------------------------------------------------------------------------
(* pollActive and pollSweep *)

\* The timer fires, or the poll was just started. A sweep visits every
\* session, an active poll those that are running now.
Poll(c) ==
  /\ at[c] = "woken"
  /\ IF PollOf[c] \in polling
     THEN /\ \E running \in SUBSET Sessions :
               todo' = [todo EXCEPT ![c] =
                          IF PollOf[c] = "sweep" THEN Sessions ELSE running]
          /\ at' = [at EXCEPT ![c] = "loop"]
     ELSE /\ at' = [at EXCEPT ![c] = "off"]
          /\ UNCHANGED todo
  /\ UNCHANGED <<rows, mark, outbox, host, on, batch, shown, counters>>

\* The loop is done, and the next timer will fire.
Sleep(c) ==
  /\ at[c] = "loop"
  /\ todo[c] = {}
  /\ at' = [at EXCEPT ![c] = "woken"]
  /\ UNCHANGED <<rows, mark, outbox, host, todo, on, batch, shown, counters>>

\* Mutant: no guard against a second drain of the session.
Unguarded(s) == FALSE

BeingDrained(s) == s \in inflight

Undelivered(s) ==
  {i \in DOMAIN rows : SessionOf[rows[i]] = s /\ mark[rows[i]] = "none"}

\* deliverSessionMessages(s) up to the first message. The session is skipped
\* while another chain drains it; with nothing to do the drain ends at once.
Visit(c, s) ==
  /\ at[c] = "loop"
  /\ s \in todo[c]
  /\ todo' = [todo EXCEPT ![c] = @ \ {s}]
  /\ IF BeingDrained(s) \/ Undelivered(s) = {}
     THEN UNCHANGED <<inflight, at, on, batch>>
     ELSE /\ inflight' = inflight \cup {s}
          /\ on' = [on EXCEPT ![c] = s]
          /\ batch' = [batch EXCEPT ![c] = Undelivered(s)]
          /\ at' = [at EXCEPT ![c] = "next"]
  /\ UNCHANGED <<rows, mark, outbox, adapter, polling, attempts, shown, counters>>

\* Reading a session fails. If its databases cannot be opened the session is
\* passed over; if a query throws the poll's catch ends its loop.
ReadFails(c, s) ==
  /\ at[c] = "loop"
  /\ s \in todo[c]
  /\ ~BeingDrained(s)
  /\ Fault
  /\ \E left \in {todo[c] \ {s}, {}} : todo' = [todo EXCEPT ![c] = left]
  /\ UNCHANGED <<rows, mark, outbox, host, at, on, batch, shown, crashes, stops>>

\* The list of sessions cannot be read: the poll sleeps again.
PollFails(c) ==
  /\ at[c] = "woken"
  /\ PollOf[c] \in polling
  /\ Fault
  /\ UNCHANGED <<rows, mark, outbox, host, chain, shown, crashes, stops>>

-----------------------------------------------------------------------------
(* drainSession: one message after the other *)

First(c) == Min(batch[c])
Current(c) == rows[First(c)]

\* Mutant: a drain does not take its session out of the set.
StillInflight(c) == inflight

Released(c) == inflight \ {on[c]}

\* The drain goes on with the next message, or ends.
GoOn(c) ==
  /\ batch' = [batch EXCEPT ![c] = @ \ {First(c)}]
  /\ IF batch[c] # {First(c)}
     THEN /\ at' = [at EXCEPT ![c] = "next"]
          /\ UNCHANGED <<inflight, on>>
     ELSE /\ at' = [at EXCEPT ![c] = "loop"]
          /\ inflight' = Released(c)
          /\ on' = [on EXCEPT ![c] = None]
  /\ UNCHANGED todo

\* drainSession throws: the loop over the sessions ends with it.
Abandon(c) ==
  /\ at' = [at EXCEPT ![c] = "loop"]
  /\ todo' = [todo EXCEPT ![c] = {}]
  /\ inflight' = Released(c)
  /\ on' = [on EXCEPT ![c] = None]
  /\ batch' = [batch EXCEPT ![c] = {}]

\* Mutant: one attempt too few.
OneFewer(m) == attempts[m] + 2 >= MAX_DELIVERY_ATTEMPTS

SpentWith(m) == attempts[m] + 1 >= MAX_DELIVERY_ATTEMPTS

Mark(m, how) == mark' = [mark EXCEPT ![m] = IF @ = "none" THEN how ELSE @]

\* The catch of the drain's loop: count the attempt, after the last give up.
\* broken is 1 when a fault brought the drain here; markDeliveryFailed may be
\* another.
Failed(c, m, broken) ==
  /\ Troubles + broken <= MaxTroubles
  /\ IF ~SpentWith(m)
     THEN /\ attempts' = [attempts EXCEPT ![m] = @ + 1]
          /\ faults' = faults + broken
          /\ GoOn(c)
          /\ UNCHANGED mark
     ELSE \/ /\ Mark(m, "failed")
             /\ attempts' = [attempts EXCEPT ![m] = 0]
             /\ faults' = faults + broken
             /\ GoOn(c)
          \/ /\ Troubles + broken < MaxTroubles
             /\ faults' = faults + broken + 1
             /\ attempts' = [attempts EXCEPT ![m] = @ + 1]
             /\ Abandon(c)
             /\ UNCHANGED mark

\* deliverMessage returned: the row is marked. If that write throws, the
\* message counts as failed although it was handled.
Returned(c, m) ==
  \/ /\ Mark(m, "delivered")
     /\ attempts' = [attempts EXCEPT ![m] = 0]
     /\ GoOn(c)
     /\ UNCHANGED faults
  \/ Failed(c, m, 1)

\* deliverMessage, when it settles without waiting for anyone.
AtOnce(c) ==
  /\ at[c] = "next"
  /\ LET m == Current(c) IN
       \/ (~adapter \/ KindOf[m] \in {"noop", "unrouted"}) /\ Returned(c, m)
       \/ adapter /\ KindOf[m] = "denied" /\ Failed(c, m, 0)
  /\ UNCHANGED <<rows, outbox, adapter, polling, shown, crashes, stops>>

OutboxWhenRead(m) == outbox

\* It calls the adapter, or the handler of a system action, and waits.
Call(c) ==
  /\ at[c] = "next"
  /\ adapter
  /\ KindOf[Current(c)] \in {"chat", "files", "system"}
  /\ at' = [at EXCEPT ![c] = "called"]
  /\ outbox' = OutboxWhenRead(Current(c))
  /\ UNCHANGED <<rows, mark, host, todo, on, batch, shown, counters>>

\* The message is on the user's screen, or the action has been applied.
TakesEffect(c) ==
  /\ at[c] = "called"
  /\ shown' = [shown EXCEPT ![Current(c)] = @ + 1]
  /\ at' = [at EXCEPT ![c] = "shown"]
  /\ UNCHANGED <<rows, mark, outbox, host, todo, on, batch, counters>>

\* clearOutbox: best effort, its failures are swallowed.
Cleared(m) == outbox \ {m}

Resolves(c) ==
  /\ at[c] = "shown"
  /\ \E left \in {outbox, Cleared(Current(c))} : outbox' = left
  /\ Returned(c, Current(c))
  /\ UNCHANGED <<rows, adapter, polling, shown, crashes, stops>>

\* The adapter or the handler throws, before or after the message was shown.
Throws(c) ==
  /\ at[c] \in {"called", "shown"}
  /\ Failed(c, Current(c), 1)
  /\ UNCHANGED <<rows, outbox, adapter, polling, shown, crashes, stops>>

-----------------------------------------------------------------------------
Advance(c) ==
  \/ Poll(c) \/ Sleep(c)
  \/ \E s \in Sessions : Visit(c, s)
  \/ AtOnce(c) \/ Call(c)
  \/ TakesEffect(c) \/ Resolves(c)

Next ==
  \/ \E m \in Messages : Write(m)
  \/ SetAdapter \/ StopPolls \/ Crash
  \/ \E c \in Chains :
       \/ StartPoll(c) \/ Advance(c)
       \/ PollFails(c) \/ Throws(c)
       \/ \E s \in Sessions : ReadFails(c, s)

Spec == Init /\ [][Next]_vars

\* Timers fire, the adapter answers, and a host that is up has its polls
\* started. What goes wrong is bounded.
FairSpec ==
  /\ Spec
  /\ \A c \in Chains : WF_vars(Advance(c)) /\ WF_vars(StartPoll(c))

-----------------------------------------------------------------------------
(* Properties *)

\* Where a chain is while it drains a session.
Busy == {"next", "called", "shown"}

Draining(s) == {c \in Chains : on[c] = s}

\* Types; a chain has a session and a batch exactly while it drains.
TypeOK ==
  /\ rows \in Seq(Messages)
  /\ mark \in [Messages -> {"none", "delivered", "failed"}]
  /\ outbox \subseteq Messages
  /\ adapter \in BOOLEAN
  /\ polling \subseteq {"active", "sweep"}
  /\ inflight \subseteq Sessions
  /\ attempts \in [Messages -> 0..(MAX_DELIVERY_ATTEMPTS - 1 + faults)]
  /\ at \in [Chains -> {"off", "woken", "loop"} \cup Busy]
  /\ todo \in [Chains -> SUBSET Sessions]
  /\ on \in [Chains -> Sessions \cup {None}]
  /\ batch \in [Chains -> SUBSET DOMAIN rows]
  /\ shown \in [Messages -> Nat]
  /\ faults \in Nat /\ crashes \in Nat /\ stops \in Nat
  /\ \A c \in Chains : /\ at[c] \in Busy <=> batch[c] # {}
                       /\ at[c] \in Busy <=> on[c] # None

\* However many chains run, a session is drained by one of them, and the
\* in-flight set names exactly the sessions being drained, so no session is
\* left locked (delivery.ts:39-50, 151-162).
OneDrainPerSession ==
  /\ TypeOK
  /\ \A s \in Sessions :
       /\ Cardinality(Draining(s)) <= 1
       /\ (s \in inflight) <=> (Draining(s) # {})

\* The user sees a message twice only after a crash or a fault: with neither,
\* two polls and restarted polls deliver each message once (delivery.ts:43).
NoDuplicates == \A m \in Messages : shown[m] <= 1 + faults + crashes

FilesKeptUntilShown ==
  \A m \in Messages :
    (KindOf[m] = "files" /\ Contains(rows, m) /\ shown[m] = 0) => m \in outbox

FailedForAReason ==
  \A m \in Messages :
    (mark[m] = "failed" /\ KindOf[m] # "denied") => faults >= MAX_DELIVERY_ATTEMPTS

\* Attachments are on disk until the user has had the message with them, so a
\* retry still has them; and a message that can be delivered is given up on only
\* after as many faults as the limit: a session two chains drain, a poll cut
\* short or a restart never counts against it (delivery.ts:205-217, 350-370).
NothingGivenUpEarly == FilesKeptUntilShown /\ FailedForAReason

\* Every row that is due ends up delivered or failed: no skipped drain,
\* failed poll or crash leaves one behind.
EveryRowDecided ==
  \A m \in Messages : Contains(rows, m) ~> (mark[m] # "none")

-----------------------------------------------------------------------------
(* The inductive invariant *)

\* A row is read once, and who holds rows of a session has it to himself.
RowsInv ==
  /\ \A i, j \in DOMAIN rows : rows[i] = rows[j] => i = j
  /\ \A c \in Chains : \A i \in batch[c] :
       mark[rows[i]] = "none" /\ SessionOf[rows[i]] = on[c]
  /\ \A c, d \in Chains : on[c] = on[d] /\ on[c] # None => c = d
  /\ inflight = {on[c] : c \in Chains} \ {None}

\* A message that has been shown once too often for the troubles there were is
\* marked, or its call has yet to return.
EffectInv ==
  /\ NoDuplicates
  /\ \A m \in Messages :
       mark[m] = "none" /\ shown[m] > faults + crashes =>
         \E c \in Chains : at[c] = "shown" /\ Current(c) = m
  /\ \A c \in Chains : at[c] = "shown" => shown[Current(c)] > 0

\* Attempts count faults.
SpendInv ==
  /\ NothingGivenUpEarly
  /\ \A m \in Messages : KindOf[m] # "denied" => attempts[m] <= faults

IInv == TypeOK /\ RowsInv /\ EffectInv /\ SpendInv

=============================================================================
