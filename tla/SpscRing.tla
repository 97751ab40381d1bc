------------------------------ MODULE SpscRing ------------------------------
(***************************************************************************)
(* The lock-free ring of src/switch-mod/src/ap/ApState.hpp, with one       *)
(* producer (the network thread, for the inbound ring) and the concurrent  *)
(* consumers that drainInbound's hook sites are.  One action is one access *)
(* of the shared memory.  Elements are numbered in the order of their      *)
(* push, so an element is its number; writing an element is two accesses,  *)
(* and a read between them returns Torn.                                   *)
(***************************************************************************)
EXTENDS Naturals, Sequences, FiniteSets

CONSTANTS
    N,          \* slots of the ring; it holds N - 1 elements
    Consumers,  \* threads that pop
    MaxPush,    \* pushes considered
    Lapping     \* may the ring go once around during a single pop?

ASSUME RingAssumption ==
    /\ N \in Nat /\ N > 1
    /\ MaxPush \in Nat
    /\ Lapping \in BOOLEAN

Slots == 0..(N - 1)
Torn  == 0

VARIABLES
    head, tail, buf,   \* head_, tail_ and buf_
    push_pc,           \* the producer inside push()
    pc, t, out,        \* each consumer inside pop(), and its two locals
    \* History.
    pushed,            \* pushes completed
    delivered,         \* elements returned by pop(), in the order of the CASes
    from               \* how many were delivered when a consumer read its t

producerVars == <<head, buf, push_pc, pushed>>
consumerVars == <<tail, pc, t, out, delivered, from>>
ringVars == <<producerVars, consumerVars>>

RingTypeOK ==
    /\ head \in Slots /\ tail \in Slots
    /\ buf \in [Slots -> 0..MaxPush]
    /\ push_pc \in {"idle", "write", "finish", "publish"}
    /\ pc \in [Consumers -> {"idle", "empty?", "read", "cas"}]
    /\ t \in [Consumers -> Slots]
    /\ out \in [Consumers -> 0..MaxPush]
    /\ pushed \in 0..MaxPush
    /\ delivered \in Seq(0..MaxPush)
    /\ from \in [Consumers -> Nat]

RingInit ==
    /\ head = 0 /\ tail = 0
    /\ buf = [s \in Slots |-> Torn]
    /\ push_pc = "idle"
    /\ pc = [c \in Consumers |-> "idle"]
    /\ t = [c \in Consumers |-> 0]
    /\ out = [c \in Consumers |-> Torn]
    /\ pushed = 0
    /\ delivered = <<>>
    /\ from = [c \in Consumers |-> 0]

Next_(i) == (i + 1) % N

\* Unless Lapping, no pop lasts until the ring has gone once around: the
\* element N places after the one it claims is pushed after it has returned.
MayPush ==
    \/ Lapping
    \/ \A c \in Consumers : pc[c] # "idle" => pushed + 1 < from[c] + N

-----------------------------------------------------------------------------
(* push(): the full test reads tail_; then buf_[h], then head_. *)

PushStart ==
    /\ push_pc = "idle" /\ pushed < MaxPush /\ MayPush
    /\ Next_(head) # tail
    /\ push_pc' = "write"
    /\ UNCHANGED <<head, buf, pushed, consumerVars>>

PushWrite ==
    /\ push_pc = "write"
    /\ buf' = [buf EXCEPT ![head] = Torn]
    /\ push_pc' = "finish"
    /\ UNCHANGED <<head, pushed, consumerVars>>

PushFinish ==
    /\ push_pc = "finish"
    /\ buf' = [buf EXCEPT ![head] = pushed + 1]
    /\ push_pc' = "publish"
    /\ UNCHANGED <<head, pushed, consumerVars>>

PushPublish ==
    /\ push_pc = "publish"
    /\ head' = Next_(head)
    /\ pushed' = pushed + 1
    /\ push_pc' = "idle"
    /\ UNCHANGED <<buf, consumerVars>>

-----------------------------------------------------------------------------
(* pop(). *)

\* t = tail_.load()
PopStart(c) ==
    /\ pc[c] = "idle"
    /\ t' = [t EXCEPT ![c] = tail]
    /\ from' = [from EXCEPT ![c] = Len(delivered)]
    /\ pc' = [pc EXCEPT ![c] = "empty?"]
    /\ UNCHANGED <<tail, out, delivered, producerVars>>

\* Mutation: the empty test is dropped.
PopUntested(c) ==
    /\ pc[c] = "empty?"
    /\ pc' = [pc EXCEPT ![c] = "read"]
    /\ UNCHANGED <<tail, t, out, delivered, from, producerVars>>

\* Mutation: the last element of the ring is never popped.
PopLeavesOne(c) ==
    /\ pc[c] = "empty?"
    /\ pc' = [pc EXCEPT ![c] = IF head \in {t[c], Next_(t[c])}
                               THEN "idle" ELSE "read"]
    /\ UNCHANGED <<tail, t, out, delivered, from, producerVars>>

\* t == head_.load(): return false, or go on.
PopTest(c) ==
    /\ pc[c] = "empty?"
    /\ pc' = [pc EXCEPT ![c] = IF t[c] = head THEN "idle" ELSE "read"]
    /\ UNCHANGED <<tail, t, out, delivered, from, producerVars>>

\* out = buf_[t]
PopRead(c) ==
    /\ pc[c] = "read"
    /\ out' = [out EXCEPT ![c] = buf[t[c]]]
    /\ pc' = [pc EXCEPT ![c] = "cas"]
    /\ UNCHANGED <<tail, t, delivered, from, producerVars>>

\* The exchange succeeds: pop returns out.
PopWins(c) ==
    /\ pc[c] = "cas" /\ tail = t[c]
    /\ tail' = Next_(t[c])
    /\ delivered' = Append(delivered, out[c])
    /\ pc' = [pc EXCEPT ![c] = "idle"]
    /\ UNCHANGED <<t, out, from, producerVars>>

\* Mutation: the exchange is retried with the t it failed with.
PopRetries(c) ==
    /\ pc[c] = "cas"
    /\ pc' = [pc EXCEPT ![c] = "read"]
    /\ UNCHANGED <<tail, t, out, delivered, from, producerVars>>

\* It fails, for another consumer's win or spuriously: t = tail_, try again.
PopLoses(c) ==
    /\ pc[c] = "cas"
    /\ t' = [t EXCEPT ![c] = tail]
    /\ from' = [from EXCEPT ![c] = Len(delivered)]
    /\ pc' = [pc EXCEPT ![c] = "empty?"]
    /\ UNCHANGED <<tail, out, delivered, producerVars>>

Producer == PushStart \/ PushWrite \/ PushFinish \/ PushPublish
Consumer(c) ==
    PopStart(c) \/ PopTest(c) \/ PopRead(c) \/ PopWins(c) \/ PopLoses(c)

RingNext == Producer \/ \E c \in Consumers : Consumer(c)

\* Every thread runs; a weak exchange does not fail spuriously for ever.
RingFairness ==
    /\ WF_ringVars(PushWrite \/ PushFinish \/ PushPublish)
    /\ \A c \in Consumers : WF_ringVars(Consumer(c)) /\ SF_ringVars(PopWins(c))

RingSpec == RingInit /\ [][RingNext]_ringVars
RingFairSpec == RingSpec /\ RingFairness

-----------------------------------------------------------------------------
\* What a consumer holds is what it will have claimed: pops return the
\* elements in push order, each exactly once and whole (ApState.hpp:61-76).
InOrder == \A i \in 1..Len(delivered) : delivered[i] = i

\* The slots between tail_ and head_ are the elements pushed and not yet
\* delivered: none is lost when head_ wraps around.
Ring == [i \in 1..((head + N - tail) % N) |-> buf[(tail + i - 1) % N]]
NothingLost ==
    /\ Len(Ring) = pushed - Len(delivered)
    /\ \A i \in 1..Len(Ring) : Ring[i] = Len(delivered) + i

\* The ring implements the bounded queue.
Queue == INSTANCE BoundedQueue
    WITH Capacity <- N - 1, MaxPuts <- MaxPush,
         items <- Ring, puts <- pushed, taken <- delivered
Implements == Queue!Spec

\* A pop that has started returns: drainInbound's loop cannot spin
\* (ApState.hpp:64-69).
PopReturns == \A c \in Consumers : (pc[c] # "idle") ~> (pc[c] = "idle")

\* What is in the ring is delivered in the end.
AllDelivered == \A n \in 1..MaxPush : (pushed >= n) ~> (Len(delivered) >= n)
=============================================================================
