----------------------------- MODULE CallQueue -----------------------------
(***************************************************************************)
(* What the call forwarding of the pass-through devices promises to the    *)
(* program in the guest, whatever the layout of the shared memory: every   *)
(* API call the guest makes reaches the host library once, in program      *)
(* order, with its own arguments and data; a call that waits for a result  *)
(* (or a flush) returns only after every earlier call was executed.        *)
(***************************************************************************)
EXTENDS Sequences

CONSTANT Items          \* the calls as the guest made them: function, arguments, data

VARIABLES
  pending,              \* calls made and not yet executed, oldest first
  delivered,            \* calls the host library has executed, in order
  blocked               \* the guest waits inside a trapping register access

queueVars == <<pending, delivered, blocked>>

Init ==
  /\ pending = <<>>
  /\ delivered = <<>>
  /\ blocked = FALSE

\* A call without a result: the guest goes on at once.
Post(x) ==
  /\ ~blocked
  /\ pending' = Append(pending, x)
  /\ UNCHANGED <<delivered, blocked>>

\* A call whose result the guest waits for.
Wait(x) ==
  /\ ~blocked
  /\ pending' = Append(pending, x)
  /\ blocked' = TRUE
  /\ UNCHANGED delivered

\* The guest waits for everything it made so far, and for nothing new.
Flush ==
  /\ ~blocked
  /\ blocked' = TRUE
  /\ UNCHANGED <<pending, delivered>>

\* The host executes calls only while the guest waits: the guest's own thread
\* carries the host across the register access.
Deliver ==
  /\ blocked
  /\ pending # <<>>
  /\ delivered' = Append(delivered, Head(pending))
  /\ pending' = Tail(pending)
  /\ UNCHANGED blocked

Return ==
  /\ blocked
  /\ pending = <<>>
  /\ blocked' = FALSE
  /\ UNCHANGED <<pending, delivered>>

Next ==
  \/ \E x \in Items : Post(x) \/ Wait(x)
  \/ Flush
  \/ Deliver
  \/ Return

Fairness == WF_queueVars(Deliver) /\ WF_queueVars(Return)

SafeSpec == Init /\ [][Next]_queueVars

Spec == SafeSpec /\ Fairness
============================================================================
