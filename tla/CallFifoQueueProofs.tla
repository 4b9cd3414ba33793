------------------------- MODULE CallFifoQueueProofs -------------------------
(***************************************************************************)
(* What follows from the invariant of CallFifoProofs: queued calls keep    *)
(* their context, no data is left behind, and the shared memory is, step   *)
(* by step, the queue of calls that CallQueue describes.                   *)
(***************************************************************************)
EXTENDS CallFifoProofs, SequenceTheorems

-----------------------------------------------------------------------------
(* The context of a queued call.                                           *)

\* A call that waits was made in the context that is current still, or in none:
\* a context ends only when the drain has left nothing behind.
ContextInv == \A n \in QFirst .. Len(calls) : calls[n].ctx \in {0, current}

\* The pointer of the data area after the drain: the data of the trapping call.
LeakInv == hpc = "call" => dtop - NumData(calls[Len(calls)].f) <= DataBase

CInv == IInv /\ ContextInv /\ OwnContext /\ LeakInv

\* A new call is recorded with the context that is current.
LEMMA RecordContext ==
  ASSUME TypeOK, NEW f \in Funcs, Record(f)
  PROVE  /\ Len(calls') = Len(calls) + 1 /\ Len(calls) \in Nat /\ Len(executed) \in Nat
         /\ calls'[Len(calls) + 1].ctx = current
         /\ \A n \in 1 .. Len(calls) : calls'[n] = calls[n]
<1> DEFINE r == [f |-> f, at |-> depth, data |-> dtop, ctx |-> current]
<1>1. r \in CallRecord
  BY ConstantsAssumption DEF CallRecord, TypeOK, ConstantsAssumption
<1>2. calls \in Seq(CallRecord) /\ calls' = Append(calls, r) /\ Len(executed) \in Nat
  BY DEF TypeOK, Record
<1>3. r.ctx = current
  OBVIOUS
<1> HIDE DEF r
<1> QED  BY <1>1, <1>2, <1>3, AppendFacts

\* What is executed next was made in the context it is executed in.
LEMMA ExecuteContext ==
  ASSUME CInv, NEW n, n = Len(executed) + 1, n \in 1 .. Len(calls),
         NEW w, NEW f, NEW a, NEW d, Execute(w, f, a, d),
         executed' \in Seq(Execution), UNCHANGED <<calls, current>>
  PROVE  OwnContext' /\ ContextInv'
<1> DEFINE r == [call |-> w, args |-> a, data |-> Blocks(f, d), ctx |-> current]
<1>1. executed \in Seq(Execution) /\ executed' = Append(executed, r) /\ Len(executed) \in Nat
      /\ Len(calls) \in Nat
  BY DEF CInv, IInv, TypeOK, Execute
<1>2. /\ Len(executed') = n /\ executed'[n] = r
      /\ \A k \in 1 .. Len(executed) : executed'[k] = executed[k]
  <2> HIDE DEF r
  <2> QED  BY <1>1
<1>3. executed'[n].ctx = current
  BY <1>2
<1>4. calls[n].ctx \in {0, current}
  BY <1>1 DEF CInv, ContextInv, QFirst
<1>5. OwnContext'
  BY <1>1, <1>2, <1>3, <1>4 DEF CInv, OwnContext
<1>6. ContextInv'
  BY <1>1, <1>2 DEF CInv, ContextInv, QFirst
<1> QED  BY <1>5, <1>6

LEMMA ContextStep ==
  ASSUME CInv, IInv', Next
  PROVE  ContextInv' /\ OwnContext'
<1> USE DEF CInv
<1>0. /\ Len(calls) \in Nat /\ Len(executed) \in Nat /\ Len(executed) <= Len(calls)
      /\ executed' \in Seq(Execution) /\ TypeOK
  <2>1. Len(executed) <= QLast /\ Len(calls) \in Nat /\ Len(executed) \in Nat
    BY DEF IInv, ProgressInv, TypeOK
  <2> QED  BY <2>1 DEF QLast, IInv, TypeOK
<1>1. ASSUME NEW f \in Funcs, Record(f), UNCHANGED <<current, executed>>
      PROVE  ContextInv' /\ OwnContext'
  <2>1. /\ Len(calls') = Len(calls) + 1
        /\ calls'[Len(calls) + 1].ctx = current
        /\ \A n \in 1 .. Len(calls) : calls'[n] = calls[n]
    BY <1>0, <1>1, RecordContext
  <2>2. ContextInv'
    BY <1>0, <1>1, <2>1 DEF ContextInv, QFirst
  <2>3. OwnContext'
    BY <1>0, <1>1, <2>1 DEF OwnContext
  <2> QED  BY <2>2, <2>3
<1>2. ASSUME UNCHANGED <<calls, executed>>,
             current' = current \/ current = 0 \/ Len(executed) = Len(calls)
      PROVE  ContextInv' /\ OwnContext'
  BY <1>0, <1>2 DEF ContextInv, OwnContext, QFirst
<1>3. ASSUME NEW f \in Funcs, CallQueued(f)  PROVE ContextInv' /\ OwnContext'
  BY <1>1, <1>3 DEF CallQueued, context
<1>4. ASSUME NEW f \in Funcs, CallTrapped(f)  PROVE ContextInv' /\ OwnContext'
  BY <1>1, <1>4 DEF CallTrapped, context
<1>5. ASSUME NEW f \in Funcs, CallRejected(f)  PROVE ContextInv' /\ OwnContext'
  BY <1>2, <1>5 DEF CallRejected, context
<1>6. ASSUME NEW op \in {"flush", "drop"}, MagicWrite(op)  PROVE ContextInv' /\ OwnContext'
  BY <1>2, <1>6 DEF MagicWrite, context
<1>7. CASE MakeCurrent
  BY <1>2, <1>7 DEF MakeCurrent
<1>8. CASE DrainOne
  <2>1. hpc = "drain" /\ i < depth /\ UNCHANGED <<calls, current>>
    BY <1>8 DEF DrainOne, context
  <2>2. QFirst <= QLast /\ QLast <= Len(calls)
    <3>1. QFirst > QLast => i = depth
      BY <2>1 DEF IInv, ChainInv, Start
    <3>2. QLast \in Int /\ QLast <= Len(calls) /\ QFirst \in Int
      BY <1>0 DEF QLast, QFirst
    <3>3. i \in Nat /\ depth \in Nat
      BY <1>0, ConstantsAssumption DEF TypeOK, ConstantsAssumption
    <3> QED  BY <2>1, <3>1, <3>2, <3>3
  <2>3. Len(executed) + 1 \in 1 .. Len(calls)
    <3>1. QLast \in Int
      BY <1>0 DEF QLast
    <3> QED  BY <1>0, <2>2, <3>1 DEF QFirst
  <2>4. PICK w, f, a, d : Execute(w, f, a, d)
    BY <1>8 DEF DrainOne
  <2> QED  BY <1>0, <2>1, <2>3, <2>4, ExecuteContext
<1>9. CASE DrainDone
  <2>1. hop # "call" => Len(executed) = Len(calls)
    BY <1>9, DrainEnd DEF DrainDone, QLast, Trapping
  <2> QED  BY <1>2, <1>9, <2>1 DEF DrainDone
<1>10. CASE ExecTrapped
  <2>1. Len(executed) + 1 = Len(calls) /\ UNCHANGED <<calls, current>>
    BY <1>10 DEF ExecTrapped, IInv, ProgressInv, context
  <2>2. Len(executed) + 1 \in 1 .. Len(calls)
    BY <1>0, <2>1
  <2>3. PICK w, f, a, d : Execute(w, f, a, d)
    BY <1>10 DEF ExecTrapped
  <2> QED  BY <1>0, <2>1, <2>2, <2>3, ExecuteContext
<1>11. CASE Return
  BY <1>2, <1>11 DEF Return, context
<1> QED  BY <1>3, <1>4, <1>5, <1>6, <1>7, <1>8, <1>9, <1>10, <1>11 DEF Next, Guest, Host

\* The drain leaves the data of the trapping call, and the word the area begins
\* with where nothing was queued.
LEMMA LeakStep ==
  ASSUME CInv, Next
  PROVE  LeakInv'
<1> SUFFICES ASSUME hpc' = "call"  PROVE LeakInv'
  BY DEF LeakInv
<1>1. hpc = "drain"
  BY DEF CInv, Next, Guest, Host, CallQueued, CallTrapped, CallRejected, MagicWrite, MakeCurrent,
         DrainOne, DrainDone, ExecTrapped, Return, host, Made
<1>2. CASE DrainDone
  <2>1. /\ hop = "call" /\ i >= depth /\ calls' = calls
        /\ dtop' = (IF j > DataBase THEN dtop - j ELSE dtop)
    BY <1>2 DEF DrainDone
  <2>2. Trapping
    BY <1>1, <2>1 DEF Trapping
  <2>3. /\ dtop = DataEnd(Len(calls)) /\ j = calls[Len(calls)].data
        /\ Len(calls) \in 1 .. Len(calls)
    BY <1>1, <2>1, <2>2, DrainEnd DEF CInv, IInv, BoundsInv, ProgressInv, DataTop, TypeOK
  <2>4. NumData(calls[Len(calls)].f) \in Nat /\ j \in Nat
    BY <2>3, CallFacts DEF CInv, IInv
  <2>5. NumData(calls[Len(calls)].f)' = NumData(calls[Len(calls)].f)
    BY <2>1 DEF NumData, DataCb
  <2> QED  BY <2>1, <2>3, <2>4, <2>5 DEF DataEnd, LeakInv, DataBase
<1>3. ~DrainDone => hpc' # "call"
  BY <1>1 DEF Next, Guest, Host, CallQueued, CallTrapped, CallRejected, MagicWrite, MakeCurrent,
              DrainOne, ExecTrapped, Return, host, Made
<1> QED  BY <1>2, <1>3

\* The invariant that both properties follow from.
THEOREM ContextInductive ==
  ASSUME ArgsFit, DataFits, Lawful
  PROVE  SafeSpec => []CInv
<1>1. Init => CInv
  <2> SUFFICES ASSUME Init  PROVE CInv
    OBVIOUS
  <2>1. IInv
    BY InitIInv
  <2>2. calls = <<>> /\ executed = <<>> /\ hpc = "guest"
    BY DEF Init
  <2> QED  BY <2>1, <2>2 DEF CInv, ContextInv, OwnContext, LeakInv, QFirst
<1>2. CInv /\ [Next]_vars => CInv'
  <2> SUFFICES ASSUME CInv, [Next]_vars  PROVE CInv'
    OBVIOUS
  <2>1. IInv'
    BY NextIInv DEF CInv
  <2>2. CASE Next
    BY <2>1, <2>2, ContextStep, LeakStep DEF CInv
  <2>3. CASE UNCHANGED vars
    <3>1. UNCHANGED <<dtop, hpc, current, calls, executed>>
      BY <2>3 DEF vars, guestMem, host, context
    <3>2. ContextInv' /\ OwnContext' /\ LeakInv'
      BY <3>1 DEF CInv, ContextInv, OwnContext, LeakInv, QFirst
    <3> QED  BY <2>1, <3>2 DEF CInv
  <2> QED  BY <2>2, <2>3
<1> QED  BY <1>1, <1>2, PTL DEF SafeSpec

\* However calls, context changes and drains interleave, a call made in a context
\* is executed in it: every MESAGL_MAGIC write drains before it changes the context.
THEOREM CallsKeepTheirContext ==
  ASSUME ArgsFit, DataFits, Lawful
  PROVE  SafeSpec => []OwnContext
<1>1. CInv => OwnContext
  BY DEF CInv
<1> QED  BY <1>1, ContextInductive, PTL

\* The "FIFO data leak" that the write handlers report does not happen.
THEOREM NothingLeaks ==
  ASSUME ArgsFit, DataFits, Lawful
  PROVE  SafeSpec => []NoDataLeak
<1>1. CInv => NoDataLeak
  <2> SUFFICES ASSUME CInv, hpc = "drain", i >= depth, hop # "call"  PROVE Leftover <= DataBase
    BY DEF CInv, LeakInv, NoDataLeak
  <2>1. j = dtop
    BY DrainEnd DEF CInv, DataTop, Trapping
  <2>2. dtop \in Nat /\ j \in Nat
    BY DEF CInv, IInv, TypeOK
  <2> QED  BY <2>1, <2>2 DEF Leftover, DataBase
<1> QED  BY <1>1, ContextInductive, PTL

-----------------------------------------------------------------------------
(* The queue of calls.                                                     *)

\* What is pending and delivered, as the refinement mapping of CallFifo gives them.
Pending == [k \in 1 .. Len(calls) - Len(executed) |-> Payload(Len(executed) + k)]
Delivered == [k \in 1 .. Len(executed) |-> [call |-> executed[k].call, args |-> executed[k].args,
                                            data |-> executed[k].data]]

\* A sequence that is one longer, and the same up to there.
LEMMA FunctionAppend ==
  ASSUME NEW S, NEW n \in Nat, NEW s \in [1 .. n -> S], NEW t \in [1 .. n + 1 -> S],
         \A k \in 1 .. n : t[k] = s[k]
  PROVE  t = Append(s, t[n + 1])
<1>1. t \in Seq(S) /\ s \in Seq(S) /\ Len(s) = n /\ Len(t) = n + 1 /\ t[n + 1] \in S
  OBVIOUS
<1>2. /\ Append(s, t[n + 1]) \in Seq(S) /\ Len(Append(s, t[n + 1])) = n + 1
      /\ \A k \in 1 .. n : Append(s, t[n + 1])[k] = s[k]
      /\ Append(s, t[n + 1])[n + 1] = t[n + 1]
  BY <1>1
<1>3. \A k \in 1 .. n + 1 : t[k] = Append(s, t[n + 1])[k]
  BY <1>2
<1> QED  BY <1>1, <1>2, <1>3, SeqEqual

\* A sequence that is one shorter, and lacks the first.
LEMMA FunctionTail ==
  ASSUME NEW S, NEW n \in Nat, NEW s \in [1 .. n + 1 -> S], NEW t \in [1 .. n -> S],
         \A k \in 1 .. n : t[k] = s[k + 1]
  PROVE  t = Tail(s)
<1>1. t \in Seq(S) /\ s \in Seq(S) /\ Len(s) = n + 1 /\ Len(t) = n
  OBVIOUS
<1>2. s # <<>>
  BY <1>1
<1>3. Tail(s) \in Seq(S) /\ Len(Tail(s)) = n /\ \A k \in 1 .. n : Tail(s)[k] = s[k + 1]
  BY <1>1, <1>2, HeadTailProperties
<1>4. \A k \in 1 .. Len(t) : t[k] = Tail(s)[k]
  BY <1>1, <1>3
<1> QED  BY <1>1, <1>2, <1>3, <1>4, SeqEqual

\* A call as the guest means it, whatever the state.
Item(n, f) ==
  [call |-> <<n, 0>>,
   args |-> [m \in 1 .. NumArgs[f] |-> <<n, m>>],
   data |-> [head |-> IF HeadBytes[f] > 0 THEN {<<n, 1>>} ELSE {},
             body |-> IF BodyBytes[f] > 0 THEN {<<n, 2>>} ELSE {}]]

LEMMA PendingIs ==
  /\ Pending = [k \in 1 .. Len(calls) - Len(executed) |->
                  Item(Len(executed) + k, calls[Len(executed) + k].f)]
  /\ Pending' = [k \in 1 .. Len(calls') - Len(executed') |->
                   Item(Len(executed') + k, calls'[Len(executed') + k].f)]
BY DEF Pending, Payload, Item, OwnArgs, OwnData

\* A stutter of the queue: no call, nothing executed.
LEMMA QueueSame ==
  ASSUME UNCHANGED <<calls, executed>>
  PROVE  Pending' = Pending /\ Delivered' = Delivered
BY PendingIs DEF Delivered

\* A recorded call becomes the last one that is pending.
LEMMA QueueAppend ==
  ASSUME IInv, NEW f \in Funcs, Record(f), UNCHANGED executed, Len(calls) < MaxCalls
  PROVE  /\ \E x \in Items : Pending' = Append(Pending, x)
         /\ Delivered' = Delivered
<1> SUFFICES ASSUME NEW e, e = Len(executed), NEW l, l = Len(calls), NEW m, m = l - e
             PROVE  /\ \E x \in Items : Pending' = Append(Pending, x)
                    /\ Delivered' = Delivered
  OBVIOUS
<1>1. /\ Len(calls') = l + 1 /\ l \in Nat /\ e \in Nat
      /\ calls'[l + 1].f = f
      /\ \A n \in 1 .. l : calls'[n] = calls[n]
  BY RecordFacts DEF IInv
<1>2. m \in Nat /\ e + (m + 1) = l + 1 /\ \A k \in 1 .. m : e + k \in 1 .. l
  <2>1. e <= QLast
    BY DEF IInv, ProgressInv
  <2>2. e <= l
    BY <1>1, <2>1 DEF QLast
  <2> QED  BY <1>1, <2>2
<1> DEFINE it(k) == Item(e + k, calls'[e + k].f)
           S == {it(k) : k \in 1 .. m + 1}
<1>3. Pending' = [k \in 1 .. m + 1 |-> it(k)]
  <2>1. Len(calls') - Len(executed') = m + 1 /\ Len(executed') = e
    BY <1>1, <1>2
  <2> QED  BY <2>1, PendingIs
<1>4. Pending = [k \in 1 .. m |-> it(k)]
  <2>1. Pending = [k \in 1 .. m |-> Item(e + k, calls[e + k].f)]
    BY PendingIs
  <2> QED  BY <1>1, <1>2, <2>1
<1>5. it(m + 1) = Item(l + 1, f)
  BY <1>1, <1>2
<1>6. Item(l + 1, f) \in Items
  <2>1. l + 1 \in 1 .. MaxCalls
    BY <1>1, ConstantsAssumption DEF ConstantsAssumption
  <2>2. Items = {Item(n, g) : n \in 1 .. MaxCalls, g \in Funcs}
    BY DEF Item, Items
  <2> QED  BY <2>1, <2>2
<1>7. \A k \in 1 .. m + 1 : it(k) \in S
  OBVIOUS
<1> HIDE DEF it, S
<1>8. Pending \in [1 .. m -> S] /\ Pending' \in [1 .. m + 1 -> S]
  BY <1>2, <1>3, <1>4, <1>7
<1>9. Pending'[m + 1] = Item(l + 1, f) /\ \A k \in 1 .. m : Pending'[k] = Pending[k]
  BY <1>2, <1>3, <1>4, <1>5
<1>10. Pending' = Append(Pending, Pending'[m + 1])
  BY <1>2, <1>8, <1>9, FunctionAppend
<1>11. Delivered' = Delivered
  BY DEF Delivered
<1> QED  BY <1>6, <1>9, <1>10, <1>11

\* What is executed is the first that is pending.
LEMMA QueueDeliver ==
  ASSUME IInv, IInv', Len(executed) < Len(calls), UNCHANGED calls,
         NEW x, executed' = Append(executed, x)
  PROVE  /\ Pending # <<>> /\ Pending' = Tail(Pending)
         /\ Delivered' = Append(Delivered, Head(Pending))
<1> SUFFICES ASSUME NEW e, e = Len(executed), NEW l, l = Len(calls), NEW m, m = l - e - 1
             PROVE  /\ Pending # <<>> /\ Pending' = Tail(Pending)
                    /\ Delivered' = Append(Delivered, Head(Pending))
  OBVIOUS
<1>1. /\ executed \in Seq(Execution) /\ executed' \in Seq(Execution)
      /\ l \in Nat /\ e \in Nat /\ m \in Nat /\ l - e = m + 1 /\ l - (e + 1) = m
  <2>1. executed \in Seq(Execution) /\ executed' \in Seq(Execution) /\ calls \in Seq(CallRecord)
    BY DEF IInv, TypeOK
  <2>2. l \in Nat /\ e \in Nat
    BY <2>1
  <2> QED  BY <2>1, <2>2
<1>2. Len(executed') = e + 1 /\ \A k \in 1 .. e : executed'[k] = executed[k]
  BY <1>1
<1> DEFINE it(k) == Item(e + k, calls[e + k].f)
           S == {it(k) : k \in 1 .. m + 1}
<1>3. Pending = [k \in 1 .. m + 1 |-> it(k)]
  BY <1>1, PendingIs
<1>4. Pending' = [k \in 1 .. m |-> it(k + 1)]
  <2>1. Pending' = [k \in 1 .. m |-> Item((e + 1) + k, calls[(e + 1) + k].f)]
    BY <1>1, <1>2, PendingIs
  <2>2. \A k \in 1 .. m : (e + 1) + k = e + (k + 1)
    BY <1>1
  <2> QED  BY <2>1, <2>2
<1>5. /\ \A k \in 1 .. m + 1 : it(k) \in S
      /\ \A k \in 1 .. m : k + 1 \in 1 .. m + 1 /\ k \in 1 .. m + 1
  BY <1>1
<1>m. m \in Nat
  BY <1>1
<1> HIDE DEF it, S
<1>6. Pending # <<>> /\ Pending' = Tail(Pending) /\ Head(Pending) = it(1)
  <2>1. Pending \in [1 .. m + 1 -> S] /\ Pending' \in [1 .. m -> S]
    BY <1>1, <1>3, <1>4, <1>5
  <2>2. Pending[1] = it(1) /\ \A k \in 1 .. m : Pending'[k] = Pending[k + 1]
    BY <1>1, <1>3, <1>4, <1>5
  <2>3. Pending' = Tail(Pending)
    BY <1>m, <2>1, <2>2, FunctionTail
  <2>4. Pending # <<>>
    BY <1>1, <2>1
  <2>5. Head(Pending) = Pending[1]
    BY <1>1, <2>1, <2>4
  <2> QED  BY <2>2, <2>3, <2>4, <2>5
<1> DEFINE D == [call : WordSet, args : Seq(WordSet),
                 data : [head : SUBSET WordSet, body : SUBSET WordSet]]
           d(r) == [call |-> r.call, args |-> r.args, data |-> r.data]
<1>7. d(executed'[e + 1]) = it(1)
  <2>1. e + 1 \in 1 .. Len(executed') /\ OwnWords' /\ calls' = calls
    BY <1>1, <1>2 DEF IInv
  <2>2. /\ executed'[e + 1].call = <<e + 1, 0>>
        /\ executed'[e + 1].args = [k \in 1 .. NumArgs[calls[e + 1].f] |-> <<e + 1, k>>]
        /\ executed'[e + 1].data =
             [head |-> IF HeadBytes[calls[e + 1].f] > 0 THEN {<<e + 1, 1>>} ELSE {},
              body |-> IF BodyBytes[calls[e + 1].f] > 0 THEN {<<e + 1, 2>>} ELSE {}]
    BY <2>1 DEF OwnWords, OwnArgs, OwnData
  <2> QED  BY <2>2 DEF it, Item
<1>8. /\ Delivered = [k \in 1 .. e |-> d(executed[k])]
      /\ Delivered' = [k \in 1 .. e + 1 |-> d(executed'[k])]
      /\ \A k \in 1 .. e : executed[k] \in Execution
      /\ \A k \in 1 .. e + 1 : executed'[k] \in Execution
  BY <1>1, <1>2 DEF Delivered
<1>9. \A r \in Execution : d(r) \in D
  BY DEF Execution
<1> HIDE DEF d, D
<1>10. Delivered \in [1 .. e -> D] /\ Delivered' \in [1 .. e + 1 -> D]
  BY <1>1, <1>8, <1>9
<1>11. Delivered'[e + 1] = it(1) /\ \A k \in 1 .. e : Delivered'[k] = Delivered[k]
  BY <1>1, <1>2, <1>7, <1>8
<1>12. Delivered' = Append(Delivered, it(1))
  BY <1>1, <1>10, <1>11, FunctionAppend
<1> QED  BY <1>6, <1>12

\* The steps of the queue, in terms of the mapping.
LEMMA QueueActions ==
  /\ \A x \in Items : Q!Post(x) <=> /\ ~(hpc # "guest") /\ Pending' = Append(Pending, x)
                                    /\ Delivered' = Delivered
                                    /\ (hpc # "guest")' = (hpc # "guest")
  /\ \A x \in Items : Q!Wait(x) <=> /\ ~(hpc # "guest") /\ Pending' = Append(Pending, x)
                                    /\ (hpc # "guest")' = TRUE /\ Delivered' = Delivered
  /\ Q!Flush <=> /\ ~(hpc # "guest") /\ (hpc # "guest")' = TRUE
                 /\ Pending' = Pending /\ Delivered' = Delivered
  /\ Q!Deliver <=> /\ hpc # "guest" /\ Pending # <<>>
                   /\ Delivered' = Append(Delivered, Head(Pending)) /\ Pending' = Tail(Pending)
                   /\ (hpc # "guest")' = (hpc # "guest")
  /\ Q!Return <=> /\ hpc # "guest" /\ Pending = <<>> /\ (hpc # "guest")' = FALSE
                  /\ Pending' = Pending /\ Delivered' = Delivered
  /\ UNCHANGED Q!queueVars <=> /\ Pending' = Pending /\ Delivered' = Delivered
                               /\ (hpc # "guest")' = (hpc # "guest")
<1> USE DEF Pending, Delivered
<1>1. ASSUME NEW x \in Items
      PROVE  Q!Post(x) <=> /\ ~(hpc # "guest") /\ Pending' = Append(Pending, x)
                           /\ Delivered' = Delivered
                           /\ (hpc # "guest")' = (hpc # "guest")
  BY DEF Q!Post
<1>2. ASSUME NEW x \in Items
      PROVE  Q!Wait(x) <=> /\ ~(hpc # "guest") /\ Pending' = Append(Pending, x)
                           /\ (hpc # "guest")' = TRUE /\ Delivered' = Delivered
  BY DEF Q!Wait
<1>3. Q!Flush <=> /\ ~(hpc # "guest") /\ (hpc # "guest")' = TRUE
                  /\ Pending' = Pending /\ Delivered' = Delivered
  BY DEF Q!Flush
<1>4. Q!Deliver <=> /\ hpc # "guest" /\ Pending # <<>>
                    /\ Delivered' = Append(Delivered, Head(Pending)) /\ Pending' = Tail(Pending)
                    /\ (hpc # "guest")' = (hpc # "guest")
  BY DEF Q!Deliver
<1>5. Q!Return <=> /\ hpc # "guest" /\ Pending = <<>> /\ (hpc # "guest")' = FALSE
                   /\ Pending' = Pending /\ Delivered' = Delivered
  BY DEF Q!Return
<1>6. UNCHANGED Q!queueVars <=> /\ Pending' = Pending /\ Delivered' = Delivered
                                /\ (hpc # "guest")' = (hpc # "guest")
  BY DEF Q!queueVars
<1> QED  BY <1>1, <1>2, <1>3, <1>4, <1>5, <1>6

\* Nothing waits when all that was made is executed.
LEMMA NothingPending ==
  ASSUME IInv, Len(executed) = Len(calls)
  PROVE  Pending = <<>>
<1>1. Len(calls) - Len(executed) = 0
  BY DEF IInv, TypeOK
<1> QED  BY <1>1 DEF Pending

LEMMA DeliverStep ==
  ASSUME IInv, IInv', hpc # "guest", hpc' # "guest", Len(executed) < Len(calls), UNCHANGED calls,
         NEW w, NEW f, NEW a, NEW d, Execute(w, f, a, d)
  PROVE  Q!Deliver
<1>1. executed' = Append(executed, [call |-> w, args |-> a, data |-> Blocks(f, d), ctx |-> current])
  BY DEF Execute
<1>2. /\ Pending # <<>> /\ Pending' = Tail(Pending)
      /\ Delivered' = Append(Delivered, Head(Pending))
  BY <1>1, QueueDeliver
<1> QED  BY <1>2, QueueActions

LEMMA QueueStep ==
  ASSUME IInv, IInv', Next
  PROVE  Q!Next \/ UNCHANGED Q!queueVars
<1>0. Len(calls) \in Nat /\ Len(executed) \in Nat
  BY DEF IInv, TypeOK
<1>1. ASSUME NEW f \in Funcs, CallQueued(f)  PROVE Q!Next
  <2>1. hpc = "guest" /\ hpc' = "guest" /\ Record(f) /\ executed' = executed /\ Len(calls) < MaxCalls
    BY <1>1 DEF CallQueued, Made, host
  <2>2. PICK x \in Items : Pending' = Append(Pending, x) /\ Delivered' = Delivered
    BY <2>1, QueueAppend
  <2>3. Q!Post(x)
    BY <2>1, <2>2, QueueActions
  <2> QED  BY <2>3 DEF Q!Next
<1>2. ASSUME NEW f \in Funcs, CallTrapped(f)  PROVE Q!Next
  <2>1. hpc = "guest" /\ hpc' # "guest" /\ Record(f) /\ executed' = executed /\ Len(calls) < MaxCalls
    BY <1>2 DEF CallTrapped, Made
  <2>2. PICK x \in Items : Pending' = Append(Pending, x) /\ Delivered' = Delivered
    BY <2>1, QueueAppend
  <2>3. Q!Wait(x)
    BY <2>1, <2>2, QueueActions
  <2> QED  BY <2>3 DEF Q!Next
<1>3. ASSUME NEW f \in Funcs, CallRejected(f)  PROVE UNCHANGED Q!queueVars
  BY <1>3, QueueSame, QueueActions DEF CallRejected, host
<1>4. ASSUME NEW op \in {"flush", "drop"}, MagicWrite(op)  PROVE Q!Next
  <2>1. Q!Flush
    BY <1>4, QueueSame, QueueActions DEF MagicWrite
  <2> QED  BY <2>1 DEF Q!Next
<1>5. CASE MakeCurrent
  BY <1>5, QueueSame, QueueActions DEF MakeCurrent, host
<1>6. CASE DrainOne
  <2>1. hpc = "drain" /\ hpc' = "drain" /\ i < depth /\ UNCHANGED calls
    BY <1>6 DEF DrainOne
  <2>2. Len(executed) < Len(calls)
    <3>1. QFirst > QLast => i = depth
      BY <2>1 DEF IInv, ChainInv, Start
    <3>2. i \in Nat /\ depth \in Nat
      BY ConstantsAssumption DEF IInv, TypeOK, ConstantsAssumption
    <3> QED  BY <1>0, <2>1, <3>1, <3>2 DEF QFirst, QLast
  <2>3. PICK w, f, a, d : Execute(w, f, a, d)
    BY <1>6 DEF DrainOne
  <2>4. Q!Deliver
    BY <2>1, <2>2, <2>3, DeliverStep
  <2> QED  BY <2>4 DEF Q!Next
<1>7. CASE DrainDone
  <2>1. hpc = "drain" /\ i >= depth /\ UNCHANGED <<calls, executed>>
    BY <1>7 DEF DrainDone
  <2>2. CASE hop = "call"
    BY <1>7, <2>1, <2>2, QueueSame, QueueActions DEF DrainDone
  <2>3. CASE hop # "call"
    <3>1. hpc' = "guest"
      BY <1>7, <2>3 DEF DrainDone
    <3>2. Len(executed) = Len(calls)
      BY <2>1, <2>3, DrainEnd DEF QLast, Trapping
    <3>3. Q!Return
      BY <2>1, <3>1, <3>2, NothingPending, QueueSame, QueueActions
    <3> QED  BY <3>3 DEF Q!Next
  <2> QED  BY <2>2, <2>3
<1>8. CASE ExecTrapped
  <2>1. hpc = "call" /\ hpc' = "reply" /\ UNCHANGED calls
    BY <1>8 DEF ExecTrapped
  <2>2. Len(executed) < Len(calls)
    BY <1>0, <2>1 DEF IInv, ProgressInv
  <2>3. PICK w, f, a, d : Execute(w, f, a, d)
    BY <1>8 DEF ExecTrapped
  <2>4. Q!Deliver
    BY <2>1, <2>2, <2>3, DeliverStep
  <2> QED  BY <2>4 DEF Q!Next
<1>9. CASE Return
  <2>1. hpc = "reply" /\ hpc' = "guest" /\ UNCHANGED <<calls, executed>>
    BY <1>9 DEF Return
  <2>2. Len(executed) = Len(calls)
    BY <2>1 DEF IInv, ProgressInv
  <2>3. Q!Return
    BY <2>1, <2>2, NothingPending, QueueSame, QueueActions
  <2> QED  BY <2>3 DEF Q!Next
<1> QED  BY <1>1, <1>2, <1>3, <1>4, <1>5, <1>6, <1>7, <1>8, <1>9 DEF Next, Guest, Host

\* Every step of the stubs and of the device is a step of the abstract queue or
\* leaves it alone: for any table of functions and any sizes, calls reach the
\* library once, in order and with their own words, and no waiting call returns
\* before the earlier ones were executed.
THEOREM ImplementsQueue ==
  ASSUME ArgsFit, DataFits, Lawful
  PROVE  SafeSpec => Q!SafeSpec
<1>1. Init => Q!Init
  <2> SUFFICES ASSUME Init  PROVE Q!Init
    OBVIOUS
  <2>1. IInv /\ Len(executed) = Len(calls) /\ Len(executed) = 0 /\ hpc = "guest"
    BY InitIInv DEF Init
  <2>2. Pending = <<>> /\ Delivered = <<>>
    BY <2>1, NothingPending DEF Delivered
  <2> QED  BY <2>1, <2>2 DEF Q!Init, Pending, Delivered
<1>2. IInv /\ IInv' /\ [Next]_vars => [Q!Next]_(Q!queueVars)
  <2>1. ASSUME IInv, UNCHANGED vars  PROVE UNCHANGED Q!queueVars
    BY <2>1, QueueSame, QueueActions DEF vars, host
  <2> QED  BY <2>1, QueueStep
<1> QED  BY <1>1, <1>2, Inductive, PTL DEF SafeSpec, Q!SafeSpec
===============================================================================
