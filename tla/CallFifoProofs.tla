---------------------------- MODULE CallFifoProofs ----------------------------
(***************************************************************************)
(* Proofs about CallFifo for every set of functions, every size of the     *)
(* FIFO and of the data area, and every number of calls.                   *)
(***************************************************************************)
EXTENDS CallFifo, TLAPS

-----------------------------------------------------------------------------
(* What the constants have to satisfy.                                     *)

\* The arguments of a call fit between pt[1] and the FIFO.
ArgsFit == \A f \in Funcs : NumArgs[f] + 1 < FirstFifo

\* A call whose data starts below MAX_DATA ends inside the mapped window.
DataFits ==
  /\ MaxData <= Window + 1
  /\ \A f \in Funcs : MaxData + NumData(f) <= Window + 1

\* Data is sent only to a device that will execute the call.
Lawful == GuestObeysGL \/ ~Gated

-----------------------------------------------------------------------------
(* The inductive invariant.                                                *)

End(n) == calls[n].at + 1 + NumArgs[calls[n].f]
DataEnd(n) == calls[n].data + NumData(calls[n].f)

\* Where the words of the queued calls start and end: the handler's position
\* while it drains, the beginning of the areas otherwise.
Start == IF hpc = "drain" THEN i ELSE FirstFifo
DataStart == IF hpc = "drain" THEN j ELSE DataBase
DataTop == IF Trapping THEN calls[Len(calls)].data ELSE dtop

\* How far the handler is.
ProgressInv ==
  /\ Len(executed) <= QLast
  /\ Trapping => Len(calls) >= 1
  /\ hpc = "call" => hop = "call" /\ Len(executed) + 1 = Len(calls)
  /\ hpc = "reply" => Len(executed) = Len(calls)
  /\ hpc \in {"call", "reply"} => depth = FirstFifo
  /\ hpc = "call" => j = calls[Len(calls)].data

\* The queued calls lie one after the other, from Start to depth, and their data
\* from DataStart to DataTop.
ChainInv ==
  hpc \in {"guest", "drain"} =>
    /\ QFirst > QLast => Start = depth /\ DataStart = DataTop
    /\ QFirst <= QLast =>
         /\ calls[QFirst].at = Start /\ calls[QFirst].data = DataStart
         /\ End(QLast) = depth /\ DataEnd(QLast) = DataTop
    /\ \A n \in QFirst .. QLast - 1 :
         calls[n + 1].at = End(n) /\ calls[n + 1].data = DataEnd(n)

\* They lie inside the areas.
BoundsInv ==
  /\ \A n \in QFirst .. QLast :
       /\ FirstFifo <= calls[n].at /\ End(n) <= depth
       /\ DataEnd(n) <= DataTop
  /\ \A n \in QFirst .. Len(calls) :
       DataBase <= calls[n].data /\ calls[n].data % 2 = 0
  /\ hpc = "guest" => dtop < MaxData
  /\ hpc \in {"guest", "drain"} => DataBase <= dtop /\ dtop % 2 = 0
  /\ dtop <= Window
  /\ Trapping =>
       /\ calls[Len(calls)].data < MaxData
       /\ hpc = "drain" => dtop = DataEnd(Len(calls))
  /\ depth < MaxFifo

HoldsEntry(n) == \A m \in 0 .. NumArgs[calls[n].f] : mfifo[calls[n].at + m] = <<n, m>>

HoldsData(n) ==
  LET d == calls[n].data
      f == calls[n].f
  IN  /\ \A p \in d .. d + Words(HeadBytes[f]) - 1 : mdata[p] = <<n, 1>>
      /\ \A p \in BodyAt(f, d) .. BodyAt(f, d) + Words(BodyBytes[f]) - 1 : mdata[p] = <<n, 2>>

\* Their words are still the ones the guest wrote.
MemoryInv ==
  /\ \A n \in QFirst .. QLast : HoldsEntry(n)
  /\ \A n \in QFirst .. Len(calls) : HoldsData(n)
  /\ Trapping => \A m \in 1 .. NumArgs[calls[Len(calls)].f] : argv[m + 1] = <<Len(calls), m>>

IInv == TypeOK /\ ProgressInv /\ ChainInv /\ BoundsInv /\ MemoryInv /\ OwnWords

-----------------------------------------------------------------------------
(* The sizes.  These lemmas are about numbers only.                        *)

LEMMA WordsType ==
  ASSUME NEW cb \in Nat
  PROVE  Words(cb) \in Nat /\ (cb = 0 => Words(cb) = 0) /\ (cb > 0 => Words(cb) > 0)
  BY DEF Words

LEMMA AlignedWords ==
  ASSUME NEW cb \in Nat
  PROVE  /\ Aligned(cb) \in Nat /\ Aligned(cb) % 8 = 0
         /\ Words(Aligned(cb)) \in Nat /\ Words(Aligned(cb)) % 2 = 0
         /\ Words(cb) <= Words(Aligned(cb))
         /\ 4 * Words(Aligned(cb)) = Aligned(cb)
  BY DEF Words, Aligned

\* The guest rounds its pointer up to an even word after each block, the host
\* rounds each block up to 8 bytes: from an even word these agree.
LEMMA Rounding ==
  ASSUME NEW p \in Nat, p % 2 = 0, NEW cb \in Nat
  PROVE  AddData(p, cb) = p + Words(Aligned(cb))
  BY DEF AddData, Words, Aligned

\* The words of two rounded blocks are the words of their sum.
LEMMA WordsSum ==
  ASSUME NEW a \in Nat, NEW b \in Nat, a % 8 = 0, b % 8 = 0
  PROVE  Words(a + b) = Words(a) + Words(b)
  BY DEF Words

\* The sizes of one function's data, all that the steps below need of them.
LEMMA Sizes ==
  ASSUME NEW f \in Funcs
  PROVE  /\ NumArgs[f] \in Nat
         /\ Words(HeadBytes[f]) \in Nat /\ Words(BodyBytes[f]) \in Nat
         /\ HeadBytes[f] \in Nat /\ BodyBytes[f] \in Nat
         /\ HeadBytes[f] = 0 => Words(HeadBytes[f]) = 0
         /\ HeadBytes[f] > 0 => Words(HeadBytes[f]) > 0
         /\ BodyBytes[f] = 0 => Words(BodyBytes[f]) = 0
         /\ BodyBytes[f] > 0 => Words(BodyBytes[f]) > 0
         /\ NumData(f) \in Nat
         /\ ~HasData(f) => NumData(f) = 0
         /\ \A d \in Nat : d % 2 = 0 =>
              /\ BodyAt(f, d) \in Nat
              /\ AddData(d, HeadBytes[f]) = BodyAt(f, d)
              /\ AddData(BodyAt(f, d), BodyBytes[f]) = d + NumData(f)
              /\ d + Words(HeadBytes[f]) <= BodyAt(f, d)
              /\ BodyAt(f, d) + Words(BodyBytes[f]) <= d + NumData(f)
              /\ (d + NumData(f)) % 2 = 0
<1> DEFINE h == HeadBytes[f]
           b == BodyBytes[f]
<1>1. h \in Nat /\ b \in Nat /\ NumArgs[f] \in Nat
  BY ConstantsAssumption DEF ConstantsAssumption
<1>2. /\ Words(h) \in Nat /\ (h = 0 => Words(h) = 0) /\ (h > 0 => Words(h) > 0)
      /\ Words(b) \in Nat /\ (b = 0 => Words(b) = 0) /\ (b > 0 => Words(b) > 0)
  BY <1>1, WordsType
<1>3. /\ Words(Aligned(h)) \in Nat /\ Words(Aligned(h)) % 2 = 0
      /\ Words(h) <= Words(Aligned(h))
      /\ Words(Aligned(b)) \in Nat /\ Words(Aligned(b)) % 2 = 0
      /\ Words(b) <= Words(Aligned(b))
  BY <1>1, AlignedWords
<1>4. NumData(f) = Words(Aligned(h)) + Words(Aligned(b))
  BY <1>1, AlignedWords, WordsSum DEF NumData, DataCb
<1>5. ~HasData(f) => NumData(f) = 0
  <2>1. Words(Aligned(0)) = 0
    BY DEF Words, Aligned
  <2> QED  BY <1>1, <1>4, <2>1 DEF HasData
<1>6. ASSUME NEW d \in Nat, d % 2 = 0
      PROVE  /\ BodyAt(f, d) \in Nat
             /\ AddData(d, h) = BodyAt(f, d)
             /\ AddData(BodyAt(f, d), b) = d + NumData(f)
             /\ d + Words(h) <= BodyAt(f, d)
             /\ BodyAt(f, d) + Words(b) <= d + NumData(f)
             /\ (d + NumData(f)) % 2 = 0
  <2> DEFINE e == BodyAt(f, d)
  <2>1. e = d + Words(Aligned(h))
    BY DEF BodyAt
  <2>2. e \in Nat /\ e % 2 = 0
    BY <2>1, <1>3, <1>6
  <2>3. AddData(d, h) = e
    BY <2>1, <1>1, <1>6, Rounding
  <2>4. AddData(e, b) = e + Words(Aligned(b))
    BY <2>2, <1>1, Rounding
  <2> HIDE DEF e
  <2> QED  BY <2>1, <2>2, <2>3, <2>4, <1>2, <1>3, <1>4, <1>6 DEF e
<1>7. NumData(f) \in Nat
  BY <1>3, <1>4
<1> QED  BY <1>1, <1>2, <1>5, <1>6, <1>7

-----------------------------------------------------------------------------
(* What the stub leaves in the data area.                                  *)

LEMMA CopyFacts ==
  ASSUME TypeOK, NEW f \in Funcs, NEW n \in Nat, CopyData(f, n),
         dtop % 2 = 0, dtop + NumData(f) <= Window
  PROVE  /\ dtop' = dtop + NumData(f) /\ dtop' \in Nat /\ dtop' % 2 = 0
         /\ mdata' \in [0 .. Window - 1 -> WordSet]
         /\ \A p \in 0 .. dtop - 1 : mdata'[p] = mdata[p]
         /\ \A p \in dtop .. dtop + Words(HeadBytes[f]) - 1 : mdata'[p] = <<n, 1>>
         /\ \A p \in BodyAt(f, dtop) .. BodyAt(f, dtop) + Words(BodyBytes[f]) - 1 :
              mdata'[p] = <<n, 2>>
<1>1. dtop \in Nat /\ Window \in Nat /\ mdata \in [0 .. Window - 1 -> WordSet]
  BY ConstantsAssumption DEF TypeOK, ConstantsAssumption
<1>2. /\ Words(HeadBytes[f]) \in Nat /\ Words(BodyBytes[f]) \in Nat /\ NumData(f) \in Nat
      /\ BodyAt(f, dtop) \in Nat
      /\ AddData(dtop, HeadBytes[f]) = BodyAt(f, dtop)
      /\ AddData(BodyAt(f, dtop), BodyBytes[f]) = dtop + NumData(f)
      /\ dtop + Words(HeadBytes[f]) <= BodyAt(f, dtop)
      /\ BodyAt(f, dtop) + Words(BodyBytes[f]) <= dtop + NumData(f)
      /\ (dtop + NumData(f)) % 2 = 0
  BY <1>1, Sizes
<1> DEFINE e == BodyAt(f, dtop)
           wh == Words(HeadBytes[f])
           wb == Words(BodyBytes[f])
<1>3. /\ dtop' = dtop + NumData(f)
      /\ mdata' = [p \in 0 .. Window - 1 |->
                     IF p \in dtop .. dtop + wh - 1 THEN <<n, 1>>
                     ELSE IF p \in e .. e + wb - 1 THEN <<n, 2>>
                     ELSE mdata[p]]
  BY <1>1, <1>2 DEF CopyData
<1>4. <<n, 1>> \in WordSet /\ <<n, 2>> \in WordSet
  BY DEF WordSet
<1> HIDE DEF e, wh, wb
<1>5. mdata' \in [0 .. Window - 1 -> WordSet]
  BY <1>1, <1>3, <1>4
<1>6. e \in Nat /\ wh \in Nat /\ wb \in Nat /\ dtop + wh <= e /\ e + wb <= dtop + NumData(f)
  BY <1>2 DEF e, wh, wb
<1>7. \A p \in 0 .. dtop - 1 : mdata'[p] = mdata[p]
  BY <1>1, <1>2, <1>3, <1>6
<1>8. \A p \in dtop .. dtop + wh - 1 : mdata'[p] = <<n, 1>>
  BY <1>1, <1>2, <1>3, <1>6
<1>9. \A p \in e .. e + wb - 1 : mdata'[p] = <<n, 2>>
  BY <1>1, <1>2, <1>3, <1>6
<1>10. dtop' = dtop + NumData(f) /\ dtop' \in Nat /\ dtop' % 2 = 0
  BY <1>1, <1>2, <1>3
<1>11. \A p \in dtop .. dtop + Words(HeadBytes[f]) - 1 : mdata'[p] = <<n, 1>>
  BY <1>8 DEF wh
<1>12. \A p \in BodyAt(f, dtop) .. BodyAt(f, dtop) + Words(BodyBytes[f]) - 1 :
         mdata'[p] = <<n, 2>>
  BY <1>9 DEF e, wb
<1> QED  BY <1>5, <1>7, <1>10, <1>11, <1>12
-----------------------------------------------------------------------------
(* Records of calls.                                                       *)

LEMMA CallFacts ==
  ASSUME TypeOK, NEW n \in 1 .. Len(calls)
  PROVE  /\ calls[n] \in CallRecord /\ calls[n].f \in Funcs
         /\ calls[n].at \in Nat /\ calls[n].data \in Nat /\ calls[n].ctx \in Nat
         /\ NumArgs[calls[n].f] \in Nat /\ NumData(calls[n].f) \in Nat
         /\ End(n) \in Nat /\ DataEnd(n) \in Nat
<1>1. calls[n] \in CallRecord
  BY DEF TypeOK
<1>2. calls[n].f \in Funcs /\ calls[n].at \in Nat /\ calls[n].data \in Nat /\ calls[n].ctx \in Nat
  BY <1>1 DEF CallRecord
<1>3. NumArgs[calls[n].f] \in Nat /\ NumData(calls[n].f) \in Nat
  BY <1>2, Sizes
<1>4. End(n) \in Nat
  BY SMTT(30), <1>2, <1>3 DEF End
<1>5. DataEnd(n) \in Nat
  BY <1>2, <1>3 DEF DataEnd
<1> QED  BY <1>1, <1>2, <1>3, <1>4, <1>5

LEMMA AppendFacts ==
  ASSUME NEW S, NEW s \in Seq(S), NEW r \in S
  PROVE  /\ Append(s, r) \in Seq(S)
         /\ Len(s) \in Nat
         /\ Len(Append(s, r)) = Len(s) + 1
         /\ Append(s, r)[Len(s) + 1] = r
         /\ \A n \in 1 .. Len(s) : Append(s, r)[n] = s[n]
  OBVIOUS

\* What Record adds.
LEMMA RecordFacts ==
  ASSUME TypeOK, NEW f \in Funcs, Record(f)
  PROVE  /\ calls' \in Seq(CallRecord)
         /\ Len(calls) \in Nat /\ Len(executed) \in Nat
         /\ Len(calls') = Len(calls) + 1
         /\ calls'[Len(calls) + 1].f = f
         /\ calls'[Len(calls) + 1].at = depth
         /\ calls'[Len(calls) + 1].data = dtop
         /\ \A n \in 1 .. Len(calls) : calls'[n] = calls[n]
<1> DEFINE r == [f |-> f, at |-> depth, data |-> dtop, ctx |-> current]
<1>1. r \in CallRecord
  BY ConstantsAssumption DEF CallRecord, TypeOK, ConstantsAssumption
<1>2. calls \in Seq(CallRecord) /\ calls' = Append(calls, r) /\ Len(executed) \in Nat
  BY DEF TypeOK, Record
<1>3. r.f = f /\ r.at = depth /\ r.data = dtop
  OBVIOUS
<1> HIDE DEF r
<1> QED  BY <1>1, <1>2, <1>3, AppendFacts

\* What AddEntry and StoreArgs leave in the FIFO.
LEMMA EntryFacts ==
  ASSUME TypeOK, NEW f \in Funcs, NEW n \in Nat, AddEntry(f, n),
         depth + NumArgs[f] + 1 < MaxFifo
  PROVE  /\ mfifo' \in [FirstFifo .. MaxFifo - 1 -> WordSet]
         /\ depth' = depth + 1 + NumArgs[f] /\ depth' \in FirstFifo .. MaxFifo
         /\ \A m \in FirstFifo .. depth - 1 : mfifo'[m] = mfifo[m]
         /\ \A m \in 0 .. NumArgs[f] : mfifo'[depth + m] = <<n, m>>
<1>1. /\ FirstFifo \in Nat /\ MaxFifo \in Nat /\ depth \in Nat /\ FirstFifo <= depth
      /\ NumArgs[f] \in Nat /\ mfifo \in [FirstFifo .. MaxFifo - 1 -> WordSet]
  BY ConstantsAssumption, Sizes DEF TypeOK, ConstantsAssumption
<1>2. /\ depth' = depth + 1 + NumArgs[f]
      /\ mfifo' = [m \in FirstFifo .. MaxFifo - 1 |->
                     IF m \in depth .. depth + NumArgs[f] THEN <<n, m - depth>> ELSE mfifo[m]]
  BY <1>1 DEF AddEntry
<1>3. \A m \in depth .. depth + NumArgs[f] : <<n, m - depth>> \in WordSet
  BY <1>1 DEF WordSet
<1>4. mfifo' \in [FirstFifo .. MaxFifo - 1 -> WordSet]
  BY <1>1, <1>2, <1>3
<1>5. \A m \in FirstFifo .. depth - 1 : mfifo'[m] = mfifo[m]
  BY <1>1, <1>2
<1>6. ASSUME NEW m \in 0 .. NumArgs[f]  PROVE mfifo'[depth + m] = <<n, m>>
  <2>1. depth + m \in FirstFifo .. MaxFifo - 1 /\ depth + m \in depth .. depth + NumArgs[f]
    BY <1>1
  <2>2. mfifo'[depth + m] = <<n, (depth + m) - depth>>
    BY <1>2, <2>1
  <2>3. (depth + m) - depth = m
    BY <1>1
  <2> QED  BY <2>2, <2>3
<1>7. depth' = depth + 1 + NumArgs[f] /\ depth' \in FirstFifo .. MaxFifo
  BY SMTT(30), <1>1, <1>2
<1> QED  BY <1>4, <1>5, <1>6, <1>7

LEMMA ArgvFacts ==
  ASSUME TypeOK, ArgsFit, NEW f \in Funcs, NEW n \in Nat, StoreArgs(f, n)
  PROVE  /\ argv' \in [2 .. FirstFifo - 1 -> WordSet]
         /\ \A m \in 1 .. NumArgs[f] : argv'[m + 1] = <<n, m>>
<1>1. /\ FirstFifo \in Nat /\ NumArgs[f] \in Nat /\ NumArgs[f] + 1 < FirstFifo
      /\ argv \in [2 .. FirstFifo - 1 -> WordSet]
  BY ConstantsAssumption, Sizes DEF TypeOK, ConstantsAssumption, ArgsFit
<1>2. argv' = [m \in 2 .. FirstFifo - 1 |->
                 IF m - 1 \in 1 .. NumArgs[f] THEN <<n, m - 1>> ELSE argv[m]]
  BY <1>1 DEF StoreArgs
<1>3. \A m \in 2 .. FirstFifo - 1 : m - 1 \in 1 .. NumArgs[f] => <<n, m - 1>> \in WordSet
  BY <1>1 DEF WordSet
<1>4. argv' \in [2 .. FirstFifo - 1 -> WordSet]
  BY <1>1, <1>2, <1>3
<1>5. ASSUME NEW m \in 1 .. NumArgs[f]  PROVE argv'[m + 1] = <<n, m>>
  <2>1. m + 1 \in 2 .. FirstFifo - 1 /\ (m + 1) - 1 = m
    BY <1>1
  <2> QED  BY <1>2, <2>1
<1> QED  BY <1>4, <1>5

-----------------------------------------------------------------------------
(* What a call of the guest does to the calls that are already queued.     *)

\* The words of an earlier call survive a copy that starts above them.
LEMMA KeepData ==
  ASSUME TypeOK, NEW n \in 1 .. Len(calls), HoldsData(n),
         calls[n].data % 2 = 0, DataEnd(n) <= dtop,
         calls'[n] = calls[n], \A p \in 0 .. dtop - 1 : mdata'[p] = mdata[p]
  PROVE  HoldsData(n)'
<1> DEFINE d == calls[n].data
           f == calls[n].f
           wh == Words(HeadBytes[f])
           wb == Words(BodyBytes[f])
           e == BodyAt(f, d)
<1>1. f \in Funcs /\ d \in Nat /\ dtop \in Nat
  BY CallFacts DEF TypeOK
<1>2. /\ wh \in Nat /\ wb \in Nat /\ e \in Nat
      /\ d + wh <= e /\ e + wb <= d + NumData(f) /\ NumData(f) \in Nat
  BY <1>1, Sizes
<1>3. d + NumData(f) <= dtop
  BY DEF DataEnd
<1>4. /\ \A p \in d .. d + wh - 1 : mdata[p] = <<n, 1>>
      /\ \A p \in e .. e + wb - 1 : mdata[p] = <<n, 2>>
  BY DEF HoldsData
<1>5. HoldsData(n)' <=> /\ \A p \in d .. d + wh - 1 : mdata'[p] = <<n, 1>>
                        /\ \A p \in e .. e + wb - 1 : mdata'[p] = <<n, 2>>
  BY DEF HoldsData, BodyAt
<1> HIDE DEF d, f, wh, wb, e
<1>6. \A p \in d .. d + wh - 1 : p \in 0 .. dtop - 1
  BY <1>1, <1>2, <1>3
<1>7. \A p \in e .. e + wb - 1 : p \in 0 .. dtop - 1
  BY SMTT(30), <1>1, <1>2, <1>3
<1> QED  BY <1>4, <1>5, <1>6, <1>7

LEMMA KeepEntry ==
  ASSUME TypeOK, NEW n \in 1 .. Len(calls), HoldsEntry(n),
         FirstFifo <= calls[n].at, End(n) <= depth,
         calls'[n] = calls[n], \A m \in FirstFifo .. depth - 1 : mfifo'[m] = mfifo[m]
  PROVE  HoldsEntry(n)'
<1>1. calls[n].at \in Nat /\ NumArgs[calls[n].f] \in Nat /\ depth \in Nat /\ FirstFifo \in Nat
  BY CallFacts, ConstantsAssumption DEF TypeOK, ConstantsAssumption
<1>2. \A m \in 0 .. NumArgs[calls[n].f] : calls[n].at + m \in FirstFifo .. depth - 1
  BY <1>1 DEF End
<1> QED  BY <1>2 DEF HoldsEntry

\* The history of what was executed is not touched by a call of the guest.
LEMMA KeepOwn ==
  ASSUME OwnWords, executed' = executed,
         \A k \in 1 .. Len(executed) : calls'[k] = calls[k]
  PROVE  OwnWords'
<1>1. ASSUME NEW k \in 1 .. Len(executed)
      PROVE  OwnArgs(k)' = OwnArgs(k) /\ OwnData(k)' = OwnData(k)
  BY DEF OwnArgs, OwnData
<1> QED  BY <1>1 DEF OwnWords

-----------------------------------------------------------------------------
(* The invariant is inductive: one lemma for each action.                  *)

\* What every call of the guest starts from.
LEMMA GuestFacts ==
  ASSUME IInv, hpc = "guest"
  PROVE  /\ QFirst = Len(executed) + 1 /\ QLast = Len(calls) /\ ~Trapping
         /\ Start = FirstFifo /\ DataStart = DataBase /\ DataTop = dtop
         /\ dtop < MaxData /\ DataBase <= dtop /\ dtop \in Nat /\ dtop % 2 = 0
         /\ Len(calls) \in Nat /\ Len(executed) \in Nat /\ Len(executed) <= Len(calls)
         /\ depth \in Nat /\ FirstFifo \in Nat /\ MaxFifo \in Nat /\ MaxData \in Nat
         /\ Window \in Nat
<1>1. ~Trapping
  BY DEF Trapping
<1>2. QFirst = Len(executed) + 1 /\ QLast = Len(calls)
  BY <1>1 DEF QFirst, QLast
<1> QED  BY <1>1, <1>2, ConstantsAssumption
         DEF Start, DataStart, DataTop, IInv, BoundsInv, ProgressInv, TypeOK, ConstantsAssumption

LEMMA CallQueuedStep ==
  ASSUME IInv, ArgsFit, DataFits, NEW f \in Funcs, CallQueued(f)
  PROVE  IInv'
<1> SUFFICES ASSUME NEW N \in Nat, N = Len(calls) + 1  PROVE IInv'
  BY DEF IInv, TypeOK
<1>0. hpc = "guest" /\ hpc' = "guest" /\ TypeOK
  BY DEF CallQueued, Made, IInv, host
<1>1. /\ QFirst = Len(executed) + 1 /\ QLast = Len(calls) /\ ~Trapping
      /\ Start = FirstFifo /\ DataStart = DataBase /\ DataTop = dtop
      /\ dtop < MaxData /\ DataBase <= dtop /\ dtop \in Nat /\ dtop % 2 = 0
      /\ Len(calls) \in Nat /\ Len(executed) \in Nat /\ Len(executed) <= Len(calls)
      /\ depth \in Nat /\ FirstFifo \in Nat /\ MaxFifo \in Nat /\ MaxData \in Nat
      /\ Window \in Nat
  BY <1>0, GuestFacts
<1>2. UNCHANGED <<hpc, hop, i, j, current, contexts, executed>>
  BY DEF CallQueued, host, context
<1>3. /\ calls' \in Seq(CallRecord)
      /\ Len(calls') = N
      /\ calls'[N].f = f /\ calls'[N].at = depth /\ calls'[N].data = dtop
      /\ \A n \in 1 .. Len(calls) : calls'[n] = calls[n]
  BY <1>0, RecordFacts DEF CallQueued
<1>4. NumData(f) \in Nat /\ NumArgs[f] \in Nat /\ dtop + NumData(f) <= Window
  <2>1. NumData(f) \in Nat /\ NumArgs[f] \in Nat
    BY Sizes
  <2>2. MaxData + NumData(f) <= Window + 1
    BY DEF DataFits
  <2> QED  BY <1>1, <2>1, <2>2
<1>5. /\ dtop' = dtop + NumData(f) /\ dtop' \in Nat /\ dtop' % 2 = 0
      /\ mdata' \in [0 .. Window - 1 -> WordSet]
      /\ \A p \in 0 .. dtop - 1 : mdata'[p] = mdata[p]
      /\ \A p \in dtop .. dtop + Words(HeadBytes[f]) - 1 : mdata'[p] = <<N, 1>>
      /\ \A p \in BodyAt(f, dtop) .. BodyAt(f, dtop) + Words(BodyBytes[f]) - 1 :
           mdata'[p] = <<N, 2>>
  <2>1. CopyData(f, N)
    BY DEF CallQueued
  <2> QED  BY <1>0, <1>1, <1>4, <2>1, CopyFacts
<1>6. depth + NumArgs[f] + 1 < MaxFifo /\ dtop' < MaxData
  BY DEF CallQueued, Room
<1>7. /\ mfifo' \in [FirstFifo .. MaxFifo - 1 -> WordSet]
      /\ depth' = depth + 1 + NumArgs[f] /\ depth' \in FirstFifo .. MaxFifo
      /\ \A m \in FirstFifo .. depth - 1 : mfifo'[m] = mfifo[m]
      /\ \A m \in 0 .. NumArgs[f] : mfifo'[depth + m] = <<N, m>>
  <2>1. AddEntry(f, N)
    BY DEF CallQueued
  <2> QED  BY <1>0, <1>4, <1>6, <2>1, EntryFacts
<1>8. argv' \in [2 .. FirstFifo - 1 -> WordSet]
  <2>1. StoreArgs(f, N)
    BY DEF CallQueued
  <2> QED  BY <1>0, <1>4, <2>1, ArgvFacts
<1>9. TypeOK'
  BY <1>0, <1>2, <1>3, <1>5, <1>7, <1>8 DEF TypeOK
<1>10. /\ QFirst' = QFirst /\ QLast' = N /\ ~Trapping'
       /\ Start' = Start /\ DataStart' = DataStart /\ DataTop' = dtop'
  BY <1>0, <1>1, <1>2, <1>3 DEF QFirst, QLast, Trapping, Start, DataStart, DataTop
<1>11. /\ \A n \in QFirst .. Len(calls) :
            /\ n \in 1 .. Len(calls) /\ calls'[n] = calls[n]
            /\ End(n)' = End(n) /\ DataEnd(n)' = DataEnd(n)
            /\ End(n) \in Nat /\ DataEnd(n) \in Nat
       /\ End(N)' = depth' /\ DataEnd(N)' = dtop'
  <2>1. ASSUME NEW n \in QFirst .. Len(calls)
        PROVE  n \in 1 .. Len(calls) /\ calls'[n] = calls[n]
    BY <1>1, <1>3
  <2>2. ASSUME NEW n \in QFirst .. Len(calls)
        PROVE  /\ End(n)' = End(n) /\ DataEnd(n)' = DataEnd(n)
               /\ End(n) \in Nat /\ DataEnd(n) \in Nat
    BY <1>0, <2>1, CallFacts DEF End, DataEnd
  <2>3. End(N)' = depth' /\ DataEnd(N)' = dtop'
    BY <1>3, <1>5, <1>7 DEF End, DataEnd
  <2> QED  BY <2>1, <2>2, <2>3
<1>12. ProgressInv'
  BY <1>0, <1>1, <1>2, <1>3, <1>10 DEF ProgressInv, IInv, QFirst
<1>13. ChainInv'
  <2>1. /\ QFirst > Len(calls) => FirstFifo = depth /\ DataBase = dtop
        /\ QFirst <= Len(calls) =>
             /\ calls[QFirst].at = FirstFifo /\ calls[QFirst].data = DataBase
             /\ End(Len(calls)) = depth /\ DataEnd(Len(calls)) = dtop
        /\ \A n \in QFirst .. Len(calls) - 1 :
             calls[n + 1].at = End(n) /\ calls[n + 1].data = DataEnd(n)
    BY <1>0, <1>1 DEF ChainInv, IInv
  <2>2. QFirst \in Nat /\ QFirst <= N /\ (QFirst = N \/ QFirst <= Len(calls))
    BY <1>1
  <2>3. calls'[QFirst].at = FirstFifo /\ calls'[QFirst].data = DataBase
    BY <1>1, <1>3, <1>11, <2>1, <2>2
  <2>4. ASSUME NEW n \in QFirst .. N - 1
        PROVE  calls'[n + 1].at = End(n)' /\ calls'[n + 1].data = DataEnd(n)'
    <3>1. CASE n = Len(calls)
      BY <1>1, <1>3, <1>11, <2>1, <3>1
    <3>2. CASE n # Len(calls)
      <4>1. n \in QFirst .. Len(calls) - 1 /\ n + 1 \in QFirst .. Len(calls)
        BY <1>1, <2>2, <3>2
      <4> QED  BY SMTT(30), <1>1, <1>11, <2>1, <2>2, <4>1
    <3> QED  BY <3>1, <3>2
  <2> QED  BY <1>0, <1>1, <1>10, <1>11, <2>2, <2>3, <2>4 DEF ChainInv
<1>14. BoundsInv'
  <2>1. \A n \in QFirst .. Len(calls) :
          /\ FirstFifo <= calls[n].at /\ End(n) <= depth /\ DataEnd(n) <= dtop
          /\ DataBase <= calls[n].data /\ calls[n].data % 2 = 0
    BY <1>1 DEF IInv, BoundsInv
  <2>2. FirstFifo <= depth /\ DataBase \in Nat
    BY <1>0 DEF TypeOK, DataBase
  <2>3. \A n \in QFirst .. N : n \in QFirst .. Len(calls) \/ n = N
    BY <1>1
  <2>4. depth \in Nat /\ dtop \in Nat /\ NumArgs[f] \in Nat /\ NumData(f) \in Nat
    BY <1>1, <1>4
  <2>5. depth' = depth + 1 + NumArgs[f] /\ dtop' = dtop + NumData(f)
    BY <1>5, <1>7
  <2>6. depth <= depth' /\ dtop <= dtop' /\ depth' \in Nat /\ dtop' \in Nat
    BY <2>4, <2>5
  <2>7. depth' < MaxFifo
    <3>1. depth' = depth + NumArgs[f] + 1
      BY SMTT(30), <2>4, <2>5
    <3> QED  BY <1>6, <3>1
  <2>8. DataBase <= dtop'
    <3>1. DataBase <= dtop
      BY <1>1
    <3> QED  BY <2>2, <2>4, <2>6, <3>1
  <2>9. dtop' <= Window
    BY <1>4, <2>5
  <2>10. \A n \in QFirst .. Len(calls) :
          /\ FirstFifo <= calls'[n].at /\ End(n)' <= depth' /\ DataEnd(n)' <= dtop'
          /\ DataBase <= calls'[n].data /\ calls'[n].data % 2 = 0
    <3> SUFFICES ASSUME NEW n \in QFirst .. Len(calls)
                 PROVE  /\ FirstFifo <= calls'[n].at /\ End(n)' <= depth' /\ DataEnd(n)' <= dtop'
                        /\ DataBase <= calls'[n].data /\ calls'[n].data % 2 = 0
      OBVIOUS
    <3>1. /\ calls'[n] = calls[n] /\ End(n)' = End(n) /\ DataEnd(n)' = DataEnd(n)
          /\ End(n) \in Nat /\ DataEnd(n) \in Nat
      BY <1>11
    <3>2. /\ FirstFifo <= calls[n].at /\ End(n) <= depth /\ DataEnd(n) <= dtop
          /\ DataBase <= calls[n].data /\ calls[n].data % 2 = 0
      BY <2>1
    <3>3. End(n) <= depth' /\ DataEnd(n) <= dtop'
      BY <2>4, <2>6, <3>1, <3>2
    <3> QED  BY <3>1, <3>2, <3>3
  <2>11. /\ FirstFifo <= calls'[N].at /\ End(N)' <= depth' /\ DataEnd(N)' <= dtop'
         /\ DataBase <= calls'[N].data /\ calls'[N].data % 2 = 0
    <3>1. calls'[N].at = depth /\ calls'[N].data = dtop /\ End(N)' = depth' /\ DataEnd(N)' = dtop'
      BY <1>3, <1>11
    <3>2. DataBase <= dtop /\ dtop % 2 = 0
      BY <1>1
    <3> QED  BY <2>2, <2>6, <3>1, <3>2
  <2>12. dtop' % 2 = 0
    BY <1>5
  <2> QED  BY <1>0, <1>3, <1>6, <1>10, <2>3, <2>7, <2>8, <2>9, <2>10, <2>11, <2>12 DEF BoundsInv
<1>15. MemoryInv'
  <2>1. ASSUME NEW n \in QFirst .. Len(calls)
        PROVE  HoldsEntry(n)' /\ HoldsData(n)'
    <3>1. /\ HoldsEntry(n) /\ HoldsData(n) /\ FirstFifo <= calls[n].at /\ End(n) <= depth
          /\ DataEnd(n) <= dtop /\ calls[n].data % 2 = 0
      BY <1>1 DEF IInv, BoundsInv, MemoryInv
    <3> QED  BY <1>0, <1>5, <1>7, <1>11, <3>1, KeepData, KeepEntry
  <2>2. HoldsEntry(N)'
    BY <1>3, <1>7 DEF HoldsEntry
  <2>3. HoldsData(N)'
    BY <1>3, <1>5 DEF HoldsData, BodyAt
  <2>4. ASSUME NEW n \in QFirst .. N  PROVE n \in QFirst .. Len(calls) \/ n = N
    BY <1>1
  <2> QED  BY <1>3, <1>10, <2>1, <2>2, <2>3, <2>4 DEF MemoryInv
<1>16. OwnWords'
  BY <1>1, <1>2, <1>3, KeepOwn DEF IInv
<1> QED  BY <1>9, <1>12, <1>13, <1>14, <1>15, <1>16 DEF IInv

LEMMA CallTrappedStep ==
  ASSUME IInv, ArgsFit, DataFits, NEW f \in Funcs, CallTrapped(f)
  PROVE  IInv'
<1> SUFFICES ASSUME NEW N \in Nat, N = Len(calls) + 1  PROVE IInv'
  BY DEF IInv, TypeOK
<1>0. hpc = "guest" /\ hpc' = "drain" /\ hop' = "call" /\ TypeOK
  BY DEF CallTrapped, Made, IInv
<1>1. /\ QFirst = Len(executed) + 1 /\ QLast = Len(calls) /\ ~Trapping
      /\ Start = FirstFifo /\ DataStart = DataBase /\ DataTop = dtop
      /\ dtop < MaxData /\ DataBase <= dtop /\ dtop \in Nat /\ dtop % 2 = 0
      /\ Len(calls) \in Nat /\ Len(executed) \in Nat /\ Len(executed) <= Len(calls)
      /\ depth \in Nat /\ FirstFifo \in Nat /\ MaxFifo \in Nat /\ MaxData \in Nat
      /\ Window \in Nat
  BY <1>0, GuestFacts
<1>2. /\ UNCHANGED <<depth, mfifo, current, contexts, executed>>
      /\ i' = FirstFifo /\ j' = DataBase
  BY DEF CallTrapped, context
<1>3. /\ calls' \in Seq(CallRecord)
      /\ Len(calls') = N
      /\ calls'[N].f = f /\ calls'[N].at = depth /\ calls'[N].data = dtop
      /\ \A n \in 1 .. Len(calls) : calls'[n] = calls[n]
  BY <1>0, RecordFacts DEF CallTrapped
<1>4. NumData(f) \in Nat /\ NumArgs[f] \in Nat /\ dtop + NumData(f) <= Window
  <2>1. NumData(f) \in Nat /\ NumArgs[f] \in Nat
    BY Sizes
  <2>2. MaxData + NumData(f) <= Window + 1
    BY DEF DataFits
  <2> QED  BY <1>1, <2>1, <2>2
<1>5. /\ dtop' = dtop + NumData(f) /\ dtop' \in Nat /\ dtop' % 2 = 0
      /\ mdata' \in [0 .. Window - 1 -> WordSet]
      /\ \A p \in 0 .. dtop - 1 : mdata'[p] = mdata[p]
      /\ \A p \in dtop .. dtop + Words(HeadBytes[f]) - 1 : mdata'[p] = <<N, 1>>
      /\ \A p \in BodyAt(f, dtop) .. BodyAt(f, dtop) + Words(BodyBytes[f]) - 1 :
           mdata'[p] = <<N, 2>>
  <2>1. CopyData(f, N)
    BY DEF CallTrapped
  <2> QED  BY <1>0, <1>1, <1>4, <2>1, CopyFacts
<1>6. /\ argv' \in [2 .. FirstFifo - 1 -> WordSet]
      /\ \A m \in 1 .. NumArgs[f] : argv'[m + 1] = <<N, m>>
  <2>1. StoreArgs(f, N)
    BY DEF CallTrapped
  <2> QED  BY <1>0, <2>1, ArgvFacts
<1>7. TypeOK'
  <2>1. DataBase \in Nat /\ "drain" \in HostStates /\ "call" \in Ops
    BY DEF DataBase, HostStates, Ops
  <2> QED  BY <1>0, <1>1, <1>2, <1>3, <1>5, <1>6, <2>1 DEF TypeOK
<1>8. /\ QFirst' = QFirst /\ QLast' = N - 1 /\ N - 1 = Len(calls) /\ Trapping'
      /\ Start' = FirstFifo /\ DataStart' = DataBase /\ DataTop' = dtop
  BY <1>0, <1>1, <1>2, <1>3 DEF QFirst, QLast, Trapping, Start, DataStart, DataTop
<1>9. /\ \A n \in QFirst .. Len(calls) :
            /\ n \in 1 .. Len(calls) /\ calls'[n] = calls[n]
            /\ End(n)' = End(n) /\ DataEnd(n)' = DataEnd(n)
      /\ DataEnd(N)' = dtop'
  <2>1. ASSUME NEW n \in QFirst .. Len(calls)
        PROVE  n \in 1 .. Len(calls) /\ calls'[n] = calls[n]
    BY <1>1, <1>3
  <2>2. ASSUME NEW n \in QFirst .. Len(calls)
        PROVE  End(n)' = End(n) /\ DataEnd(n)' = DataEnd(n)
    BY <2>1 DEF End, DataEnd
  <2>3. DataEnd(N)' = dtop'
    BY <1>3, <1>5 DEF DataEnd
  <2> QED  BY <2>1, <2>2, <2>3
<1>10. ProgressInv'
  BY <1>0, <1>1, <1>2, <1>3, <1>8 DEF ProgressInv
<1>11. ChainInv'
  <2>1. /\ QFirst > Len(calls) => FirstFifo = depth /\ DataBase = dtop
        /\ QFirst <= Len(calls) =>
             /\ calls[QFirst].at = FirstFifo /\ calls[QFirst].data = DataBase
             /\ End(Len(calls)) = depth /\ DataEnd(Len(calls)) = dtop
        /\ \A n \in QFirst .. Len(calls) - 1 :
             calls[n + 1].at = End(n) /\ calls[n + 1].data = DataEnd(n)
    BY <1>0, <1>1 DEF ChainInv, IInv
  <2>2. QFirst \in Nat
    BY <1>1
  <2>3. QFirst <= Len(calls) =>
             /\ calls'[QFirst].at = FirstFifo /\ calls'[QFirst].data = DataBase
             /\ End(N - 1)' = depth /\ DataEnd(N - 1)' = dtop
    <3>1. N - 1 = Len(calls)
      BY <1>1
    <3>2. QFirst <= Len(calls) =>
            QFirst \in QFirst .. Len(calls) /\ Len(calls) \in QFirst .. Len(calls)
      BY <1>1, <2>2
    <3> QED  BY <1>9, <2>1, <3>1, <3>2
  <2>4. ASSUME NEW n \in QFirst .. Len(calls) - 1
        PROVE  calls'[n + 1].at = End(n)' /\ calls'[n + 1].data = DataEnd(n)'
    <3>1. n \in QFirst .. Len(calls) /\ n + 1 \in QFirst .. Len(calls)
      BY <1>1, <2>2
    <3> QED  BY <1>9, <2>1, <3>1
  <2> QED  BY <1>0, <1>1, <1>2, <1>8, <2>1, <2>3, <2>4 DEF ChainInv
<1>12. BoundsInv'
  <2>1. \A n \in QFirst .. Len(calls) :
          /\ FirstFifo <= calls[n].at /\ End(n) <= depth /\ DataEnd(n) <= dtop
          /\ DataBase <= calls[n].data /\ calls[n].data % 2 = 0
    BY <1>1 DEF IInv, BoundsInv
  <2>2. depth < MaxFifo /\ DataBase \in Nat
    BY DEF IInv, BoundsInv, DataBase
  <2>3. \A n \in QFirst .. N : n \in QFirst .. Len(calls) \/ n = N
    BY <1>1
  <2>4. \A n \in QFirst .. Len(calls) :
          /\ FirstFifo <= calls'[n].at /\ End(n)' <= depth' /\ DataEnd(n)' <= dtop
          /\ DataBase <= calls'[n].data /\ calls'[n].data % 2 = 0
    BY <1>2, <1>9, <2>1
  <2>5. DataBase <= calls'[N].data /\ calls'[N].data % 2 = 0 /\ calls'[N].data < MaxData
    BY <1>1, <1>3
  <2>6. dtop' <= Window /\ DataBase <= dtop' /\ dtop' % 2 = 0
    <3>1. dtop' = dtop + NumData(f) /\ dtop' % 2 = 0
      BY <1>5
    <3> QED  BY SMTT(30), <1>1, <1>4, <2>2, <3>1
  <2> QED  BY <1>0, <1>2, <1>3, <1>8, <1>9, <2>2, <2>3, <2>4, <2>5, <2>6 DEF BoundsInv
<1>13. MemoryInv'
  <2>1. ASSUME NEW n \in QFirst .. Len(calls)
        PROVE  HoldsEntry(n)' /\ HoldsData(n)'
    <3>1. /\ HoldsEntry(n) /\ HoldsData(n) /\ FirstFifo <= calls[n].at /\ End(n) <= depth
          /\ DataEnd(n) <= dtop /\ calls[n].data % 2 = 0
      BY <1>1 DEF IInv, BoundsInv, MemoryInv
    <3> QED  BY <1>0, <1>2, <1>5, <1>9, <3>1, KeepData, KeepEntry
  <2>2. HoldsData(N)'
    BY <1>3, <1>5 DEF HoldsData, BodyAt
  <2>3. ASSUME NEW n \in QFirst .. N  PROVE n \in QFirst .. Len(calls) \/ n = N
    BY <1>1
  <2> QED  BY <1>3, <1>6, <1>8, <2>1, <2>2, <2>3 DEF MemoryInv
<1>14. OwnWords'
  BY <1>1, <1>2, <1>3, KeepOwn DEF IInv
<1> QED  BY <1>7, <1>10, <1>11, <1>12, <1>13, <1>14 DEF IInv

\* A refused call stores its arguments; by the rules of the API it has no data.
LEMMA CallRejectedStep ==
  ASSUME IInv, ArgsFit, DataFits, Lawful, NEW f \in Funcs, CallRejected(f)
  PROVE  IInv'
<1>0. hpc = "guest" /\ TypeOK
  BY DEF CallRejected, Made, IInv
<1>1. dtop \in Nat /\ dtop % 2 = 0 /\ dtop < MaxData /\ Window \in Nat /\ MaxData \in Nat /\ ~Trapping
  BY <1>0, GuestFacts
<1>2. UNCHANGED <<depth, mfifo, hpc, hop, i, j, current, contexts, calls, executed>>
  BY DEF CallRejected, host, context
<1>3. NumData(f) = 0
  <2>1. ~HasData(f)
    BY DEF CallRejected, Made, Accepted, Lawful
  <2> QED  BY <2>1, Sizes
<1>4. dtop + NumData(f) <= Window /\ dtop + NumData(f) = dtop
  BY <1>1, <1>3 DEF DataFits
<1>5. /\ dtop' = dtop /\ mdata' \in [0 .. Window - 1 -> WordSet]
      /\ \A p \in 0 .. dtop - 1 : mdata'[p] = mdata[p]
  <2>1. CopyData(f, 0)
    BY DEF CallRejected
  <2> QED  BY <1>0, <1>1, <1>4, <2>1, CopyFacts
<1>6. argv' \in [2 .. FirstFifo - 1 -> WordSet]
  BY <1>0, ArgvFacts DEF CallRejected
<1>7. TypeOK'
  BY <1>0, <1>2, <1>5, <1>6 DEF TypeOK
<1>8. ProgressInv' /\ ChainInv' /\ BoundsInv'
  BY <1>2, <1>5 DEF IInv, ProgressInv, ChainInv, BoundsInv, Trapping, QFirst, QLast, Start,
                    DataStart, DataTop, End, DataEnd
<1>9. MemoryInv'
  <2>1. QFirst' = QFirst /\ QLast' = QLast /\ ~Trapping' /\ calls' = calls
    BY <1>1, <1>2 DEF Trapping, QFirst, QLast
  <2>2. \A n \in QFirst .. QLast : HoldsEntry(n)'
    BY <1>2 DEF IInv, MemoryInv, HoldsEntry
  <2>3. ASSUME NEW n \in QFirst .. Len(calls)  PROVE HoldsData(n)'
    <3>1. HoldsData(n) /\ calls[n].data % 2 = 0 /\ DataEnd(n) <= dtop /\ n \in 1 .. Len(calls)
      BY <1>0, GuestFacts DEF IInv, MemoryInv, BoundsInv
    <3> QED  BY <1>0, <1>2, <1>5, <3>1, KeepData
  <2> QED  BY <2>1, <2>2, <2>3 DEF MemoryInv
<1>10. OwnWords'
  BY <1>2, KeepOwn DEF IInv
<1> QED  BY <1>7, <1>8, <1>9, <1>10 DEF IInv

LEMMA MagicWriteStep ==
  ASSUME IInv, DataFits, NEW op \in {"flush", "drop"}, MagicWrite(op)
  PROVE  IInv'
<1>0. hpc = "guest" /\ hpc' = "drain" /\ hop' = op /\ TypeOK
  BY DEF MagicWrite, IInv
<1>1. /\ QLast = Len(calls) /\ ~Trapping
      /\ Start = FirstFifo /\ DataStart = DataBase /\ DataTop = dtop
      /\ dtop < MaxData /\ DataBase <= dtop /\ dtop \in Nat /\ dtop % 2 = 0
      /\ Window \in Nat /\ MaxData \in Nat /\ FirstFifo \in Nat
  BY <1>0, GuestFacts
<1>2. /\ UNCHANGED <<depth, argv, mfifo, dtop, mdata, current, contexts, calls, executed>>
      /\ i' = FirstFifo /\ j' = DataBase
  BY DEF MagicWrite, guestMem, context
<1>3. dtop <= Window
  BY <1>1 DEF DataFits
<1>4. /\ QFirst' = QFirst /\ QLast' = QLast /\ ~Trapping'
      /\ Start' = Start /\ DataStart' = DataStart /\ DataTop' = DataTop
  BY <1>0, <1>1, <1>2 DEF QFirst, QLast, Trapping, Start, DataStart, DataTop
<1>5. TypeOK'
  BY <1>0, <1>1, <1>2 DEF TypeOK, HostStates, Ops, DataBase
<1>6. ProgressInv'
  BY <1>0, <1>1, <1>2, <1>4 DEF IInv, ProgressInv
<1>7. ChainInv'
  BY <1>0, <1>1, <1>2, <1>4 DEF IInv, ChainInv, End, DataEnd
<1>8. BoundsInv'
  BY <1>0, <1>1, <1>2, <1>3, <1>4 DEF IInv, BoundsInv, End, DataEnd
<1>9. MemoryInv' /\ OwnWords'
  BY <1>1, <1>2, <1>4 DEF IInv, MemoryInv, HoldsEntry, HoldsData, OwnWords, OwnArgs, OwnData, BodyAt
<1> QED  BY <1>5, <1>6, <1>7, <1>8, <1>9 DEF IInv

\* Nothing in the invariant but the types is about the contexts.
LEMMA KeepIInv ==
  ASSUME IInv, current' \in 0 .. contexts', contexts' \in Nat,
         UNCHANGED <<depth, argv, mfifo, dtop, mdata, hpc, hop, i, j, calls, executed>>
  PROVE  IInv'
<1>1. TypeOK'
  BY DEF IInv, TypeOK
<1>2. ProgressInv' /\ ChainInv' /\ BoundsInv' /\ MemoryInv' /\ OwnWords'
  BY SMTT(30) DEF IInv, ProgressInv, ChainInv, BoundsInv, MemoryInv, Trapping, QFirst, QLast, Start,
         DataStart, DataTop, End, DataEnd, HoldsEntry, HoldsData, BodyAt,
         OwnWords, OwnArgs, OwnData
<1> QED  BY <1>1, <1>2 DEF IInv

LEMMA MakeCurrentStep ==
  ASSUME IInv, MakeCurrent
  PROVE  IInv'
<1>1. UNCHANGED <<depth, argv, mfifo, dtop, mdata, hpc, hop, i, j, calls, executed>>
  BY DEF MakeCurrent, guestMem, host
<1>2. current' \in 0 .. contexts' /\ contexts' \in Nat
  BY DEF MakeCurrent, IInv, TypeOK
<1> QED  BY <1>1, <1>2, KeepIInv

-----------------------------------------------------------------------------
(* What the library sees.                                                  *)

\* Blocks returns the words the guest stored for the call at d.
LEMMA BlocksFacts ==
  ASSUME TypeOK, NEW n \in 1 .. Len(calls), HoldsData(n),
         calls[n].data % 2 = 0, DataEnd(n) <= Window
  PROVE  Blocks(calls[n].f, calls[n].data) = OwnData(n)
<1> DEFINE d == calls[n].data
           f == calls[n].f
           wh == Words(HeadBytes[f])
           wb == Words(BodyBytes[f])
           e == BodyAt(f, d)
<1>1. f \in Funcs /\ d \in Nat /\ Window \in Nat /\ DOMAIN mdata = 0 .. Window - 1
  BY CallFacts, ConstantsAssumption DEF TypeOK, ConstantsAssumption
<1>2. /\ wh \in Nat /\ wb \in Nat /\ e \in Nat /\ NumData(f) \in Nat
      /\ d + wh <= e /\ e + wb <= d + NumData(f)
  BY <1>1, Sizes
<1>3. d + NumData(f) <= Window
  BY DEF DataEnd
<1>4. /\ \A p \in d .. d + wh - 1 : mdata[p] = <<n, 1>>
      /\ \A p \in e .. e + wb - 1 : mdata[p] = <<n, 2>>
  BY DEF HoldsData
<1>5. HeadBytes[f] > 0 => wh > 0
  BY <1>1, Sizes
<1>6. BodyBytes[f] > 0 => wb > 0
  BY <1>1, Sizes
<1>7. ~(HeadBytes[f] > 0) => wh = 0
  <2>1. HeadBytes[f] \in Nat /\ (HeadBytes[f] = 0 => wh = 0)
    BY <1>1, Sizes
  <2> QED  BY <2>1
<1>8. ~(BodyBytes[f] > 0) => wb = 0
  <2>1. BodyBytes[f] \in Nat /\ (BodyBytes[f] = 0 => wb = 0)
    BY <1>1, Sizes
  <2> QED  BY <2>1
<1>9. Blocks(f, d) = [head |-> {mdata[p] : p \in (d .. d + wh - 1) \cap DOMAIN mdata},
                      body |-> {mdata[p] : p \in (e .. e + wb - 1) \cap DOMAIN mdata}]
  BY DEF Blocks
<1>10. OwnData(n) = [head |-> IF HeadBytes[f] > 0 THEN {<<n, 1>>} ELSE {},
                     body |-> IF BodyBytes[f] > 0 THEN {<<n, 2>>} ELSE {}]
  BY DEF OwnData
<1> HIDE DEF d, f, wh, wb, e
<1>11. {mdata[p] : p \in (d .. d + wh - 1) \cap DOMAIN mdata}
         = IF HeadBytes[f] > 0 THEN {<<n, 1>>} ELSE {}
  <2>1. CASE HeadBytes[f] > 0
    <3>1. d \in (d .. d + wh - 1) \cap DOMAIN mdata
      BY <1>1, <1>2, <1>3, <1>5, <2>1
    <3> QED  BY <1>4, <2>1, <3>1
  <2>2. CASE ~(HeadBytes[f] > 0)
    <3>1. d .. d + wh - 1 = {}
      BY <1>1, <1>7, <2>2
    <3> QED  BY <2>2, <3>1
  <2> QED  BY <2>1, <2>2
<1>12. {mdata[p] : p \in (e .. e + wb - 1) \cap DOMAIN mdata}
         = IF BodyBytes[f] > 0 THEN {<<n, 2>>} ELSE {}
  <2>1. CASE BodyBytes[f] > 0
    <3>1. e \in (e .. e + wb - 1) \cap DOMAIN mdata
      BY <1>1, <1>2, <1>3, <1>6, <2>1
    <3> QED  BY <1>4, <2>1, <3>1
  <2>2. CASE ~(BodyBytes[f] > 0)
    <3>1. e .. e + wb - 1 = {}
      BY <1>2, <1>8, <2>2
    <3> QED  BY <2>2, <3>1
  <2> QED  BY <2>1, <2>2
<1>13. Blocks(f, d) = OwnData(n)
  BY <1>9, <1>10, <1>11, <1>12
<1> QED  BY <1>13 DEF f, d

LEMMA OwnType ==
  ASSUME TypeOK, NEW n \in 1 .. Len(calls)
  PROVE  [call |-> <<n, 0>>, args |-> OwnArgs(n), data |-> OwnData(n), ctx |-> current] \in Execution
<1>1. NumArgs[calls[n].f] \in Nat /\ current \in Nat
  BY CallFacts DEF TypeOK
<1>2. /\ \A m \in 0 .. NumArgs[calls[n].f] : <<n, m>> \in WordSet
      /\ <<n, 0>> \in WordSet /\ <<n, 1>> \in WordSet /\ <<n, 2>> \in WordSet
  BY <1>1 DEF WordSet
<1>3. OwnArgs(n) \in Seq(WordSet)
  BY SMTT(30), <1>1, <1>2 DEF OwnArgs
<1>4. OwnData(n) \in [head : SUBSET WordSet, body : SUBSET WordSet]
  BY <1>2 DEF OwnData
<1> QED  BY <1>1, <1>2, <1>3, <1>4 DEF Execution

\* The history after the call with number n was executed with its own words.
LEMMA ExecutedFacts ==
  ASSUME TypeOK, OwnWords, NEW n \in 1 .. Len(calls), n = Len(executed) + 1,
         calls' = calls,
         executed' = Append(executed, [call |-> <<n, 0>>, args |-> OwnArgs(n),
                                       data |-> OwnData(n), ctx |-> current])
  PROVE  /\ executed' \in Seq(Execution) /\ Len(executed') = n
         /\ OwnWords'
<1> DEFINE r == [call |-> <<n, 0>>, args |-> OwnArgs(n), data |-> OwnData(n), ctx |-> current]
<1>1. r \in Execution /\ executed \in Seq(Execution) /\ executed' = Append(executed, r)
  BY OwnType DEF TypeOK
<1>2. r.call = <<n, 0>> /\ r.args = OwnArgs(n) /\ r.data = OwnData(n)
  OBVIOUS
<1> HIDE DEF r
<1>3. /\ executed' \in Seq(Execution) /\ Len(executed') = n /\ Len(executed) \in Nat
      /\ executed'[n] = r /\ \A k \in 1 .. Len(executed) : executed'[k] = executed[k]
  BY <1>1, AppendFacts
<1>4. ASSUME NEW k \in 1 .. n
      PROVE  /\ executed'[k].call = <<k, 0>> /\ executed'[k].args = OwnArgs(k)
             /\ executed'[k].data = OwnData(k)
  <2>1. CASE k = n
    BY <1>2, <1>3, <2>1
  <2>2. CASE k # n
    <3>1. k \in 1 .. Len(executed)
      BY <1>3, <2>2
    <3> QED  BY <1>3, <3>1 DEF OwnWords
  <2> QED  BY <2>1, <2>2
<1>5. ASSUME NEW k \in 1 .. n  PROVE OwnArgs(k)' = OwnArgs(k) /\ OwnData(k)' = OwnData(k)
  BY DEF OwnArgs, OwnData
<1>6. OwnWords'
  BY <1>3, <1>4, <1>5 DEF OwnWords
<1> QED  BY <1>3, <1>6

LEMMA ExecTrappedStep ==
  ASSUME IInv, DataFits, ExecTrapped
  PROVE  IInv'
<1> SUFFICES ASSUME NEW n, n = Len(calls)  PROVE IInv'
  OBVIOUS
<1>0. hpc = "call" /\ hpc' = "reply" /\ TypeOK /\ Trapping /\ hop = "call"
  BY DEF ExecTrapped, IInv, ProgressInv, Trapping
<1>1. /\ n \in 1 .. Len(calls) /\ n = Len(executed) + 1 /\ Len(calls) \in Nat
      /\ depth = FirstFifo /\ j = calls[n].data
  BY <1>0 DEF IInv, ProgressInv, TypeOK
<1>2. /\ UNCHANGED <<depth, argv, mfifo, dtop, mdata, hop, i, j, current, contexts, calls>>
  BY DEF ExecTrapped, guestMem, context
<1>3. HoldsData(n) /\ calls[n].data % 2 = 0 /\ calls[n].data < MaxData
  BY <1>0, <1>1 DEF IInv, MemoryInv, BoundsInv, QFirst
<1>4. DataEnd(n) <= Window
  <2>1. /\ calls[n].f \in Funcs /\ calls[n].data \in Nat /\ NumData(calls[n].f) \in Nat
        /\ MaxData \in Nat /\ Window \in Nat
    BY <1>0, <1>1, CallFacts, ConstantsAssumption DEF ConstantsAssumption
  <2>2. MaxData + NumData(calls[n].f) <= Window + 1
    BY <2>1 DEF DataFits
  <2> QED  BY <1>3, <2>1, <2>2 DEF DataEnd
<1>5. Blocks(calls[n].f, j) = OwnData(n)
  BY <1>0, <1>1, <1>3, <1>4, BlocksFacts
<1>6. [m \in 1 .. NumArgs[calls[n].f] |-> argv[m + 1]] = OwnArgs(n)
  BY <1>0 DEF IInv, MemoryInv, OwnArgs
<1>7. executed' = Append(executed, [call |-> <<n, 0>>, args |-> OwnArgs(n),
                                    data |-> OwnData(n), ctx |-> current])
  BY <1>5, <1>6 DEF ExecTrapped, Execute
<1>8. executed' \in Seq(Execution) /\ Len(executed') = n /\ OwnWords'
  BY <1>0, <1>1, <1>2, <1>7, ExecutedFacts DEF IInv
<1>9. TypeOK'
  BY <1>0, <1>2, <1>8 DEF TypeOK, HostStates
<1>10. QFirst' = n + 1 /\ QLast' = n /\ Len(calls') = n /\ ~Trapping' /\ n \in Nat
  BY <1>0, <1>1, <1>2, <1>8 DEF QFirst, QLast, Trapping
<1>11. ProgressInv' /\ ChainInv'
  BY <1>0, <1>1, <1>2, <1>8, <1>10 DEF ProgressInv, ChainInv
<1>12. BoundsInv' /\ MemoryInv'
  BY <1>0, <1>2, <1>10 DEF BoundsInv, MemoryInv, IInv
<1> QED  BY <1>8, <1>9, <1>11, <1>12 DEF IInv

LEMMA ReturnStep ==
  ASSUME IInv, DataFits, Return
  PROVE  IInv'
<1>0. /\ hpc = "reply" /\ hpc' = "guest" /\ TypeOK /\ dtop' = DataBase
      /\ DataBase < MaxData /\ DataBase \in Nat /\ DataBase % 2 = 0 /\ DataBase <= Window
  BY ConstantsAssumption DEF Return, IInv, DataBase, ConstantsAssumption, DataFits
<1>1. /\ Len(executed) = Len(calls) /\ depth = FirstFifo /\ Len(calls) \in Nat
      /\ depth < MaxFifo
  BY <1>0 DEF IInv, ProgressInv, BoundsInv, TypeOK
<1>2. UNCHANGED <<depth, argv, mfifo, mdata, hop, i, j, current, contexts, calls, executed>>
  BY DEF Return, context
<1>3. TypeOK'
  BY <1>0, <1>2 DEF TypeOK, HostStates
<1>4. QFirst' = Len(calls) + 1 /\ QLast' = Len(calls) /\ ~Trapping'
  BY <1>0, <1>1, <1>2 DEF QFirst, QLast, Trapping
<1>5. Start' = FirstFifo /\ DataStart' = DataBase /\ DataTop' = DataBase
  BY <1>0, <1>4 DEF Start, DataStart, DataTop
<1>6. ProgressInv' /\ ChainInv'
  BY <1>0, <1>1, <1>2, <1>4, <1>5 DEF ProgressInv, ChainInv
<1>7. BoundsInv' /\ MemoryInv'
  BY <1>0, <1>1, <1>2, <1>4 DEF BoundsInv, MemoryInv
<1>8. OwnWords'
  BY <1>2, KeepOwn DEF IInv
<1> QED  BY <1>3, <1>6, <1>7, <1>8 DEF IInv

LEMMA DrainOneStep ==
  ASSUME IInv, DrainOne
  PROVE  IInv'
<1> SUFFICES ASSUME NEW n, n = Len(executed) + 1, NEW q, q = QLast  PROVE IInv'
  OBVIOUS
<1>0. hpc = "drain" /\ hpc' = "drain" /\ TypeOK /\ i < depth
  BY DEF DrainOne, IInv
<1>1. /\ QFirst = n /\ Start = i /\ DataStart = j /\ i \in Nat /\ j \in Nat
      /\ Len(calls) \in Nat /\ Len(executed) \in Nat /\ depth \in Nat /\ dtop \in Nat
      /\ n \in Nat /\ q \in Nat /\ q <= Len(calls) /\ Len(executed) <= q
  <2>1. /\ Len(calls) \in Nat /\ Len(executed) \in Nat /\ i \in Nat /\ j \in Nat
        /\ depth \in Nat /\ dtop \in Nat
    BY <1>0, ConstantsAssumption DEF TypeOK, ConstantsAssumption
  <2>2. Len(executed) <= q /\ (Trapping => Len(calls) >= 1)
    BY DEF IInv, ProgressInv
  <2>3. q \in Nat /\ q <= Len(calls)
    BY <2>1, <2>2 DEF QLast
  <2> QED  BY <1>0, <2>1, <2>2, <2>3 DEF QFirst, Start, DataStart
<1>2. /\ UNCHANGED <<depth, argv, mfifo, dtop, mdata, hop, current, contexts, calls>>
  BY DEF DrainOne, guestMem, context
<1>3. n <= q
  <2>1. n > q => i = depth
    BY <1>0, <1>1 DEF IInv, ChainInv
  <2> QED  BY <1>0, <1>1, <2>1
<1>4. n \in 1 .. Len(calls) /\ n \in n .. q
  BY <1>1, <1>3
<1>5. calls[n].at = i /\ calls[n].data = j
  BY <1>0, <1>1, <1>3 DEF IInv, ChainInv
<1>6. HoldsEntry(n) /\ HoldsData(n) /\ calls[n].data % 2 = 0
  <2>1. n \in QFirst .. QLast /\ n \in QFirst .. Len(calls)
    BY <1>1, <1>4
  <2> QED  BY <2>1 DEF IInv, MemoryInv, BoundsInv
<1>7. DataEnd(n) <= Window
  <2>1. n \in QFirst .. QLast
    BY <1>1, <1>4
  <2>2. DataEnd(n) <= DataTop /\ dtop <= Window
    BY <1>0, <2>1 DEF IInv, BoundsInv
  <2>3. DataTop <= dtop /\ DataTop \in Nat
    <3>1. CASE Trapping
      <4>1. Len(calls) \in 1 .. Len(calls) /\ dtop = DataEnd(Len(calls))
        BY <1>0, <1>1, <3>1 DEF IInv, BoundsInv, ProgressInv
      <4>2. NumData(calls[Len(calls)].f) \in Nat /\ calls[Len(calls)].data \in Nat
        BY <1>0, <4>1, CallFacts
      <4> QED  BY <3>1, <4>1, <4>2 DEF DataTop, DataEnd
    <3>2. CASE ~Trapping
      BY <1>1, <3>2 DEF DataTop
    <3> QED  BY <3>1, <3>2
  <2>4. DataEnd(n) \in Nat /\ Window \in Nat
    BY <1>0, <1>4, CallFacts, ConstantsAssumption DEF ConstantsAssumption
  <2> QED  BY <1>1, <2>2, <2>3, <2>4
<1>8. NumArgs[calls[n].f] \in Nat /\ NumData(calls[n].f) \in Nat
  BY <1>0, <1>4, CallFacts
<1>9. mfifo[i] = <<n, 0>> /\ mfifo[i][1] = n
      /\ \A m \in 1 .. NumArgs[calls[n].f] : mfifo[i + m] = <<n, m>>
  <2>1. mfifo[i + 0] = <<n, 0>>
    BY <1>5, <1>6, <1>8 DEF HoldsEntry
  <2>2. i + 0 = i
    BY <1>1
  <2>3. \A m \in 1 .. NumArgs[calls[n].f] : mfifo[i + m] = <<n, m>>
    BY <1>5, <1>6, <1>8 DEF HoldsEntry
  <2> QED  BY <2>1, <2>2, <2>3
<1>10. Blocks(calls[n].f, j) = OwnData(n)
  BY <1>0, <1>4, <1>5, <1>6, <1>7, BlocksFacts
<1>11. [m \in 1 .. NumArgs[calls[n].f] |-> mfifo[i + m]] = OwnArgs(n)
  BY <1>9 DEF OwnArgs
<1>12. /\ executed' = Append(executed, [call |-> <<n, 0>>, args |-> OwnArgs(n),
                                         data |-> OwnData(n), ctx |-> current])
       /\ i' = End(n) /\ j' = DataEnd(n)
  BY <1>5, <1>9, <1>10, <1>11 DEF DrainOne, Execute, End, DataEnd
<1>13. executed' \in Seq(Execution) /\ Len(executed') = n /\ OwnWords'
  BY <1>0, <1>2, <1>4, <1>12, ExecutedFacts DEF IInv
<1>14. TypeOK'
  <2>1. End(n) \in Nat /\ DataEnd(n) \in Nat
    BY <1>0, <1>4, CallFacts
  <2> QED  BY <1>0, <1>2, <1>12, <1>13, <2>1 DEF TypeOK, HostStates
<1>15. /\ QFirst' = n + 1 /\ QLast' = q /\ QLast = q /\ Trapping' = Trapping
       /\ Start' = End(n) /\ DataStart' = DataEnd(n) /\ DataTop' = DataTop
  <2>1. (Trapping' <=> Trapping) /\ DataTop' = DataTop /\ QLast' = QLast
    BY <1>0, <1>2 DEF Trapping, DataTop, QLast
  <2> QED  BY <1>0, <1>12, <1>13, <2>1 DEF QFirst, Start, DataStart, Trapping
<1>16. ProgressInv'
  BY <1>0, <1>1, <1>2, <1>3, <1>13, <1>15 DEF IInv, ProgressInv
<1>17. ChainInv'
  <2>1. /\ End(q) = depth /\ DataEnd(q) = DataTop
        /\ \A m \in n .. q - 1 : calls[m + 1].at = End(m) /\ calls[m + 1].data = DataEnd(m)
    BY <1>0, <1>1, <1>3 DEF IInv, ChainInv
  <2>2. n + 1 > q => n = q
    BY <1>1, <1>3
  <2>3. n + 1 <= q => calls[n + 1].at = End(n) /\ calls[n + 1].data = DataEnd(n)
    BY <1>1, <2>1
  <2>4. \A m \in n + 1 .. q - 1 : m \in n .. q - 1
    BY <1>1
  <2>5. /\ \A m : End(m)' = End(m) /\ DataEnd(m)' = DataEnd(m)
        /\ calls' = calls /\ depth' = depth
    BY <1>2 DEF End, DataEnd
  <2> QED  BY <1>15, <2>1, <2>2, <2>3, <2>4, <2>5 DEF ChainInv
<1>18. BoundsInv'
  <2>1. \A m : m \in n + 1 .. q => m \in QFirst .. QLast
    BY <1>1
  <2>2. \A m : m \in n + 1 .. Len(calls) => m \in QFirst .. Len(calls)
    BY <1>1
  <2>3. /\ \A m : End(m)' = End(m) /\ DataEnd(m)' = DataEnd(m)
        /\ calls' = calls /\ depth' = depth /\ dtop' = dtop
        /\ DataEnd(Len(calls))' = DataEnd(Len(calls))
    BY <1>2 DEF End, DataEnd
  <2> QED  BY <1>0, <1>15, <2>1, <2>2, <2>3 DEF IInv, BoundsInv
<1>19. MemoryInv'
  <2>1. \A m : m \in n + 1 .. q => m \in QFirst .. QLast
    BY <1>1
  <2>2. \A m : m \in n + 1 .. Len(calls) => m \in QFirst .. Len(calls)
    BY <1>1
  <2>3. \A m : (HoldsEntry(m)' <=> HoldsEntry(m)) /\ (HoldsData(m)' <=> HoldsData(m))
    BY <1>2 DEF HoldsEntry, HoldsData, BodyAt
  <2> QED  BY <1>2, <1>15, <2>1, <2>2, <2>3 DEF IInv, MemoryInv
<1> QED  BY <1>13, <1>14, <1>16, <1>17, <1>18, <1>19 DEF IInv

\* The drain ends exactly at the end of the queue, and of its data.
LEMMA DrainEnd ==
  ASSUME IInv, hpc = "drain", i >= depth
  PROVE  i = depth /\ j = DataTop /\ Len(executed) = QLast
<1>1. /\ Len(calls) \in Nat /\ Len(executed) \in Nat /\ i \in Nat /\ depth \in Nat
  BY ConstantsAssumption DEF IInv, TypeOK, ConstantsAssumption
<1>2. /\ QLast \in Nat /\ QLast <= Len(calls) /\ Len(executed) <= QLast
      /\ QFirst = Len(executed) + 1
  <2>1. Len(executed) <= QLast /\ (Trapping => Len(calls) >= 1)
    BY DEF IInv, ProgressInv
  <2> QED  BY <1>1, <2>1 DEF QLast, QFirst
<1>3. ~(QFirst <= QLast)
  <2> SUFFICES ASSUME QFirst <= QLast  PROVE FALSE
    OBVIOUS
  <2>1. QFirst \in 1 .. Len(calls) /\ QFirst \in QFirst .. QLast
    BY <1>1, <1>2
  <2>2. calls[QFirst].at = i /\ End(QFirst) <= depth
    BY <2>1 DEF IInv, ChainInv, BoundsInv, Start
  <2>3. NumArgs[calls[QFirst].f] \in Nat
    BY <2>1, CallFacts DEF IInv
  <2> QED  BY <1>1, <2>2, <2>3 DEF End
<1>4. QFirst > QLast
  BY <1>1, <1>2, <1>3
<1>5. i = depth /\ j = DataTop
  BY <1>4 DEF IInv, ChainInv, Start, DataStart
<1> QED  BY <1>1, <1>2, <1>4, <1>5

LEMMA DrainDoneStep ==
  ASSUME IInv, DataFits, DrainDone
  PROVE  IInv'
<1> SUFFICES ASSUME NEW N, N = Len(calls)  PROVE IInv'
  OBVIOUS
<1>0. hpc = "drain" /\ i >= depth /\ TypeOK
  BY DEF DrainDone, IInv
<1>1. i = depth /\ j = DataTop /\ Len(executed) = QLast
  BY <1>0, DrainEnd
<1>2. /\ UNCHANGED <<argv, mfifo, mdata, hop, i, j, contexts, calls, executed>>
      /\ depth' = FirstFifo
  BY DEF DrainDone
<1>3. /\ N \in Nat /\ Len(executed) \in Nat /\ FirstFifo \in FirstFifo .. MaxFifo
      /\ FirstFifo < MaxFifo /\ j \in Nat /\ dtop \in Nat
      /\ DataBase \in Nat /\ DataBase % 2 = 0 /\ DataBase < MaxData
      /\ dtop <= Window /\ DataBase <= Window /\ Window \in Nat
  BY <1>0, ConstantsAssumption DEF TypeOK, ConstantsAssumption, DataBase, DataFits, IInv, BoundsInv
<1>4. CASE hop = "call"
  <2>1. /\ Trapping /\ hpc' = "call" /\ current' = current
        /\ dtop' = (IF j > DataBase THEN dtop - j ELSE dtop)
    BY <1>0, <1>4 DEF DrainDone, Trapping
  <2>2. /\ N \in 1 .. N /\ Len(executed) = N - 1 /\ j = calls[N].data
        /\ dtop = DataEnd(N) /\ calls[N].data < MaxData
    BY <1>0, <1>1, <1>3, <2>1 DEF IInv, ProgressInv, BoundsInv, QLast, DataTop
  <2>3. dtop' \in Nat
    <3>1. NumData(calls[N].f) \in Nat /\ calls[N].data \in Nat
      BY <1>0, <2>2, CallFacts
    <3>2. j <= dtop
      BY <2>2, <3>1 DEF DataEnd
    <3> QED  BY <1>3, <2>1, <3>2
  <2>4. TypeOK'
    BY <1>0, <1>2, <1>3, <2>1, <2>3 DEF TypeOK, HostStates
  <2>5. QFirst' = QFirst /\ QFirst = N /\ QLast' = N - 1 /\ Trapping' /\ Len(calls') = N
    BY <1>2, <1>3, <1>4, <2>1, <2>2 DEF QFirst, QLast, Trapping
  <2>6. ProgressInv' /\ ChainInv'
    BY <1>2, <1>3, <1>4, <2>1, <2>2, <2>5 DEF ProgressInv, ChainInv
  <2>7. BoundsInv'
    <3>1. DataBase <= calls[N].data /\ calls[N].data % 2 = 0
      BY <1>3, <2>2, <2>5 DEF IInv, BoundsInv
    <3>2. dtop' <= Window
      BY <1>3, <2>1
    <3> QED  BY <1>2, <1>3, <2>1, <2>2, <2>5, <3>1, <3>2 DEF BoundsInv
  <2>8. MemoryInv'
    <3>1. HoldsData(N) /\ \A m \in 1 .. NumArgs[calls[N].f] : argv[m + 1] = <<N, m>>
      BY SMTT(30), <1>3, <2>1, <2>2, <2>5 DEF IInv, MemoryInv
    <3>2. HoldsData(N)' <=> HoldsData(N)
      BY <1>2 DEF HoldsData, BodyAt
    <3> QED  BY <1>2, <1>3, <2>5, <3>1, <3>2 DEF MemoryInv
  <2>9. OwnWords'
    BY <1>2, KeepOwn DEF IInv
  <2> QED  BY <2>4, <2>6, <2>7, <2>8, <2>9 DEF IInv
<1>5. CASE hop # "call"
  <2>1. /\ ~Trapping /\ hpc' = "guest" /\ current' \in {0, current} /\ dtop' = DataBase
    BY <1>0, <1>5 DEF DrainDone, Trapping
  <2>2. Len(executed) = N
    BY <1>1, <2>1 DEF QLast
  <2>3. TypeOK'
    BY <1>0, <1>2, <1>3, <2>1 DEF TypeOK, HostStates
  <2>4. QFirst' = N + 1 /\ QLast' = N /\ ~Trapping' /\ Len(calls') = N
    BY <1>2, <2>1, <2>2 DEF QFirst, QLast, Trapping
  <2>5. Start' = FirstFifo /\ DataStart' = DataBase /\ DataTop' = DataBase
    BY <2>1, <2>4 DEF Start, DataStart, DataTop
  <2>6. ProgressInv' /\ ChainInv'
    BY <1>2, <1>3, <2>1, <2>2, <2>4, <2>5 DEF ProgressInv, ChainInv
  <2>7. BoundsInv' /\ MemoryInv'
    BY <1>2, <1>3, <2>1, <2>4 DEF BoundsInv, MemoryInv
  <2>8. OwnWords'
    BY <1>2, KeepOwn DEF IInv
  <2> QED  BY <2>3, <2>6, <2>7, <2>8 DEF IInv
<1> QED  BY <1>4, <1>5

-----------------------------------------------------------------------------
(* The theorems.                                                           *)

LEMMA InitIInv ==
  ASSUME Init, DataFits
  PROVE  IInv
<1>1. /\ FirstFifo \in Nat /\ MaxFifo \in Nat /\ FirstFifo < MaxFifo /\ MaxData \in Nat
      /\ DataBase < MaxData /\ DataBase = 2 /\ Window \in Nat /\ DataBase <= Window
  BY ConstantsAssumption DEF ConstantsAssumption, DataBase, DataFits
<1>2. calls = <<>> /\ executed = <<>> /\ hpc = "guest" /\ depth = FirstFifo /\ dtop = DataBase
  BY DEF Init
<1>3. TypeOK
  <2>1. NoWord \in WordSet
    BY DEF NoWord, WordSet
  <2>2. current \in 0 .. contexts /\ contexts \in Nat
    BY DEF Init
  <2> QED  BY <1>1, <2>1, <2>2 DEF Init, TypeOK, HostStates, Ops
<1>4. QFirst = 1 /\ QLast = 0 /\ ~Trapping /\ Len(calls) = 0
  BY <1>2 DEF QFirst, QLast, Trapping
<1>5. Start = FirstFifo /\ DataStart = DataBase /\ DataTop = DataBase
  BY <1>2, <1>4 DEF Start, DataStart, DataTop
<1>6. ProgressInv /\ ChainInv /\ BoundsInv /\ MemoryInv /\ OwnWords
  BY <1>1, <1>2, <1>4, <1>5 DEF ProgressInv, ChainInv, BoundsInv, MemoryInv, OwnWords
<1> QED  BY <1>3, <1>6 DEF IInv

LEMMA NextIInv ==
  ASSUME IInv, ArgsFit, DataFits, Lawful, [Next]_vars
  PROVE  IInv'
<1>1. CASE \E f \in Funcs : CallQueued(f) \/ CallTrapped(f) \/ CallRejected(f)
  BY <1>1, CallQueuedStep, CallTrappedStep, CallRejectedStep
<1>2. CASE \E op \in {"flush", "drop"} : MagicWrite(op)
  BY <1>2, MagicWriteStep
<1>3. CASE MakeCurrent
  BY <1>3, MakeCurrentStep
<1>4. CASE DrainOne
  BY <1>4, DrainOneStep
<1>5. CASE DrainDone
  BY <1>5, DrainDoneStep
<1>6. CASE ExecTrapped
  BY <1>6, ExecTrappedStep
<1>7. CASE Return
  BY <1>7, ReturnStep
<1>8. CASE UNCHANGED vars
  <2>1. UNCHANGED <<depth, argv, mfifo, dtop, mdata, hpc, hop, i, j, current, contexts, calls, executed>>
    BY <1>8 DEF vars, guestMem, host, context
  <2>2. current' \in 0 .. contexts' /\ contexts' \in Nat
    BY <2>1 DEF IInv, TypeOK
  <2> QED  BY <2>1, <2>2, KeepIInv
<1> QED  BY <1>1, <1>2, <1>3, <1>4, <1>5, <1>6, <1>7, <1>8 DEF Next, Guest, Host

\* The invariant of the shared memory: the queued calls and their data lie in
\* order, unbroken and unharmed between the host's position and the guest's.
THEOREM Inductive ==
  ASSUME ArgsFit, DataFits, Lawful
  PROVE  SafeSpec => []IInv
<1>1. Init => IInv
  BY InitIInv
<1>2. IInv /\ [Next]_vars => IInv'
  BY NextIInv
<1> QED  BY <1>1, <1>2, PTL DEF SafeSpec

\* fifoAddEntry, fifoAddData and processFifo keep every word in its area.
THEOREM TypeCorrect ==
  ASSUME ArgsFit, DataFits, Lawful
  PROVE  SafeSpec => []TypeOK
<1>1. IInv => TypeOK
  BY DEF IInv
<1> QED  BY <1>1, Inductive, PTL

\* For any table of functions, and any size of the FIFO and of the data area, the
\* k-th call the library executes is the k-th call the guest made, with its own
\* arguments and its own data.
THEOREM CallsKeepTheirWords ==
  ASSUME ArgsFit, DataFits, Lawful
  PROVE  SafeSpec => []OwnWords
<1>1. IInv => OwnWords
  BY DEF IInv
<1> QED  BY <1>1, Inductive, PTL

\* The position the host has summed up when the drain ends is the one the guest
\* had when it began the trapping call.
THEOREM HostFindsTheData ==
  ASSUME ArgsFit, DataFits, Lawful
  PROVE  SafeSpec => []PositionsAgree
<1>1. IInv => PositionsAgree
  BY DrainEnd DEF PositionsAgree, DataTop, Trapping
<1> QED  BY <1>1, Inductive, PTL

\* The data the stubs copy before they test for room stays inside the mapping,
\* on the condition DataFits: the slack behind MAX_DATA holds the largest call.
THEOREM DataStaysMapped ==
  ASSUME ArgsFit, DataFits, Lawful
  PROVE  SafeSpec => []DataInWindow
<1>1. IInv => DataInWindow
  BY DEF IInv, BoundsInv, DataInWindow
<1> QED  BY <1>1, Inductive, PTL
===============================================================================
