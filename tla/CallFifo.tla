------------------------------ MODULE CallFifo ------------------------------
(***************************************************************************)
(* The shared memory between a guest wrapper DLL (wrappers/3dfx, wrappers/ *)
(* mesa) and its host device (glidept_mm.c, mesapt_mm.c).                  *)
(*                                                                         *)
(*   mfifo[0]              depth: next free word of the call FIFO          *)
(*   mfifo[2 ..]           argument words of the call being made           *)
(*   mfifo[FirstFifo ..]   queued calls: function number, then arguments   *)
(*   mdata[0]              dtop: next free word of the data area           *)
(*   mdata[DataBase ..]    data blocks the calls point at, in call order   *)
(*                                                                         *)
(* A stub copies its data blocks, stores its arguments and either queues   *)
(* the call or writes the function number to register 0xFC0.  That write   *)
(* traps: the vCPU executes the device's handler, which first drains the   *)
(* queue and then executes the trapping call.  Nothing in memory says      *)
(* where the data of a queued call starts: the host finds it by summing    *)
(* the sizes of the calls before it, computed from the arguments alone.    *)
(*                                                                         *)
(* A data block is abstracted to its size in bytes, a word of memory to    *)
(* the call, and the part of that call, it was last written for.           *)
(***************************************************************************)
EXTENDS Integers, Sequences

CONSTANTS
  Funcs,        \* the API functions
  Queued,       \* those whose stub uses FIFO_GRFUNC / FIFO_GLFUNC
  Ungated,      \* those the device executes without a current context
  NumArgs,      \* [Funcs -> Nat]  argument words of a function
  HeadBytes,    \* [Funcs -> Nat]  size of its first data block
  BodyBytes,    \* [Funcs -> Nat]  size of its second data block
  FirstFifo,    \* FIRST_FIFO
  MaxFifo,      \* MAX_FIFO
  MaxData,      \* MAX_DATA
  Window,       \* words of the data area that are mapped
  Gated,        \* TRUE: the Mesa device, which has a current context
  GuestObeysGL, \* TRUE: without a current context the guest sends no data but with ungated calls
  MaxCalls,     \* bound on the calls of a behaviour
  MaxContexts   \* bound on the contexts of a behaviour

DataBase == 2   \* ALIGNED(1) >> 2

ASSUME ConstantsAssumption ==
  /\ Queued \subseteq Funcs /\ Ungated \subseteq Funcs
  /\ NumArgs \in [Funcs -> Nat]
  /\ HeadBytes \in [Funcs -> Nat] /\ BodyBytes \in [Funcs -> Nat]
  /\ FirstFifo \in Nat /\ MaxFifo \in Nat /\ MaxData \in Nat /\ Window \in Nat
  /\ Gated \in BOOLEAN /\ GuestObeysGL \in BOOLEAN
  /\ MaxCalls \in Nat /\ MaxContexts \in Nat
  /\ DataBase < MaxData /\ FirstFifo < MaxFifo

-----------------------------------------------------------------------------
(* The sizes, as the two sides compute them.                               *)

\* numData of fifoAddData, processFifo and the write handlers.
Words(cb) == IF cb % 4 # 0 THEN (cb \div 4) + 1 ELSE cb \div 4

\* The guest's next free word after it copied a block of cb bytes at word j.
AddData(j, cb) ==
  LET next == j + Words(cb)
  IN  IF next % 2 = 1 THEN next + 1 ELSE next

\* ALIGNED(x), the host's rounding of a block.
Aligned(x) == IF x % 8 # 0 THEN ((x \div 8) + 1) * 8 ELSE x

\* s->datacb after processArgs, and the words the host then skips.
DataCb(f) == Aligned(HeadBytes[f]) + Aligned(BodyBytes[f])
\* Mutation: the host sums the sizes before it aligns them.
UnalignedNumData(f) == Words(HeadBytes[f] + BodyBytes[f])

NumData(f) == Words(DataCb(f))

\* Where the host looks for the second block: PTR(s->hshm, ALIGNED(...)).
\* Mutation: the second block right after the last byte of the first.
PackedBodyAt(f, j) == j + Words(HeadBytes[f])

BodyAt(f, j) == j + Words(Aligned(HeadBytes[f]))

HasData(f) == HeadBytes[f] > 0 \/ BodyBytes[f] > 0

-----------------------------------------------------------------------------
VARIABLES
  depth,      \* mfifo[0]
  argv,       \* mfifo[2 .. FirstFifo - 1]
  mfifo,      \* mfifo[FirstFifo .. MaxFifo - 1]
  dtop,       \* mdata[0]
  mdata,      \* mdata[DataBase ..]
  hpc,        \* where the device is: "guest" when no handler runs
  hop,        \* what the handler does after the drain
  i, j,       \* processFifo's position in the FIFO and in the data area
  current,    \* the context that is current on the host, 0 for none
  contexts,   \* contexts created so far
  calls,      \* history: the accepted calls, where they were put and in which context
  executed    \* history: what the host library was called with

guestMem == <<depth, argv, mfifo, dtop, mdata>>
host == <<hpc, hop, i, j>>
context == <<current, contexts>>
vars == <<guestMem, host, context, calls, executed>>

HostStates == {"guest", "drain", "call", "reply"}
Ops == {"call", "flush", "drop"}
NoWord == <<0, 0>>
WordSet == Nat \X Nat

Init ==
  /\ depth = FirstFifo
  /\ argv = [m \in 2 .. FirstFifo - 1 |-> NoWord]
  /\ mfifo = [m \in FirstFifo .. MaxFifo - 1 |-> NoWord]
  /\ dtop = DataBase
  /\ mdata = [p \in 0 .. Window - 1 |-> NoWord]
  /\ hpc = "guest" /\ hop = "flush"
  /\ i = FirstFifo /\ j = DataBase
  /\ current = (IF Gated THEN 0 ELSE 1)
  /\ contexts = current
  /\ calls = <<>>
  /\ executed = <<>>

-----------------------------------------------------------------------------
(* The guest's stub.  n identifies the call in the words written for it.   *)

\* fifoAddData for both blocks; words outside the mapped window are not stored.
CopyData(f, n) ==
  LET body == AddData(dtop, HeadBytes[f])
  IN  /\ mdata' = [p \in DOMAIN mdata |->
                     IF p \in dtop .. dtop + Words(HeadBytes[f]) - 1 THEN <<n, 1>>
                     ELSE IF p \in body .. body + Words(BodyBytes[f]) - 1 THEN <<n, 2>>
                     ELSE mdata[p]]
      /\ dtop' = AddData(body, BodyBytes[f])

\* pt[1] = arg0; pt[2] = arg1; ...
StoreArgs(f, n) ==
  argv' = [m \in DOMAIN argv |-> IF m - 1 \in 1 .. NumArgs[f] THEN <<n, m - 1>> ELSE argv[m]]

\* fifoAddEntry
AddEntry(f, n) ==
  /\ mfifo' = [m \in DOMAIN mfifo |->
                 IF m \in depth .. depth + NumArgs[f] THEN <<n, m - depth>> ELSE mfifo[m]]
  /\ depth' = depth + 1 + NumArgs[f]

\* Mutations: only one of the two areas is tested.
RoomInData(f) == dtop' < MaxData
RoomInFifo(f) == depth + NumArgs[f] + 1 < MaxFifo

\* The test of FIFO_GRFUNC / FIFO_GLFUNC, made after the data was copied.
Room(f) == depth + NumArgs[f] + 1 < MaxFifo /\ dtop' < MaxData

Accepted(f) == current # 0 \/ ~Gated \/ f \in Ungated

\* The guest makes a call; GuestObeysGL is the rule of OpenGL that a program
\* needs a current context before it makes calls that carry data.  The ungated
\* one is the DLL's own (OHST_DMESG) and made at any time.
Made(f) ==
  /\ hpc = "guest"
  /\ Len(calls) < MaxCalls
  /\ (GuestObeysGL /\ Gated /\ current = 0) => ~HasData(f) \/ f \in Ungated

Record(f) ==
  calls' = Append(calls, [f |-> f, at |-> depth, data |-> dtop, ctx |-> current])

CallQueued(f) ==
  /\ Made(f)
  /\ CopyData(f, Len(calls) + 1)
  /\ f \in Queued /\ Room(f)
  /\ StoreArgs(f, Len(calls) + 1)
  /\ AddEntry(f, Len(calls) + 1)
  /\ Record(f)
  /\ UNCHANGED <<host, context, executed>>

\* Mutation: the trapping call is executed ahead of the queue.
CallOvertakes(f) ==
  /\ Made(f)
  /\ Accepted(f)
  /\ CopyData(f, Len(calls) + 1)
  /\ ~(f \in Queued /\ Room(f))
  /\ StoreArgs(f, Len(calls) + 1)
  /\ Record(f)
  /\ hpc' = "call" /\ hop' = "call"
  /\ i' = FirstFifo /\ j' = DataBase
  /\ UNCHANGED <<depth, mfifo, context, executed>>

\* The write of the function number to 0xFC0 enters processFifo.
CallTrapped(f) ==
  /\ Made(f)
  /\ Accepted(f)
  /\ CopyData(f, Len(calls) + 1)
  /\ ~(f \in Queued /\ Room(f))
  /\ StoreArgs(f, Len(calls) + 1)
  /\ Record(f)
  /\ hpc' = "drain" /\ hop' = "call"
  /\ i' = FirstFifo /\ j' = DataBase
  /\ UNCHANGED <<depth, mfifo, context, executed>>

\* Without a current context mesapt_write refuses 0xFC0: it clears the output
\* page and returns.  The stub has already copied its data.
CallRejected(f) ==
  /\ Made(f)
  /\ ~Accepted(f)
  /\ CopyData(f, 0)
  /\ ~(f \in Queued /\ Room(f))
  /\ StoreArgs(f, 0)
  /\ UNCHANGED <<depth, mfifo, host, context, calls, executed>>

\* Mutation: the end of a context does not drain the FIFO.
DropUndrained(op) ==
  /\ Gated /\ hpc = "guest" /\ current # 0
  /\ IF op = "drop" THEN current' = 0 /\ hpc' = "guest" ELSE current' = current /\ hpc' = "drain"
  /\ hop' = op
  /\ i' = FirstFifo /\ j' = DataBase
  /\ UNCHANGED <<guestMem, contexts, calls, executed>>

\* A MESAGL_MAGIC register write: FIFO_FLUSH, wglSwapBuffers, a WGL query
\* ("flush"), or the end of the current context ("drop").  With a current
\* context the handler drains the FIFO first.
MagicWrite(op) ==
  /\ Gated /\ hpc = "guest" /\ current # 0
  /\ hpc' = "drain" /\ hop' = op
  /\ i' = FirstFifo /\ j' = DataBase
  /\ UNCHANGED <<guestMem, context, calls, executed>>

\* wglMakeCurrent while none is current: nothing is drained.
MakeCurrent ==
  /\ Gated /\ hpc = "guest" /\ current = 0
  /\ contexts < MaxContexts
  /\ contexts' = contexts + 1
  /\ current' = contexts'
  /\ UNCHANGED <<guestMem, host, calls, executed>>

-----------------------------------------------------------------------------
(* The device.                                                             *)

\* The words the library sees for a call with its arguments at a[first + 1 ..]
\* and its data at word d.
Blocks(f, d) ==
  [head |-> {mdata[p] : p \in (d .. d + Words(HeadBytes[f]) - 1) \cap DOMAIN mdata},
   body |-> {mdata[p] : p \in (BodyAt(f, d) .. BodyAt(f, d) + Words(BodyBytes[f]) - 1)
                              \cap DOMAIN mdata}]

Execute(n, f, args, d) ==
  executed' = Append(executed, [call |-> n, args |-> args, data |-> Blocks(f, d), ctx |-> current])

\* One turn of processFifo's loop: processArgs, doGlideFunc / doMesaFunc, processFRet.
DrainOne ==
  /\ hpc = "drain" /\ i < depth
  /\ LET n == mfifo[i][1]
         f == calls[n].f
     IN  /\ Execute(mfifo[i], f, [m \in 1 .. NumArgs[f] |-> mfifo[i + m]], j)
         /\ i' = i + 1 + NumArgs[f]
         /\ j' = j + NumData(f)
  /\ UNCHANGED <<guestMem, hpc, hop, context, calls>>

\* Mutation: the queue is not emptied.
DrainKeepsDepth ==
  /\ hpc = "drain" /\ i >= depth
  /\ IF hop = "call"
     THEN dtop' = (IF j > DataBase THEN dtop - j ELSE dtop) /\ hpc' = "call" /\ UNCHANGED current
     ELSE /\ dtop' = DataBase /\ hpc' = "guest"
          /\ current' = (IF hop = "drop" THEN 0 ELSE current)
  /\ UNCHANGED <<depth, argv, mfifo, mdata, hop, i, j, contexts, calls, executed>>

\* The end of processFifo.  After a register write other than 0xFC0 the handler
\* resets the data area and carries on with the operation of the register.
DrainDone ==
  /\ hpc = "drain" /\ i >= depth
  /\ depth' = FirstFifo
  /\ IF hop = "call"
     THEN /\ dtop' = (IF j > DataBase THEN dtop - j ELSE dtop)
          /\ hpc' = "call"
          /\ UNCHANGED current
     ELSE /\ dtop' = DataBase
          /\ hpc' = "guest"
          /\ current' = (IF hop = "drop" THEN 0 ELSE current)
  /\ UNCHANGED <<argv, mfifo, mdata, hop, i, j, contexts, calls, executed>>

\* The trapping call itself, with its arguments at mfifo[2] and its data at j.
ExecTrapped ==
  /\ hpc = "call"
  /\ LET f == calls[Len(calls)].f
     IN  Execute(<<Len(calls), 0>>, f, [m \in 1 .. NumArgs[f] |-> argv[m + 1]], j)
  /\ hpc' = "reply"
  /\ UNCHANGED <<guestMem, hop, i, j, context, calls>>

\* Mutation: the data area is not reset.
ReturnKeepsData ==
  /\ hpc = "reply"
  /\ hpc' = "guest"
  /\ UNCHANGED <<depth, argv, mfifo, dtop, mdata, hop, i, j, context, calls, executed>>

\* The write handler resets the data area and the guest resumes.
Return ==
  /\ hpc = "reply"
  /\ dtop' = DataBase
  /\ hpc' = "guest"
  /\ UNCHANGED <<depth, argv, mfifo, mdata, hop, i, j, context, calls, executed>>

Guest ==
  \/ \E f \in Funcs : CallQueued(f) \/ CallTrapped(f) \/ CallRejected(f)
  \/ \E op \in {"flush", "drop"} : MagicWrite(op)
  \/ MakeCurrent

Host == DrainOne \/ DrainDone \/ ExecTrapped \/ Return

Next == Guest \/ Host

\* The handler runs on the vCPU thread that trapped, until it returns.
Fairness == WF_vars(Host)

SafeSpec == Init /\ [][Next]_vars

Spec == SafeSpec /\ Fairness

-----------------------------------------------------------------------------
(* Properties.                                                             *)

CallRecord == [f : Funcs, at : Nat, data : Nat, ctx : Nat]
Execution == [call : WordSet, args : Seq(WordSet),
              data : [head : SUBSET WordSet, body : SUBSET WordSet], ctx : Nat]

\* The variables have the types the comments at their declaration give them.
TypeOK ==
  /\ depth \in FirstFifo .. MaxFifo
  /\ argv \in [2 .. FirstFifo - 1 -> WordSet]
  /\ mfifo \in [FirstFifo .. MaxFifo - 1 -> WordSet]
  /\ dtop \in Nat
  /\ mdata \in [0 .. Window - 1 -> WordSet]
  /\ hpc \in HostStates /\ hop \in Ops
  /\ i \in Nat /\ j \in Nat
  /\ current \in 0 .. contexts
  /\ contexts \in Nat
  /\ calls \in Seq(CallRecord)
  /\ executed \in Seq(Execution)

\* The call being executed by the handler, if it is the one that trapped.
Trapping == hpc \in {"drain", "call"} /\ hop = "call"

\* The calls that are in the FIFO.
QFirst == Len(executed) + 1
QLast == IF Trapping THEN Len(calls) - 1 ELSE Len(calls)

\* The words of call n and of its data, as the guest meant them.
OwnArgs(n) == [m \in 1 .. NumArgs[calls[n].f] |-> <<n, m>>]
OwnData(n) ==
  [head |-> IF HeadBytes[calls[n].f] > 0 THEN {<<n, 1>>} ELSE {},
   body |-> IF BodyBytes[calls[n].f] > 0 THEN {<<n, 2>>} ELSE {}]

\* The k-th call the library executes is the k-th call the guest made, with the
\* argument words and the data blocks the guest stored for it: no call is lost,
\* repeated or overtaken, and no queued call or data block is overwritten, cut
\* short or taken for another one's (fifoAddEntry, fifoAddData and processFifo).
OwnWords ==
  \A k \in 1 .. Len(executed) :
     /\ executed[k].call = <<k, 0>>
     /\ executed[k].args = OwnArgs(k)
     /\ executed[k].data = OwnData(k)

\* When the drain ends, the host's sum of data sizes has arrived where the guest's
\* own pointer was when it began the trapping call: the two sides, which never
\* exchange a data offset, have computed the same one (s->hshm = &dataptr[j]).
PositionsAgree ==
  (hpc = "drain" /\ i >= depth) =>
     /\ i = depth
     /\ j = (IF hop = "call" THEN calls[Len(calls)].data ELSE dtop)

\* The data area never extends past the memory that is mapped for it, although
\* the stubs test for room only after they have copied the data.
DataInWindow == dtop <= Window

\* A call made while a context was current is executed in that context: what was
\* queued under it is drained before the context goes away (mesapt_write drains
\* on every MESAGL_MAGIC write).
OwnContext ==
  \A k \in 1 .. Len(executed) :
     calls[k].ctx # 0 => executed[k].ctx = calls[k].ctx

\* What mesapt_write and glidept_write report as "FIFO data leak": words left in
\* the data area when it is about to be reset.
Leftover == IF j > DataBase THEN dtop - j ELSE dtop
NoDataLeak ==
  /\ (hpc = "drain" /\ i >= depth /\ hop # "call") => Leftover <= DataBase
  /\ hpc = "call" => dtop - NumData(calls[Len(calls)].f) <= DataBase

-----------------------------------------------------------------------------
(* The shared memory implements the abstract queue of calls.               *)

Payload(n) == [call |-> <<n, 0>>, args |-> OwnArgs(n), data |-> OwnData(n)]

Items == {[call |-> <<n, 0>>,
           args |-> [m \in 1 .. NumArgs[f] |-> <<n, m>>],
           data |-> [head |-> IF HeadBytes[f] > 0 THEN {<<n, 1>>} ELSE {},
                     body |-> IF BodyBytes[f] > 0 THEN {<<n, 2>>} ELSE {}]] :
          n \in 1 .. MaxCalls, f \in Funcs}

Q == INSTANCE CallQueue WITH
       pending <- [k \in 1 .. Len(calls) - Len(executed) |-> Payload(Len(executed) + k)],
       delivered <- [k \in 1 .. Len(executed) |->
                       [call |-> executed[k].call, args |-> executed[k].args,
                        data |-> executed[k].data]],
       blocked <- hpc # "guest"

\* Every behaviour of the shared memory is one of the abstract queue, including
\* that a trapping access returns: calls reach the library once, in order, with
\* their own data, and a waiting call only after all the earlier ones.
ImplementsCallQueue == Q!Spec
=============================================================================
