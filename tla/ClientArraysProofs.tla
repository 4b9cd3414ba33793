------------------------- MODULE ClientArraysProofs -------------------------
(***************************************************************************)
(* Proofs about ClientArrays, for any memory, any buffer and vertex array  *)
(* objects and any length of the queue.  Types hold whatever the program   *)
(* does, and InStep whatever it does with the entry points that both sides *)
(* follow; CopiesFit and DrawsRight hold for programs that keep the rules  *)
(* (Orderly and Near) and do the same (NoCaps).                            *)
(*                                                                         *)
(* InStep is not inductive: it compares what the DLL decided when the      *)
(* program called with what the device decides when it executes the call.  *)
(* What keeps it is that there is a chain of states from the device's copy *)
(* to the DLL's, one step for each queued call, in which every draw was    *)
(* decided.  The device's copy is not equal to the first of the chain: it  *)
(* has other addresses, but the same of them are null.                     *)
(*                                                                         *)
(* DrawsRight compares what a draw was to read when the program called     *)
(* with what the library reads when the device executes it.  Its invariant *)
(* makes the states of that chain larger (Course): besides the DLL's copy, *)
(* the program's client state and what the vertex cache shows of every     *)
(* block.  The first of them is the library's state, its sources being the *)
(* places of the program's blocks in the cache (Begins); the last one is   *)
(* the program's (Ends); and a draw leads to a state in which the cache    *)
(* shows all that the draw was to read (Leads).                            *)
(***************************************************************************)
EXTENDS ClientArrays, FiniteSetTheorems, WellFoundedInduction, TLAPS

-----------------------------------------------------------------------------
(* The inductive invariant.                                                *)

Whats == {"vertex", "texcoord", "tex0"}
Clients == {Client(m) : m \in Mem}

\* The calls of a program, as they are queued.
Ops == {"ActiveTexture", "Enable", "EnableAttrib", "EnableCap", "Disable", "DisableAttrib",
        "DisableCap", "Pointer", "AttribPointer", "Interleaved", "BindArray", "BindElement",
        "DeleteBuffer", "BindVao", "DeleteVao"} \union Draws
CallType == [op : Ops,
             what : Whats \union Units \union {"array", "element", "buffer", "vao", "draw"},
             name : Buffers \union Vaos \union {0}, ptr : {Null, Offset} \union Clients,
             part : PartType]
WellFormed(c) ==
  /\ c.op = "ActiveTexture" => c.what \in Units
  /\ c.op \in {"Enable", "EnableAttrib", "EnableCap", "Disable", "DisableAttrib", "DisableCap",
               "Pointer", "AttribPointer", "Interleaved"} => c.what \in Whats
  /\ c.op \in {"BindArray", "BindElement", "DeleteBuffer"} => c.name \in Buffers \union {0}
  /\ c.op \in {"BindVao", "DeleteVao"} => c.name \in Vaos \union {0}
Calls == {c \in CallType : WellFormed(c)}

FifoType == \E N, D, W : fifo \in Seq([call : Calls, names : N, data : D, want : W])
CacheType(c) == \E D : c \in Seq([lo : Nat, hi : Nat, data : D])

\* The range of an entry.
RangeInv(c) == \A e \in DOMAIN c : c[e].hi = c[e].lo + 2 * Size /\ c[e].lo > 0

\* An entry was made for a block that no entry before it serves.
MadeInv(c) ==
  \E made \in [DOMAIN c -> Mem] :
    \A e \in DOMAIN c : /\ Serves(c[e], made[e])
                        /\ \A f \in 1 .. e - 1 : ~Serves(c[f], made[e])

CacheInv(c) == CacheType(c) /\ RangeInv(c) /\ MadeInv(c)

\* Without a context there is nothing to execute, and there may be another one.
ContextInv == ~context => fifo = <<>> /\ contexts < MaxContexts

TInv == TypeOK /\ FifoType /\ CacheInv(cache) /\ ContextInv

\* What a call does to a copy of the array state, draws included.
Followed(s, c) == IF c.op \in Draws THEN AfterDraw(s, c.op) ELSE Tracked(s, c)

\* Two copies that differ in addresses only, and not in which of them are null.
Alike(s, d) ==
  /\ s.on = d.on /\ s.unit = d.unit /\ s.interleaved = d.interleaved
  /\ s.arrayBuf = d.arrayBuf /\ s.elemBuf = d.elemBuf /\ s.vao = d.vao
  /\ s.interPtr = Null <=> d.interPtr = Null
  /\ \A a \in Arrays : s.ptr[a] = Null <=> d.ptr[a] = Null

\* The states of the DLL's copy that the queued calls lead through.
Chain(st) ==
  /\ st \in [1 .. Len(fifo) + 1 -> CopyType]
  /\ Alike(st[1], device) /\ st[Len(fifo) + 1] = guest
  /\ \A k \in 1 .. Len(fifo) :
       /\ st[k + 1] = Followed(st[k], fifo[k].call)
       /\ fifo[k].call.op \in Draws => fifo[k].names = Carried(st[k], fifo[k].call.op)

-----------------------------------------------------------------------------
(* Addresses and calls.                                                    *)

\* The kinds of address are apart.
LEMMA Kinds ==
  /\ \A m : Client(m)[1] = "client" /\ Client(m)[2] = m /\ Client(m) # Null /\ Client(m) # Offset
  /\ \A e, off : /\ Cached(e, off)[1] = "cache" /\ Cached(e, off)[2] = e
                 /\ Cached(e, off)[3] = off
                 /\ Cached(e, off) # Null /\ Cached(e, off) # Offset
  /\ Null[1] # "client" /\ Offset[1] # "client" /\ Null # Offset
  BY DEF Client, Cached, Null, Offset

Places == {Cached(e, off) : e \in 1 .. Cardinality(Mem), off \in 0 .. 2 * Size - 1}

\* What counts as an address.
LEMMA Addresses ==
  /\ {Null, Offset, Wild} \subseteq Address /\ Clients \subseteq Address
  /\ Places \subseteq Address /\ \A b \in Buffers : Source(b) \in Address
  BY DEF Address, Clients, Places

\* The array that a call means.
LEMMA MeantTypes ==
  ASSUME NEW s, s.unit \in Units, NEW what \in Whats
  PROVE  Meant(s, what) \in Arrays
  BY DEF Meant, Whats, Arrays, Units

\* A copy follows a call: the types.  On the device the address may be another.
LEMMA TrackedTypes ==
  ASSUME NEW s \in CopyType, NEW c, c.ptr \in Address, WellFormed(c)
  PROVE  Tracked(s, c) \in CopyType
<1> USE DEF CopyType
<1>1. s.unit \in Units
  OBVIOUS
<1>2. CASE c.op = "ActiveTexture"
  BY <1>2 DEF Tracked, WellFormed
<1>3. CASE c.op \in {"Enable", "EnableAttrib", "EnableCap", "Disable", "DisableAttrib",
                     "DisableCap"}
  <2>1. Meant(s, c.what) \in Arrays
    BY <1>1, <1>3, MeantTypes DEF WellFormed
  <2>2. ArrayState(s, c) \in CopyType
    BY <2>1 DEF ArrayState
  <2> QED
    BY <1>3, <2>2 DEF Tracked
<1>4. CASE c.op \in {"Pointer", "AttribPointer"}
  BY <1>1, <1>4, MeantTypes DEF Tracked, WellFormed
<1>5. CASE c.op = "Interleaved"
  BY <1>5 DEF Tracked
<1>6. CASE c.op \in {"BindArray", "BindElement", "DeleteBuffer"}
  <2>1. c.name \in Buffers \union {0} /\ Null \in Address
    BY <1>6, Addresses DEF WellFormed
  <2>2. \A r \in CopyType : InVao(r) \in CopyType /\ PtrReset(r) \in CopyType
    BY <2>1 DEF InVao, PtrReset
  <2>3. [s EXCEPT !.arrayBuf = c.name] \in CopyType /\ [s EXCEPT !.elemBuf = c.name] \in CopyType
    BY <2>1
  <2>4. [s EXCEPT !.arrayBuf = IF @ = c.name THEN 0 ELSE @,
                  !.elemBuf = IF @ = c.name THEN 0 ELSE @] \in CopyType
    OBVIOUS
  <2>5. CASE c.op = "BindArray"
    BY <2>2, <2>3, <2>5 DEF Tracked, BindArrayBuffer
  <2>6. CASE c.op = "BindElement"
    BY <2>2, <2>3, <2>6 DEF Tracked
  <2>7. CASE c.op = "DeleteBuffer"
    <3> DEFINE rest == [s EXCEPT !.arrayBuf = IF @ = c.name THEN 0 ELSE @,
                                 !.elemBuf = IF @ = c.name THEN 0 ELSE @]
    <3>1. Tracked(s, c) =
            InVao(IF s.vao = 0 /\ s.arrayBuf = c.name THEN PtrReset(rest) ELSE rest)
      BY <2>7 DEF Tracked, DeleteBuffer
    <3>2. rest \in CopyType
      BY <2>4
    <3> HIDE DEF rest, CopyType
    <3> QED
      BY <2>2, <3>1, <3>2
  <2> QED
    BY <1>6, <2>5, <2>6, <2>7
<1>7. CASE c.op \in {"BindVao", "DeleteVao"}
  BY <1>7 DEF Tracked, BindVertexArray, WellFormed
<1>8. CASE c.op \notin {"ActiveTexture", "Enable", "EnableAttrib", "EnableCap", "Disable",
                        "DisableAttrib", "DisableCap", "Pointer", "AttribPointer",
                        "Interleaved", "BindArray", "BindElement", "DeleteBuffer", "BindVao",
                        "DeleteVao"}
  BY <1>8 DEF Tracked
<1> QED
  BY <1>2, <1>3, <1>4, <1>5, <1>6, <1>7, <1>8

\* And a draw.
LEMMA AfterDrawTypes ==
  ASSUME NEW s \in CopyType, NEW op
  PROVE  AfterDraw(s, op) \in CopyType
  BY DEF CopyType, AfterDraw

\* So does the client state of OpenGL.
LEMMA SourceTypes ==
  ASSUME NEW gl \in GLType, NEW p \in Address
  PROVE  GLSource(gl, p) \in Address
<1>1. gl.arrayBuf \in Buffers \union {0}
  BY DEF GLType
<1> QED
  BY <1>1, Addresses DEF GLSource

\* A source that changes alone.
LEMMA SourcesChanged ==
  ASSUME NEW V, NEW f \in [V -> [Arrays -> Address]], NEW v \in V, NEW a, NEW p \in Address
  PROVE  [f EXCEPT ![v][a] = p] \in [V -> [Arrays -> Address]]
<1>1. [f[v] EXCEPT ![a] = p] \in [Arrays -> Address]
  OBVIOUS
<1> QED
  BY <1>1

\* What a call does to the client state: the types.
LEMMA GLCallTypes ==
  ASSUME NEW gl \in GLType, NEW c, c.ptr \in Address, WellFormed(c)
  PROVE  GLCall(gl, c) \in GLType
<1> DEFINE a == Meant(gl, c.what)
           v == gl.vao
<1>1. /\ gl.unit \in Units /\ v \in Vaos \union {0} /\ gl.arrayBuf \in Buffers \union {0}
      /\ gl.on \in [Vaos \union {0} -> SUBSET Arrays]
      /\ gl.src \in [Vaos \union {0} -> [Arrays -> Address]]
      /\ gl.elem \in [Vaos \union {0} -> Buffers \union {0}]
      /\ Null \in Address /\ GLSource(gl, c.ptr) \in Address
      /\ Units \subseteq Arrays /\ "vertex" \in Arrays
  BY SourceTypes, Addresses DEF GLType, Arrays
<1>2. c.what \in Whats => a \in Arrays
  BY <1>1, MeantTypes
<1> HIDE DEF a, v
<1> USE DEF GLType
<1>3. CASE c.op = "ActiveTexture"
  BY <1>3 DEF GLCall, WellFormed
<1>4. CASE c.op \in {"Enable", "EnableAttrib", "EnableCap"}
  <2>1. a \in Arrays /\ GLCall(gl, c) = [gl EXCEPT !.on[v] = @ \union {a}]
    BY <1>2, <1>4 DEF GLCall, WellFormed, a, v
  <2> QED
    BY <1>1, <2>1
<1>5. CASE c.op \in {"Disable", "DisableAttrib", "DisableCap"}
  <2>1. GLCall(gl, c) = [gl EXCEPT !.on[v] = @ \ {a}]
    BY <1>5 DEF GLCall, a, v
  <2> QED
    BY <1>1, <2>1
<1>6. CASE c.op \in {"Pointer", "AttribPointer"}
  <2>1. GLCall(gl, c) = [gl EXCEPT !.src = [gl.src EXCEPT ![v][a] = GLSource(gl, c.ptr)]]
    BY <1>6 DEF GLCall, a, v
  <2>2. [gl.src EXCEPT ![v][a] = GLSource(gl, c.ptr)] \in [Vaos \union {0} -> [Arrays -> Address]]
    BY <1>1, SourcesChanged
  <2> QED
    BY <2>1, <2>2
<1>7. CASE c.op = "Interleaved"
  <2> DEFINE once == [gl.src EXCEPT ![v]["vertex"] = GLSource(gl, c.ptr)]
             twice == [once EXCEPT ![v][gl.unit] = GLSource(gl, c.ptr)]
             on == [gl.on EXCEPT ![v] = @ \union {"vertex", gl.unit}]
  <2>1. GLCall(gl, c) = [gl EXCEPT !.on = on, !.src = twice]
    BY <1>7 DEF GLCall, v
  <2>2. once \in [Vaos \union {0} -> [Arrays -> Address]]
    BY <1>1, SourcesChanged
  <2>3. twice \in [Vaos \union {0} -> [Arrays -> Address]]
    <3> HIDE DEF once
    <3> QED
      BY <1>1, <2>2, SourcesChanged
  <2>4. on \in [Vaos \union {0} -> SUBSET Arrays]
    BY <1>1
  <2> HIDE DEF on, twice
  <2> QED
    BY <2>1, <2>3, <2>4
<1>8. CASE c.op \in {"BindArray", "BindElement"}
  BY <1>1, <1>8 DEF GLCall, WellFormed, v
<1>9. CASE c.op = "DeleteBuffer"
  <2> DEFINE b == c.name
             src == [gl.src EXCEPT ![v] =
                       [x \in Arrays |-> IF @[x] = Source(b) THEN Null ELSE @[x]]]
             elem == [gl.elem EXCEPT ![v] = IF @ = b THEN 0 ELSE @]
  <2>1. src \in [Vaos \union {0} -> [Arrays -> Address]]
    BY <1>1
  <2>2. elem \in [Vaos \union {0} -> Buffers \union {0}]
    BY <1>1
  <2>3. GLCall(gl, c) = [gl EXCEPT !.arrayBuf = IF @ = b THEN 0 ELSE @, !.elem = elem, !.src = src]
    BY <1>9 DEF GLCall, GLDeleteBuffer, v
  <2> HIDE DEF src, elem
  <2> QED
    BY <2>1, <2>2, <2>3
<1>10. CASE c.op \in {"BindVao", "DeleteVao"}
  <2>1. c.name \in Vaos \union {0}
    BY <1>10 DEF WellFormed
  <2>2. GLDeleteVao(gl, c.name) \in GLType
    BY <1>1, <2>1 DEF GLDeleteVao
  <2> QED
    BY <1>10, <2>1, <2>2 DEF GLCall
<1>11. CASE c.op \notin {"ActiveTexture", "Enable", "EnableAttrib", "EnableCap", "Disable",
                         "DisableAttrib", "DisableCap", "Pointer", "AttribPointer",
                         "Interleaved", "BindArray", "BindElement", "DeleteBuffer", "BindVao",
                         "DeleteVao"}
  BY <1>11 DEF GLCall
<1> QED
  BY <1>3, <1>4, <1>5, <1>6, <1>7, <1>8, <1>9, <1>10, <1>11

-----------------------------------------------------------------------------
(* The vertex cache.                                                       *)

\* A set of numbers has a least one.
LEMMA LeastOf ==
  ASSUME NEW S \in SUBSET Nat, S # {}
  PROVE  \E x \in S : \A y \in S : x <= y
<1> DEFINE less == OpToRel(<, Nat)
<1>1. IsWellFoundedOn(less, Nat)
  BY NatLessThanWellFounded
<1>2. PICK x \in S : \A y \in S : <<y, x>> \notin less
  <2> HIDE DEF less
  <2> QED
    BY <1>1, WFMin
<1>3. \A m, n \in Nat : m < n => <<m, n>> \in less
  BY DEF OpToRel
<1> HIDE DEF less
<1>4. ASSUME NEW y \in S PROVE x <= y
  <2>1. x \in Nat /\ y \in Nat /\ ~(y < x)
    BY <1>2, <1>3
  <2> QED
    BY <2>1
<1> QED
  BY <1>4

\* What a cache is made of.
LEMMA CacheShape ==
  ASSUME NEW c, CacheType(c)
  PROVE  /\ Len(c) \in Nat /\ DOMAIN c = 1 .. Len(c)
         /\ \A e \in DOMAIN c : c[e].lo \in Nat /\ c[e].hi \in Nat
<1>1. PICK D : c \in Seq([lo : Nat, hi : Nat, data : D])
  BY DEF CacheType
<1> DEFINE Entry == [lo : Nat, hi : Nat, data : D]
<1>2. Len(c) \in Nat /\ DOMAIN c = 1 .. Len(c) /\ \A e \in 1 .. Len(c) : c[e] \in Entry
  <2> HIDE DEF Entry
  <2>1. c \in Seq(Entry)
    BY <1>1 DEF Entry
  <2> QED
    BY <2>1
<1> QED
  BY <1>2

\* There are not more entries than blocks.
LEMMA CacheBound ==
  ASSUME NEW c, CacheType(c), MadeInv(c)
  PROVE  Len(c) <= Cardinality(Mem)
<1>1. Len(c) \in Nat /\ DOMAIN c = 1 .. Len(c)
  BY CacheShape
<1>2. PICK made \in [DOMAIN c -> Mem] :
        \A e \in DOMAIN c : /\ Serves(c[e], made[e])
                            /\ \A f \in 1 .. e - 1 : ~Serves(c[f], made[e])
  BY DEF MadeInv
<1>3. ASSUME NEW e \in DOMAIN c, NEW f \in DOMAIN c, made[e] = made[f]
      PROVE  ~(f < e)
  <2>1. f < e => f \in 1 .. e - 1
    BY <1>1
  <2> QED
    BY <1>2, <1>3, <2>1
<1>4. \A e, f \in DOMAIN c : made[e] = made[f] => e = f
  <2>1. \A e, f \in DOMAIN c : ~(f < e) /\ ~(e < f) => e = f
    BY <1>1
  <2> QED
    BY <1>3, <2>1
<1>5. made \in Injection(1 .. Len(c), Mem)
  BY <1>1, <1>2, <1>4 DEF Injection, IsInjective
<1>6. Cardinality(1 .. Len(c)) <= Cardinality(Mem)
  BY <1>5, ConstantsAssumption, FS_Injection
<1>7. Cardinality(1 .. Len(c)) = Len(c)
  <2>1. Cardinality(1 .. Len(c)) = IF 1 > Len(c) THEN 0 ELSE Len(c) - 1 + 1
    BY <1>1, FS_Interval
  <2> QED
    BY <1>1, <2>1
<1> QED
  BY <1>6, <1>7

\* A new entry serves the address it is made for.
LEMMA NewEntryServes ==
  ASSUME NEW m \in Mem
  PROVE  /\ Serves(NewEntry(m), m)
         /\ NewEntry(m) \in [lo : Nat, hi : Nat, data : {NewEntry(m).data}]
         /\ NewEntry(m).hi = NewEntry(m).lo + 2 * Size /\ NewEntry(m).lo > 0
<1> DEFINE lo == IF m > Size THEN m - Size ELSE PageSize
<1>1. /\ m \in Nat /\ Size \in Nat /\ PageSize \in Nat /\ m >= PageSize /\ PageSize >= 1
      /\ Half \in Nat /\ Half <= Size /\ lo \in Nat
  BY ConstantsAssumption DEF Half
<1> HIDE DEF lo
<1>2. NewEntry(m).lo = lo /\ NewEntry(m).hi = lo + 2 * Size
  BY DEF NewEntry, lo
<1>3. NewEntry(m) \in [lo : Nat, hi : Nat, data : {NewEntry(m).data}]
  BY <1>1 DEF NewEntry, lo
<1>4. CASE m > Size
  <2>0. lo = m - Size
    BY <1>4 DEF lo
  <2>1. lo + 2 * Size = m + Size /\ m + Size - m >= Half /\ m >= m - Size /\ m < m + Size
    BY <1>1, <1>4, <2>0, ConstantsAssumption
  <2>2. lo > 0
    BY <1>1, <1>4, <2>0
  <2> QED
    BY <1>1, <1>2, <1>3, <2>0, <2>1, <2>2 DEF Serves
<1>5. CASE ~(m > Size)
  <2>0. lo = PageSize
    BY <1>5 DEF lo
  <2>1. m < lo + 2 * Size /\ lo + 2 * Size - m >= Half
    BY <1>1, <1>5, <2>0
  <2> QED
    BY <1>1, <1>2, <1>3, <2>0, <2>1 DEF Serves
<1> QED
  BY <1>4, <1>5

\* The lookup keeps the cache and has an entry for the address.
LEMMA LookedCache ==
  ASSUME CacheInv(cache), NEW m \in Mem
  PROVE  /\ CacheInv(Looked(m)) /\ DOMAIN cache \subseteq DOMAIN Looked(m)
         /\ \E e \in DOMAIN Looked(m) : Serves(Looked(m)[e], m)
<1>1. Len(cache) \in Nat /\ DOMAIN cache = 1 .. Len(cache)
  BY CacheShape DEF CacheInv
<1>2. CASE \E e \in DOMAIN cache : Serves(cache[e], m)
  BY <1>2 DEF Looked
<1>3. CASE ~ \E e \in DOMAIN cache : Serves(cache[e], m)
  <2> DEFINE n == Len(cache) + 1
             e1 == NewEntry(m)
             c == Append(cache, e1)
  <2>1. Looked(m) = c
    BY <1>3 DEF Looked
  <2>2. /\ Serves(e1, m) /\ e1 \in [lo : Nat, hi : Nat, data : {e1.data}]
        /\ e1.hi = e1.lo + 2 * Size /\ e1.lo > 0
    BY NewEntryServes
  <2> HIDE DEF e1
  <2>3. CacheType(c)
    <3>1. PICK D : cache \in Seq([lo : Nat, hi : Nat, data : D])
      BY DEF CacheInv, CacheType
    <3> DEFINE E1 == [lo : Nat, hi : Nat, data : D]
               E2 == [lo : Nat, hi : Nat, data : D \union {e1.data}]
    <3>2. E1 \subseteq E2 /\ e1 \in E2
      BY <2>2
    <3>3. c \in Seq(E2)
      <4> HIDE DEF E1, E2
      <4>1. cache \in Seq(E1)
        BY <3>1 DEF E1
      <4>2. cache \in Seq(E2)
        BY <3>2, <4>1
      <4> QED
        BY <3>2, <4>2
    <3> QED
      BY <3>3 DEF CacheType
  <2>4. DOMAIN c = 1 .. n /\ c[n] = e1 /\ \A e \in 1 .. Len(cache) : c[e] = cache[e]
    <3>1. PICK E : cache \in Seq(E)
      BY DEF CacheInv, CacheType
    <3> QED
      BY <3>1
  <2> HIDE DEF c
  <2>5. \A e \in 1 .. n : e = n \/ e \in 1 .. Len(cache)
    BY <1>1
  <2>6. RangeInv(c)
    BY <1>1, <2>2, <2>4, <2>5 DEF RangeInv, CacheInv
  <2>7. MadeInv(c)
    <3>1. PICK made \in [DOMAIN cache -> Mem] :
          \A e \in DOMAIN cache : /\ Serves(cache[e], made[e])
                                  /\ \A f \in 1 .. e - 1 : ~Serves(cache[f], made[e])
      BY DEF CacheInv, MadeInv
    <3> DEFINE new == [e \in 1 .. n |-> IF e = n THEN m ELSE made[e]]
    <3>2. new \in [DOMAIN c -> Mem]
      BY <1>1, <2>4, <2>5, <3>1
    <3>3. ASSUME NEW e \in 1 .. n
          PROVE  Serves(c[e], new[e]) /\ \A f \in 1 .. e - 1 : ~Serves(c[f], new[e])
      <4>1. \A f \in 1 .. e - 1 : f \in 1 .. Len(cache) /\ c[f] = cache[f]
        BY <1>1, <2>4
      <4>2. CASE e = n
        BY <1>1, <1>3, <2>2, <2>4, <4>1, <4>2
      <4>3. CASE e # n
        <5>1. e \in DOMAIN cache /\ c[e] = cache[e] /\ new[e] = made[e]
          BY <1>1, <2>4, <2>5, <4>3
        <5> QED
          BY <3>1, <4>1, <5>1
      <4> QED
        BY <4>2, <4>3
    <3> HIDE DEF new
    <3> QED
      BY <2>4, <3>2, <3>3 DEF MadeInv
  <2> QED
    BY <1>1, <2>1, <2>2, <2>3, <2>4, <2>6, <2>7 DEF CacheInv
<1> QED
  BY <1>2, <1>3

\* The places in a cache that have half a cache behind them.
Live(c) == {Cached(e, off) : e \in DOMAIN c, off \in 0 .. 2 * Size - Half}

\* Such places are addresses: there are not more entries than blocks.
LEMMA LiveAddress ==
  ASSUME NEW c, CacheInv(c)
  PROVE  Live(c) \subseteq Places
<1>1. DOMAIN c = 1 .. Len(c) /\ Len(c) \in Nat /\ Len(c) <= Cardinality(Mem)
  BY CacheShape, CacheBound DEF CacheInv
<1>2. Cardinality(Mem) \in Nat
  BY ConstantsAssumption, FS_CardinalityType
<1>3. Size \in Nat /\ Half \in Nat /\ Half >= 1
  BY ConstantsAssumption DEF Half
<1>4. DOMAIN c \subseteq 1 .. Cardinality(Mem) /\ 0 .. 2 * Size - Half \subseteq 0 .. 2 * Size - 1
  BY <1>1, <1>2, <1>3
<1> QED
  BY <1>4 DEF Live, Places

\* The address that the library is given for one of client memory is such a place.
LEMMA LookupPlace ==
  ASSUME CacheInv(cache), NEW m \in Mem
  PROVE  LookupVertex(m) \in Live(Looked(m))
<1> DEFINE c == Looked(m)
           Good(e) == e \in DOMAIN c /\ Serves(c[e], m) /\ \A j \in 1 .. e - 1 : ~Serves(c[j], m)
           all == {e \in DOMAIN c : Serves(c[e], m)}
           found == CHOOSE e \in DOMAIN c :
                      Serves(c[e], m) /\ \A j \in 1 .. e - 1 : ~Serves(c[j], m)
<1>1. CacheInv(c) /\ \E e \in DOMAIN c : Serves(c[e], m)
  BY LookedCache
<1> HIDE DEF c
<1>2. /\ DOMAIN c = 1 .. Len(c) /\ Len(c) \in Nat
      /\ \A e \in DOMAIN c : c[e].lo \in Nat /\ c[e].hi \in Nat /\ c[e].hi = c[e].lo + 2 * Size
  BY <1>1, CacheShape DEF CacheInv, RangeInv
<1>3. \E e \in DOMAIN c : Serves(c[e], m) /\ \A j \in 1 .. e - 1 : ~Serves(c[j], m)
  <2>1. all # {} /\ all \in SUBSET Nat
    BY <1>1, <1>2
  <2>2. PICK e \in all : \A y \in all : e <= y
    <3> HIDE DEF all
    <3> QED
      BY <2>1, LeastOf
  <2>3. \A j \in 1 .. e - 1 : j \in DOMAIN c /\ ~(e <= j)
    BY <1>2
  <2> QED
    BY <2>2, <2>3
<1>4. Good(found)
  BY <1>3
<1>5. LookupVertex(m) = Cached(found, m - c[found].lo)
  BY DEF LookupVertex, c
<1> HIDE DEF found
<1>6. m - c[found].lo \in 0 .. 2 * Size - Half
  <2>1. m \in Nat /\ m >= PageSize /\ Size \in Nat /\ Half \in Nat /\ PageSize \in Nat
    BY ConstantsAssumption DEF Half
  <2>2. c[found].lo \in Nat /\ c[found].hi \in Nat /\ c[found].hi = c[found].lo + 2 * Size
    BY <1>2, <1>4
  <2> DEFINE lo == c[found].lo
             hi == c[found].hi
  <2>3. (m >= lo \/ lo = PageSize) /\ hi - m >= Half
    BY <1>4 DEF Serves
  <2> HIDE DEF lo, hi
  <2>4. lo \in Nat /\ hi \in Nat /\ hi = lo + 2 * Size
    BY <2>2 DEF lo, hi
  <2>5. m - lo \in 0 .. 2 * Size - Half
    BY <2>1, <2>3, <2>4
  <2> QED
    BY <2>5 DEF lo
<1> QED
  BY <1>4, <1>5, <1>6 DEF Live, c

\* Copying data moves no entry.
LEMMA CopiedCache ==
  ASSUME CacheInv(cache), NEW taken, NEW data, NEW part
  PROVE  /\ CacheInv(Copied(taken, data, part))
         /\ DOMAIN Copied(taken, data, part) = DOMAIN cache
<1> DEFINE c == Copied(taken, data, part)
<1>1. PICK D : cache \in Seq([lo : Nat, hi : Nat, data : D])
  BY DEF CacheInv, CacheType
<1> DEFINE Entry == [lo : Nat, hi : Nat, data : D]
<1>2. /\ Len(cache) \in Nat /\ DOMAIN cache = 1 .. Len(cache)
      /\ \A e \in 1 .. Len(cache) : cache[e] \in Entry
  <2> HIDE DEF Entry
  <2>1. cache \in Seq(Entry)
    BY <1>1 DEF Entry
  <2> QED
    BY <2>1
<1>3. /\ c = [e \in 1 .. Len(cache) |-> c[e]]
      /\ \A e \in 1 .. Len(cache) : c[e] = [cache[e] EXCEPT !.data = c[e].data]
  BY <1>2 DEF Copied
<1> HIDE DEF c
<1> DEFINE D2 == {c[e].data : e \in 1 .. Len(cache)}
<1>4. \A e \in 1 .. Len(cache) : /\ c[e].lo = cache[e].lo /\ c[e].hi = cache[e].hi
                                 /\ c[e] \in [lo : Nat, hi : Nat, data : D2]
  BY <1>2, <1>3
<1>5. DOMAIN c = 1 .. Len(cache)
  BY <1>3
<1>6. CacheType(c)
  <2> DEFINE E2 == [lo : Nat, hi : Nat, data : D2]
  <2>1. c \in Seq(E2)
    <3> HIDE DEF E2
    <3>1. \A e \in 1 .. Len(cache) : c[e] \in E2
      BY <1>4 DEF E2
    <3>2. c \in [1 .. Len(cache) -> E2]
      BY <1>3, <3>1
    <3> QED
      BY <1>2, <3>2
  <2> QED
    BY <2>1 DEF CacheType
<1>7. RangeInv(c)
  BY <1>2, <1>4, <1>5 DEF CacheInv, RangeInv
<1>8. MadeInv(c)
  <2>1. PICK made \in [DOMAIN cache -> Mem] :
        \A e \in DOMAIN cache : /\ Serves(cache[e], made[e])
                                /\ \A f \in 1 .. e - 1 : ~Serves(cache[f], made[e])
    BY DEF CacheInv, MadeInv
  <2>2. \A m : \A e \in 1 .. Len(cache) : Serves(c[e], m) <=> Serves(cache[e], m)
    BY <1>4 DEF Serves
  <2>3. \A e \in 1 .. Len(cache) : \A f \in 1 .. e - 1 : f \in 1 .. Len(cache)
    BY <1>2
  <2> QED
    BY <1>2, <1>5, <2>1, <2>2, <2>3 DEF MadeInv
<1> QED
  BY <1>2, <1>5, <1>6, <1>7, <1>8 DEF CacheInv, c

-----------------------------------------------------------------------------
(* The two copies.                                                         *)

\* A draw carries the same arrays whichever of two alike copies decides.
LEMMA AlikeCarried ==
  ASSUME NEW s \in CopyType, NEW d \in CopyType, Alike(s, d), NEW op
  PROVE  /\ Carried(s, op) = Carried(d, op)
         /\ PushesArrays(s, op) = PushesArrays(d, op)
         /\ PushesInterleaved(s) = PushesInterleaved(d)
<1>1. /\ s.on = d.on /\ s.interleaved = d.interleaved
      /\ s.arrayBuf = d.arrayBuf /\ s.elemBuf = d.elemBuf
      /\ s.interPtr = Null <=> d.interPtr = Null
      /\ \A a \in Arrays : s.ptr[a] = Null <=> d.ptr[a] = Null
  BY DEF Alike
<1>2. s.on \subseteq Arrays
  BY DEF CopyType
<1>3. {a \in s.on : s.ptr[a] # Null} = {a \in d.on : d.ptr[a] # Null}
  BY <1>1, <1>2
<1>4. PushesArrays(s, op) = PushesArrays(d, op)
  BY <1>1 DEF PushesArrays
<1>5. PushesInterleaved(s) = PushesInterleaved(d)
  BY <1>1 DEF PushesInterleaved
<1>6. SendsIndices(s, op) = SendsIndices(d, op)
  BY <1>1 DEF SendsIndices
<1>7. Pushed(s) = Pushed(d)
  BY <1>3, <1>5 DEF Pushed
<1> QED
  BY <1>4, <1>5, <1>6, <1>7 DEF Carried

\* Alike copies stay alike over a draw.
LEMMA AlikeAfterDraw ==
  ASSUME NEW s \in CopyType, NEW d \in CopyType, Alike(s, d), NEW op
  PROVE  Alike(AfterDraw(s, op), AfterDraw(d, op))
<1>1. (PushesArrays(s, op) /\ PushesInterleaved(s)) = (PushesArrays(d, op) /\ PushesInterleaved(d))
  BY AlikeCarried
<1>2. Alike([s EXCEPT !.interleaved = FALSE], [d EXCEPT !.interleaved = FALSE])
  BY DEF Alike, CopyType
<1> QED
  BY <1>1, <1>2 DEF AfterDraw

\* Two calls that differ in the address only, and not in whether it is null.
SameCall(c, g) ==
  /\ c.op = g.op /\ c.what = g.what /\ c.name = g.name
  /\ c.ptr = Null <=> g.ptr = Null

\* And over a call, though it gives them different addresses.
LEMMA AlikeTracked ==
  ASSUME NEW s \in CopyType, NEW d \in CopyType, Alike(s, d),
         NEW c, NEW g, SameCall(c, g), WellFormed(c)
  PROVE  Alike(Tracked(s, c), Tracked(d, g))
<1> USE DEF CopyType, Alike
<1>1. g.op = c.op /\ g.what = c.what /\ g.name = c.name /\ (c.ptr = Null <=> g.ptr = Null)
  BY DEF SameCall
<1>2. CASE c.op = "ActiveTexture"
  BY <1>1, <1>2 DEF Tracked
<1>3. CASE c.op \in {"Enable", "EnableAttrib", "EnableCap", "Disable", "DisableAttrib",
                     "DisableCap"}
  <2>1. Meant(s, c.what) = Meant(d, c.what)
    BY DEF Meant
  <2>2. Alike(ArrayState(s, c), ArrayState(d, g))
    BY <1>1, <2>1 DEF ArrayState
  <2> QED
    BY <1>1, <1>3, <2>2 DEF Tracked
<1>4. CASE c.op \in {"Pointer", "AttribPointer"}
  <2>1. Meant(s, c.what) = Meant(d, c.what)
    BY DEF Meant
  <2> DEFINE a == Meant(s, c.what)
             sp == [s.ptr EXCEPT ![a] = c.ptr]
             dp == [d.ptr EXCEPT ![a] = g.ptr]
  <2>2. Tracked(s, c) = [s EXCEPT !.ptr = sp] /\ Tracked(d, g) = [d EXCEPT !.ptr = dp]
    BY <1>1, <1>4, <2>1 DEF Tracked
  <2>3. \A x \in Arrays : sp[x] = Null <=> dp[x] = Null
    <3>1. \A x \in Arrays : /\ sp[x] = IF x = a THEN c.ptr ELSE s.ptr[x]
                            /\ dp[x] = IF x = a THEN g.ptr ELSE d.ptr[x]
      <4> HIDE DEF a
      <4> QED
        OBVIOUS
    <3> QED
      BY <1>1, <3>1
  <2> HIDE DEF sp, dp
  <2> QED
    BY <2>2, <2>3
<1>5. CASE c.op = "Interleaved"
  BY <1>1, <1>5 DEF Tracked
<1>6. CASE c.op \in {"BindArray", "BindElement", "DeleteBuffer"}
  <2>2. ASSUME NEW r \in CopyType, NEW q \in CopyType, Alike(r, q)
        PROVE  Alike(InVao(r), InVao(q)) /\ Alike(PtrReset(r), PtrReset(q))
    BY <2>2 DEF InVao, PtrReset
  <2>3. ASSUME NEW r \in CopyType PROVE PtrReset(r) \in CopyType
    BY Addresses DEF PtrReset
  <2>5. CASE c.op = "BindArray"
    <3> DEFINE r == [s EXCEPT !.arrayBuf = c.name]
               q == [d EXCEPT !.arrayBuf = c.name]
    <3>1. r \in CopyType /\ q \in CopyType /\ Alike(r, q)
      BY <2>5 DEF WellFormed
    <3>2. Tracked(s, c) = InVao(IF s.vao = 0 /\ c.name = 0 THEN PtrReset(r) ELSE r)
      BY <2>5 DEF Tracked, BindArrayBuffer
    <3>3. Tracked(d, g) = InVao(IF s.vao = 0 /\ c.name = 0 THEN PtrReset(q) ELSE q)
      BY <1>1, <2>5 DEF Tracked, BindArrayBuffer
    <3> HIDE DEF r, q, CopyType, Alike
    <3> QED
      BY <2>2, <2>3, <3>1, <3>2, <3>3
  <2>6. CASE c.op = "BindElement"
    <3> DEFINE r == [s EXCEPT !.elemBuf = c.name]
               q == [d EXCEPT !.elemBuf = c.name]
    <3>1. r \in CopyType /\ q \in CopyType /\ Alike(r, q)
      BY <2>6 DEF WellFormed
    <3>2. Tracked(s, c) = InVao(r) /\ Tracked(d, g) = InVao(q)
      BY <1>1, <2>6 DEF Tracked
    <3> HIDE DEF r, q, CopyType, Alike
    <3> QED
      BY <2>2, <3>1, <3>2
  <2>7. CASE c.op = "DeleteBuffer"
    <3> DEFINE r == [s EXCEPT !.arrayBuf = IF @ = c.name THEN 0 ELSE @,
                              !.elemBuf = IF @ = c.name THEN 0 ELSE @]
               q == [d EXCEPT !.arrayBuf = IF @ = c.name THEN 0 ELSE @,
                              !.elemBuf = IF @ = c.name THEN 0 ELSE @]
    <3>1. r \in CopyType /\ q \in CopyType /\ Alike(r, q)
      OBVIOUS
    <3>2. Tracked(s, c) = InVao(IF s.vao = 0 /\ s.arrayBuf = c.name THEN PtrReset(r) ELSE r)
      BY <2>7 DEF Tracked, DeleteBuffer
    <3>3. Tracked(d, g) = InVao(IF s.vao = 0 /\ s.arrayBuf = c.name THEN PtrReset(q) ELSE q)
      BY <1>1, <2>7 DEF Tracked, DeleteBuffer
    <3> HIDE DEF r, q, CopyType, Alike
    <3> QED
      BY <2>2, <2>3, <3>1, <3>2, <3>3
  <2> QED
    BY <1>6, <2>5, <2>6, <2>7
<1>7. CASE c.op \in {"BindVao", "DeleteVao"}
  <2>1. \A v : Alike(BindVertexArray(s, v), BindVertexArray(d, v))
    BY DEF BindVertexArray
  <2>2. s.vao = d.vao
    OBVIOUS
  <2> HIDE DEF Alike, CopyType
  <2> QED
    BY <1>1, <1>7, <2>1, <2>2 DEF Tracked
<1>8. CASE c.op \notin {"ActiveTexture", "Enable", "EnableAttrib", "EnableCap", "Disable",
                        "DisableAttrib", "DisableCap", "Pointer", "AttribPointer",
                        "Interleaved", "BindArray", "BindElement", "DeleteBuffer", "BindVao",
                        "DeleteVao"}
  BY <1>1, <1>8 DEF Tracked
<1> QED
  BY <1>2, <1>3, <1>4, <1>5, <1>6, <1>7, <1>8

\* The address the library is given is one, and null as before.
LEMMA GivenTypes ==
  ASSUME CacheInv(cache), NEW c \in Calls
  PROVE  /\ SameCall(c, Given(c)) /\ WellFormed(Given(c)) /\ Given(c).ptr \in Address
         /\ Looks(c) => c.ptr[2] \in Mem /\ Given(c).ptr \in Live(Looked(c.ptr[2]))
         /\ ~Looks(c) => Given(c) = c
<1>1. c \in CallType /\ WellFormed(c) /\ c.ptr \in {Null, Offset} \union Clients
  BY DEF Calls, CallType
<1>2. CASE Looks(c)
  <2>1. c.ptr[1] = "client"
    BY <1>2 DEF Looks
  <2>2. c.ptr[2] \in Mem /\ c.ptr # Null
    BY <1>1, <2>1, Kinds DEF Clients
  <2>3. LookupVertex(c.ptr[2]) \in Live(Looked(c.ptr[2]))
    BY <2>2, LookupPlace
  <2>4. LookupVertex(c.ptr[2]) \in Places
    BY <2>2, <2>3, LookedCache, LiveAddress
  <2>5. LookupVertex(c.ptr[2]) # Null /\ LookupVertex(c.ptr[2]) \in Address
    BY <2>4, Kinds, Addresses DEF Places
  <2>6. Given(c) = [c EXCEPT !.ptr = LookupVertex(c.ptr[2])]
    BY <1>2 DEF Given
  <2>7. /\ Given(c).op = c.op /\ Given(c).what = c.what /\ Given(c).name = c.name
        /\ Given(c).ptr = LookupVertex(c.ptr[2])
    BY <1>1, <2>6 DEF CallType
  <2> QED
    BY <1>1, <1>2, <2>2, <2>3, <2>5, <2>7 DEF SameCall, WellFormed
<1>3. CASE ~Looks(c)
  BY <1>1, <1>3, Addresses DEF Given, SameCall
<1> QED
  BY <1>2, <1>3

-----------------------------------------------------------------------------
(* The program's calls, each one queued as such.                           *)

\* What an orderly program's call relies on.
Kept(c, s) ==
  /\ c.op \in Draws => (Near => MayReach(c.part))
  /\ IF kit.style = "objects"
     THEN /\ c.op \in {"Enable", "EnableAttrib", "EnableCap", "Interleaved"} => s.vao # 0
          /\ c.op \in Draws => c.op \in {"DrawArrays", "DrawElements"} /\ s.vao # 0
     ELSE /\ c.op \notin {"BindVao", "DeleteVao"}
          /\ c.op \in {"Pointer", "AttribPointer"} => (c.ptr = Offset <=> s.arrayBuf # 0)
          /\ c.op = "Interleaved" => c.ptr \in Clients
          /\ c.op \in {"ArrayElement", "LockArrays"} => s.arrayBuf = 0

\* The DLL's copy and the program's own state name the same objects.
GuestBound ==
  /\ guest.vao = program.vao
  /\ guest.vao # 0 => guest.arrayBuf = guest.vao /\ guest.elemBuf = guest.vao
  /\ kit.style = "objects" => program.on[0] = {}
  /\ kit.style # "objects" => guest.vao = 0 /\ guest.arrayBuf = program.arrayBuf

\* The calls that give an address, and those with which the copies forget the addresses.
Specifies == {"Pointer", "AttribPointer", "Interleaved"}
Forgets(s, c) ==
  /\ s.vao = 0
  /\ \/ c.op = "BindArray" /\ c.name = 0
     \/ c.op = "DeleteBuffer" /\ s.arrayBuf = c.name

\* What a call means for the arrays that are lost and those of glInterleavedArrays.
Noted(c) ==
  /\ \A m : c.ptr = Client(m) => m \in kit.blocks
  /\ kit.style = "conventional" => c.op \notin {"EnableAttrib", "EnableCap", "DisableAttrib",
                                                "DisableCap"}
  /\ c.op \in {"Pointer", "AttribPointer"} =>
       /\ c.what = "texcoord" => kit.style = "conventional"
       /\ lost' = lost \ {Meant(program, c.what)} /\ woven' = woven \ {Meant(program, c.what)}
  /\ c.op = "Interleaved" =>
       /\ lost' = (lost \union woven) \ {"vertex", program.unit}
       /\ woven' = {"vertex", program.unit}
  /\ c.op \notin Specifies =>
       woven' = woven /\ lost \subseteq lost' /\ (Forgets(program, c) => Forgotten \subseteq lost')

\* What the DLL sends for an array, and with a draw.
Value(n) ==
  IF n = "indices" THEN "index"
  ELSE LET p == PlaceOf(guest, n) IN IF p[1] = "client" THEN mem[p[2]] ELSE "junk"
Sent(op, part, names, data, want) ==
  /\ names = Carried(guest, op) /\ data = [i \in DOMAIN names |-> Value(names[i])]
  /\ want = Wanted(op)
  /\ Orderly => MayDraw(op, part)

\* No program gives attributes to glEnable and glDisable.
NoCaps == \A k \in Kits : k.style # "caps"

\* The DLL's copy does not follow glEnable and glDisable of an attribute.
Unfollowed == ~NoCaps /\ kit.style = "caps" /\ guest' = guest

Made(c, names, data, want) ==
  /\ Queued(c, names, data, want)
  /\ guest' = Followed(guest, c) \/ Unfollowed
  /\ c.op \in Draws => Sent(c.op, c.part, names, data, want)
  /\ lost' \subseteq Arrays /\ woven' \subseteq Arrays
  /\ Noted(c)
  /\ Orderly /\ GuestBound => Kept(c, guest)

\* What a kit is.
LEMMA KitTypes ==
  ASSUME TInv
  PROVE  /\ kit.style \in {"conventional", "attribs", "objects", "caps"}
         /\ kit.parts \subseteq PartType
         /\ kit.names \subseteq Whats /\ kit.units \subseteq Units /\ kit.blocks \subseteq Mem
         /\ kit.queue \in 1 .. MaxQueue /\ kit.queue \in Nat
<1>1. kit \in KitType
  BY KitsAssumption DEF TInv, TypeOK
<1>2. MaxQueue \in Nat
  BY ConstantsAssumption
<1> QED
  BY <1>1, <1>2 DEF KitType, Whats

\* A call that is not a draw.
LEMMA StateCallMade ==
  ASSUME NEW c \in Calls, c.op \notin Draws, StateCall(c),
         lost' \subseteq Arrays, woven' \subseteq Arrays, Noted(c),
         c.op \in {"EnableCap", "DisableCap"} => ~NoCaps /\ kit.style = "caps",
         Orderly /\ GuestBound => Kept(c, guest)
  PROVE  Made(c, <<>>, <<>>, <<>>)
  BY DEF StateCall, GuestTracks, Made, Followed, Unfollowed

\* What is queued is a call.
LEMMA CallIs ==
  ASSUME NEW op \in Ops,
         NEW what \in Whats \union Units \union {"array", "element", "buffer", "vao", "draw"},
         NEW name \in Buffers \union Vaos \union {0},
         NEW ptr \in {Null, Offset} \union Clients,
         WellFormed(Call(op, what, name, ptr))
  PROVE  /\ Call(op, what, name, ptr) \in Calls
         /\ Call(op, what, name, ptr).op = op /\ Call(op, what, name, ptr).what = what
         /\ Call(op, what, name, ptr).name = name /\ Call(op, what, name, ptr).ptr = ptr
<1>1. Whole \in PartType
  BY ConstantsAssumption DEF Whole, PartType, Half
<1> QED
  BY <1>1 DEF Call, Calls, CallType

\* Sets of arrays.
LEMMA ArraysAre ==
  /\ \A s \in [unit : Units], what \in Whats : Meant(s, what) \in Arrays
  /\ Forgotten \subseteq Arrays
  BY DEF Meant, Whats, Arrays, Units, Forgotten

\* glClientActiveTexture.
LEMMA SelectMade ==
  ASSUME TInv, NEW u \in kit.units, ClientActiveTexture(u)
  PROVE  \E c \in Calls : \E names, data, want : Made(c, names, data, want)
<1> DEFINE c == Call("ActiveTexture", u, 0, Null)
<1>1. u \in Units
  BY KitTypes
<1>2. c.op = "ActiveTexture" /\ c.what = u /\ c.name = 0 /\ c.ptr = Null
  BY DEF Call
<1>3. WellFormed(c)
  BY <1>1, <1>2 DEF WellFormed
<1>4. c \in Calls
  BY <1>1, <1>3, CallIs DEF Ops
<1>5. StateCall(c) /\ lost' \subseteq Arrays /\ woven' \subseteq Arrays
  BY DEF ClientActiveTexture, TInv, TypeOK
<1>6. Kept(c, guest) /\ c.op \notin Draws /\ c.op \notin {"EnableCap", "DisableCap"}
  BY <1>2 DEF Kept, Draws
<1>7. Noted(c)
  BY <1>2, Kinds DEF Noted, Specifies, Forgets, ClientActiveTexture
<1> HIDE DEF c
<1> QED
  BY <1>4, <1>5, <1>6, <1>7, StateCallMade

\* Enabling and disabling.
LEMMA SwitchMade ==
  ASSUME TInv, NEW op \in {"Enable", "Disable"}, NEW what \in kit.names, SwitchArray(op, what)
  PROVE  \E c \in Calls : \E names, data, want : Made(c, names, data, want)
<1> DEFINE on == op = "Enable"
           o == CASE kit.style = "conventional" -> op
                  [] kit.style = "caps" -> IF on THEN "EnableCap" ELSE "DisableCap"
                  [] OTHER -> IF on THEN "EnableAttrib" ELSE "DisableAttrib"
           c == Call(o, what, 0, Null)
<1>1. what \in Whats
  BY KitTypes
<1>2. /\ o \in {"Enable", "EnableAttrib", "EnableCap", "Disable", "DisableAttrib", "DisableCap"}
      /\ kit.style = "conventional" => o \in {"Enable", "Disable"}
      /\ o \in {"EnableCap", "DisableCap"} => kit.style = "caps"
  OBVIOUS
<1>7. StateCall(c) /\ lost' = lost /\ woven' = woven /\ (Orderly => MayName)
  BY DEF SwitchArray
<1> HIDE DEF o
<1>3. c.op = o /\ c.what = what /\ c.name = 0 /\ c.ptr = Null
  BY DEF Call
<1>4. WellFormed(c)
  BY <1>1, <1>2, <1>3 DEF WellFormed
<1>5. c \in Calls
  BY <1>1, <1>2, <1>4, CallIs DEF Ops
<1>6. Orderly /\ GuestBound => Kept(c, guest)
  BY <1>2, <1>3, <1>7 DEF Kept, Draws, GuestBound, MayName
<1>8. c.op \notin Draws
  BY <1>2, <1>3 DEF Draws
<1>9. lost' \subseteq Arrays /\ woven' \subseteq Arrays
  BY <1>7 DEF TInv, TypeOK
<1>10. Noted(c)
  BY <1>2, <1>3, <1>7, Kinds DEF Noted, Specifies, Forgets
<1>11. c.op \in {"EnableCap", "DisableCap"} => ~NoCaps /\ kit.style = "caps"
  BY <1>2, <1>3 DEF NoCaps, TInv, TypeOK
<1> HIDE DEF c
<1> QED
  BY <1>5, <1>6, <1>7, <1>8, <1>9, <1>10, <1>11, StateCallMade

\* The pointer calls.
LEMMA PointMade ==
  ASSUME TInv, NEW what \in kit.names, NEW p \in {Client(m) : m \in kit.blocks} \union {Offset},
         SetPointer(what, p)
  PROVE  \E c \in Calls : \E names, data, want : Made(c, names, data, want)
<1> DEFINE o == IF kit.style = "conventional" THEN "Pointer" ELSE "AttribPointer"
           c == Call(o, what, 0, p)
<1>1. what \in Whats /\ p \in {Null, Offset} \union Clients
  BY KitTypes DEF Clients
<1>2. o \in {"Pointer", "AttribPointer"}
  OBVIOUS
<1>7. /\ StateCall(c) /\ (Orderly => MayPoint(p))
      /\ lost' = lost \ {Meant(program, what)} /\ woven' = woven \ {Meant(program, what)}
  BY DEF SetPointer
<1> HIDE DEF o
<1>3. c.op = o /\ c.what = what /\ c.name = 0 /\ c.ptr = p
  BY DEF Call
<1>4. WellFormed(c)
  BY <1>1, <1>2, <1>3 DEF WellFormed
<1>5. c \in Calls
  BY <1>1, <1>2, <1>4, CallIs DEF Ops
<1>6. Orderly /\ GuestBound => Kept(c, guest)
  BY <1>2, <1>3, <1>7 DEF Kept, Draws, GuestBound, MayPoint
<1>8. c.op \notin Draws /\ c.op \notin {"EnableCap", "DisableCap"}
  BY <1>2, <1>3 DEF Draws
<1>9. lost' \subseteq Arrays /\ woven' \subseteq Arrays
  BY <1>7 DEF TInv, TypeOK
<1>10. what = "texcoord" => kit.style = "conventional"
  BY KitsAssumption DEF TInv, TypeOK
<1>11. \A m : p = Client(m) => m \in kit.blocks
  BY DEF Client, Offset
<1>12. Noted(c)
  BY <1>2, <1>3, <1>7, <1>10, <1>11 DEF Noted, Specifies
<1> HIDE DEF c
<1> QED
  BY <1>5, <1>6, <1>7, <1>8, <1>9, <1>12, StateCallMade

\* glInterleavedArrays.
LEMMA InterleaveMade ==
  ASSUME TInv, NEW m \in kit.blocks, InterleavedArrays(m)
  PROVE  \E c \in Calls : \E names, data, want : Made(c, names, data, want)
<1> DEFINE c == Call("Interleaved", "texcoord", 0, Client(m))
<1>1. Client(m) \in Clients
  BY KitTypes DEF Clients
<1>2. c.op = "Interleaved" /\ c.what = "texcoord" /\ c.name = 0 /\ c.ptr = Client(m)
  BY DEF Call
<1>3. WellFormed(c)
  BY <1>2 DEF WellFormed, Whats
<1>4. c \in Calls
  BY <1>1, <1>3, CallIs DEF Ops, Whats
<1>5. StateCall(c) /\ (Orderly => MayPoint(Client(m)))
  BY DEF InterleavedArrays
<1>6. lost' \subseteq Arrays /\ woven' \subseteq Arrays
  <2>1. program.unit \in Units
    BY DEF TInv, TypeOK, GLType
  <2>2. {"vertex",
         program.unit} \subseteq Arrays /\ lost \subseteq Arrays /\ woven \subseteq Arrays
    BY <2>1 DEF Arrays, TInv, TypeOK
  <2> QED
    BY <2>2 DEF InterleavedArrays
<1>7. Orderly /\ GuestBound => Kept(c, guest)
  BY <1>1, <1>2, <1>5 DEF Kept, Draws, GuestBound, MayPoint, MayName
<1>8. c.op \notin Draws /\ c.op \notin {"EnableCap", "DisableCap"}
  BY <1>2 DEF Draws
<1>9. Noted(c)
  <2>1. \A h : Client(m) = Client(h) => h = m
    BY DEF Client
  <2> QED
    BY <1>2, <2>1 DEF Noted, Specifies, InterleavedArrays
<1> HIDE DEF c
<1> QED
  BY <1>4, <1>5, <1>6, <1>7, <1>8, <1>9, StateCallMade

\* Calls that name an object.
LEMMA NamedMade ==
  ASSUME TInv,
         NEW op \in {"BindArray", "BindElement", "DeleteBuffer", "BindVao", "DeleteVao"},
         NEW what \in {"array", "element", "buffer", "vao"},
         NEW name \in Buffers \union Vaos \union {0},
         op \in {"BindArray", "BindElement", "DeleteBuffer"} => name \in Buffers \union {0},
         op \in {"BindVao", "DeleteVao"} => name \in Vaos \union {0} /\ kit.style = "objects",
         StateCall(Call(op, what, name, Null)),
         lost' \subseteq Arrays, woven' = woven, lost \subseteq lost',
         Forgets(program, Call(op, what, name, Null)) => Forgotten \subseteq lost'
  PROVE  \E c \in Calls : \E names, data, want : Made(c, names, data, want)
<1> DEFINE c == Call(op, what, name, Null)
<1>1. c.op = op /\ c.what = what /\ c.name = name /\ c.ptr = Null
  BY DEF Call
<1>2. WellFormed(c)
  BY <1>1 DEF WellFormed
<1>3. c \in Calls
  BY <1>2, CallIs DEF Ops
<1>4. Kept(c, guest)
  BY <1>1 DEF Kept, Draws
<1>5. c.op \notin Draws /\ c.op \notin {"EnableCap", "DisableCap"}
  BY <1>1 DEF Draws
<1>6. woven' \subseteq Arrays
  BY DEF TInv, TypeOK
<1>7. Noted(c)
  BY <1>1, Kinds DEF Noted, Specifies
<1> HIDE DEF c
<1>8. StateCall(c)
  BY DEF c
<1> QED
  BY <1>3, <1>4, <1>5, <1>6, <1>7, <1>8, StateCallMade

\* The draws.
LEMMA DrawMade ==
  ASSUME TInv, NEW op \in Draws, NEW part \in kit.parts, Draw(op, part)
  PROVE  \E c \in Calls : \E names, data, want : Made(c, names, data, want)
<1> DEFINE c == DrawCall(op, part)
           names == Carried(guest, op)
           data == [i \in DOMAIN names |-> Value(names[i])]
           want == Wanted(op)
<1>1. Queued(c, names, data, want)
  BY DEF Draw, Value
<1>2. /\ c.op = op /\ c.what = "draw" /\ c.name = 0 /\ c.ptr = Null
      /\ c.part = part
  BY DEF DrawCall
<1>3. WellFormed(c)
  BY <1>2 DEF WellFormed, Draws
<1>4. c \in Calls
  <2>1. part \in PartType
    BY KitTypes
  <2>2. c \in CallType
    BY <2>1 DEF DrawCall, CallType, Ops
  <2> QED
    BY <1>3, <2>2 DEF Calls
<1>5. /\ guest' = AfterDraw(guest, op) /\ lost' = lost /\ woven' = woven
      /\ op \in {"ArrayElement", "LockArrays"} => kit.style = "conventional"
      /\ Orderly => MayDraw(op, part)
      /\ Near => MayReach(part)
  BY DEF Draw
<1>6. lost' \subseteq Arrays /\ woven' \subseteq Arrays
  BY <1>5 DEF TInv, TypeOK
<1>7. guest' = Followed(guest, c)
  BY <1>2, <1>5 DEF Followed
<1>8. ASSUME Orderly, GuestBound
      PROVE  Kept(c, guest)
  <2>1. MayDraw(op, part)
    BY <1>5, <1>8
  <2>2. CASE kit.style = "objects"
    <3>1. program.on[program.vao] # {}
      BY <2>1 DEF MayDraw, ReadArrays
    <3>2. guest.vao # 0
      BY <1>8, <2>2, <3>1 DEF GuestBound
    <3> QED
      BY <1>2, <1>5, <2>2, <3>2 DEF Kept, Draws
  <2>3. CASE kit.style # "objects"
    <3>1. op \in {"ArrayElement", "LockArrays"} => guest.arrayBuf = 0
      BY <1>8, <2>1, <2>3 DEF MayDraw, GuestBound
    <3> QED
      BY <1>2, <1>5, <2>3, <3>1 DEF Kept, Draws
  <2> QED
    BY <2>2, <2>3
<1>9. Noted(c) /\ Sent(op, part, names, data, want)
  BY <1>2, <1>5, Kinds DEF Noted, Specifies, Forgets, Sent, Draws
<1> HIDE DEF c, names, data, want
<1>10. Made(c, names, data, want)
  BY <1>1, <1>2, <1>6, <1>7, <1>8, <1>9 DEF Made
<1> QED
  BY <1>4, <1>10

\* What a program does.
LEMMA ProgramsMake ==
  ASSUME TInv, Programs
  PROVE  \/ \E c \in Calls : \E names, data, want : Made(c, names, data, want)
         \/ \E m \in kit.blocks, v \in Values : Write(m, v)
         \/ DeleteContext \/ CreateContext
<1> DEFINE Making == \E c \in Calls : \E names, data, want : Made(c, names, data, want)
<1>1. lost \subseteq Arrays /\ woven \subseteq Arrays /\ Forgotten \subseteq Arrays
  BY ArraysAre DEF TInv, TypeOK
<1>2. ASSUME NEW u \in kit.units, ClientActiveTexture(u) PROVE Making
  BY <1>2, SelectMade
<1>3. ASSUME NEW op \in {"Enable", "Disable"}, NEW what \in kit.names, SwitchArray(op, what)
      PROVE  Making
  BY <1>3, SwitchMade
<1>4. ASSUME NEW what \in kit.names, NEW p \in {Client(m) : m \in kit.blocks} \union {Offset},
             SetPointer(what, p)
      PROVE  Making
  BY <1>4, PointMade
<1>5. ASSUME NEW m \in kit.blocks, InterleavedArrays(m) PROVE Making
  BY <1>5, InterleaveMade
<1>6. ASSUME NEW b \in Buffers \union {0}, BindArray(b) PROVE Making
  <2>1. /\ StateCall(Call("BindArray", "array", b, Null))
        /\ lost' \subseteq Arrays /\ woven' = woven /\ lost \subseteq lost'
        /\ Forgets(program, Call("BindArray", "array", b, Null)) => Forgotten \subseteq lost'
    BY <1>1, <1>6 DEF BindArray, Forgets, Call
  <2> QED
    BY <2>1, NamedMade
<1>7. ASSUME NEW b \in Buffers \union {0}, BindElement(b) PROVE Making
  <2>1. /\ StateCall(Call("BindElement", "element", b, Null))
        /\ lost' \subseteq Arrays /\ woven' = woven /\ lost \subseteq lost'
        /\ Forgets(program, Call("BindElement", "element", b, Null)) => Forgotten \subseteq lost'
    BY <1>1, <1>7 DEF BindElement, Forgets, Call
  <2> QED
    BY <2>1, NamedMade
<1>8. ASSUME NEW b \in Buffers, DeleteBuffers(b) PROVE Making
  <2>1. /\ StateCall(Call("DeleteBuffer", "buffer", b, Null))
        /\ lost' \subseteq Arrays /\ woven' = woven /\ lost \subseteq lost'
        /\ Forgets(program, Call("DeleteBuffer", "buffer", b, Null)) => Forgotten \subseteq lost'
    BY <1>1, <1>8 DEF DeleteBuffers, Forgets, Call
  <2> QED
    BY <2>1, NamedMade
<1>9. ASSUME NEW v \in Vaos \union {0}, BindVao(v) PROVE Making
  <2>1. /\ StateCall(Call("BindVao", "vao", v, Null)) /\ kit.style = "objects"
        /\ lost' \subseteq Arrays /\ woven' = woven /\ lost \subseteq lost'
        /\ ~Forgets(program, Call("BindVao", "vao", v, Null))
    BY <1>1, <1>9 DEF BindVao, Forgets, Call
  <2> QED
    BY <2>1, NamedMade
<1>10. ASSUME NEW v \in Vaos, DeleteVao(v) PROVE Making
  <2>1. /\ StateCall(Call("DeleteVao", "vao", v, Null)) /\ kit.style = "objects"
        /\ lost' \subseteq Arrays /\ woven' = woven /\ lost \subseteq lost'
        /\ ~Forgets(program, Call("DeleteVao", "vao", v, Null))
    BY <1>1, <1>10 DEF DeleteVao, Forgets, Call
  <2> QED
    BY <2>1, NamedMade
<1>11. ASSUME NEW op \in Draws, NEW part \in kit.parts, Draw(op, part) PROVE Making
  BY <1>11, DrawMade
<1> HIDE DEF Making
<1>12. Making \/ (\E m \in kit.blocks, v \in Values : Write(m, v)) \/ DeleteContext \/ CreateContext
  BY <1>2, <1>3, <1>4, <1>5, <1>6, <1>7, <1>8, <1>9, <1>10, <1>11 DEF Programs
<1> QED
  BY <1>12 DEF Making

-----------------------------------------------------------------------------
(* The types.                                                              *)

\* The queue, and what is at its head.
LEMMA FifoIs ==
  ASSUME FifoType
  PROVE  /\ Len(fifo) \in Nat /\ DOMAIN fifo = 1 .. Len(fifo)
         /\ \A k \in 1 .. Len(fifo) : fifo[k].call \in Calls
         /\ fifo # <<>> => /\ Head(fifo) = fifo[1] /\ Len(fifo) >= 1
                           /\ Len(Tail(fifo)) = Len(fifo) - 1
                           /\ \A k \in 1 .. Len(fifo) - 1 : Tail(fifo)[k] = fifo[k + 1]
<1>1. PICK N, D, W : fifo \in Seq([call : Calls, names : N, data : D, want : W])
  BY DEF FifoType
<1> DEFINE E == [call : Calls, names : N, data : D, want : W]
<1>2. /\ Len(fifo) \in Nat /\ DOMAIN fifo = 1 .. Len(fifo)
      /\ \A k \in 1 .. Len(fifo) : fifo[k] \in E
      /\ fifo # <<>> => /\ Head(fifo) = fifo[1] /\ Len(fifo) >= 1
                        /\ Len(Tail(fifo)) = Len(fifo) - 1
                        /\ \A k \in 1 .. Len(fifo) - 1 : Tail(fifo)[k] = fifo[k + 1]
  <2> HIDE DEF E
  <2>1. fifo \in Seq(E)
    BY <1>1 DEF E
  <2> QED
    BY <2>1
<1> QED
  BY <1>2

\* The queue without its head.
LEMMA FifoTail ==
  ASSUME FifoType, fifo # <<>>, fifo' = Tail(fifo)
  PROVE  FifoType'
<1>1. PICK N, D, W : fifo \in Seq([call : Calls, names : N, data : D, want : W])
  BY DEF FifoType
<1> DEFINE E == [call : Calls, names : N, data : D, want : W]
<1>2. fifo' \in Seq(E)
  <2> HIDE DEF E
  <2>1. fifo \in Seq(E)
    BY <1>1 DEF E
  <2> QED
    BY <2>1
<1> QED
  BY <1>2 DEF FifoType

\* The queue with a call more.
LEMMA FifoAppend ==
  ASSUME FifoType, NEW c \in Calls, NEW names, NEW data, NEW want,
         fifo' = Append(fifo, [call |-> c, names |-> names, data |-> data, want |-> want])
  PROVE  /\ FifoType' /\ Len(fifo') = Len(fifo) + 1
         /\ fifo'[Len(fifo) + 1].call = c /\ fifo'[Len(fifo) + 1].names = names
         /\ \A k \in 1 .. Len(fifo) : fifo'[k] = fifo[k]
<1>1. PICK N, D, W : fifo \in Seq([call : Calls, names : N, data : D, want : W])
  BY DEF FifoType
<1> DEFINE E == [call : Calls, names : N, data : D, want : W]
           E2 == [call : Calls, names : N \union {names}, data : D \union {data},
                  want : W \union {want}]
           new == [call |-> c, names |-> names, data |-> data, want |-> want]
<1>2. E \subseteq E2 /\ new \in E2 /\ new.call = c /\ new.names = names
  OBVIOUS
<1>3. /\ fifo' \in Seq(E2) /\ Len(fifo') = Len(fifo) + 1 /\ fifo'[Len(fifo) + 1] = new
      /\ \A k \in 1 .. Len(fifo) : fifo'[k] = fifo[k]
  <2> HIDE DEF E, E2
  <2>1. fifo \in Seq(E) /\ fifo' = Append(fifo, new)
    BY <1>1 DEF E
  <2> HIDE DEF new
  <2>2. fifo \in Seq(E2)
    BY <1>2, <2>1
  <2> QED
    BY <1>2, <2>1, <2>2
<1> QED
  BY <1>2, <1>3 DEF FifoType

\* The states that a context begins with.
LEMMA NewTypes == GLInit \in GLType /\ NoClientState \in CopyType
  BY Addresses DEF GLInit, GLType, NoClientState, CopyType, Units

\* The types hold at first.
LEMMA InitTypes ==
  ASSUME Init
  PROVE  TInv
<1>1. program \in GLType /\ library \in GLType
  BY NewTypes DEF Init
<1>2. guest \in CopyType /\ device \in CopyType
  BY NewTypes DEF Init
<1>3. kit.queue \in Nat
  <2>1. kit \in KitType /\ MaxQueue \in Nat
    BY KitsAssumption, ConstantsAssumption DEF Init
  <2> QED
    BY <2>1 DEF KitType
<1>4. FifoType
  <2>1. fifo \in Seq([call : Calls, names : {}, data : {}, want : {}])
    BY DEF Init
  <2> QED
    BY <2>1 DEF FifoType
<1>5. cache = <<>> /\ DOMAIN cache = {}
  BY DEF Init
<1>6. CacheInv(cache)
  <2>1. CacheType(cache)
    <3>1. cache \in Seq([lo : Nat, hi : Nat, data : {}])
      BY <1>5
    <3> QED
      BY <3>1 DEF CacheType
  <2>2. RangeInv(cache)
    BY <1>5 DEF RangeInv
  <2>3. MadeInv(cache)
    <3>1. [e \in {} |-> 0] \in [DOMAIN cache -> Mem]
      BY <1>5
    <3> QED
      BY <1>5, <3>1 DEF MadeInv
  <2> QED
    BY <2>1, <2>2, <2>3 DEF CacheInv
<1>7. Len(fifo) <= kit.queue
  BY <1>3 DEF Init
<1>8. contexts \in 1 .. MaxContexts /\ context \in BOOLEAN /\ ContextInv
  BY ConstantsAssumption DEF Init, ContextInv
<1>9. /\ kit \in Kits /\ mem \in [kit.blocks -> Values]
      /\ lost \subseteq Arrays /\ woven \subseteq Arrays
  BY DEF Init
<1> QED
  BY <1>1, <1>2, <1>4, <1>5, <1>6, <1>7, <1>8, <1>9 DEF TInv, TypeOK

\* A call is queued.
LEMMA MadeTypes ==
  ASSUME TInv, NEW c \in Calls, NEW names, NEW data, NEW want, Made(c, names, data, want)
  PROVE  TInv'
<1>1. /\ context /\ Len(fifo) < kit.queue
      /\ fifo' = Append(fifo, [call |-> c, names |-> names, data |-> data, want |-> want])
      /\ program' = GLCall(program, c) /\ (guest' = Followed(guest, c) \/ guest' = guest)
      /\ lost' \subseteq Arrays /\ woven' \subseteq Arrays
      /\ kit' = kit /\ mem' = mem /\ contexts' = contexts /\ context' = context
      /\ device' = device /\ cache' = cache /\ library' = library
  BY DEF Made, Unfollowed, Queued, deviceVars
<1>2. c.ptr \in Address /\ WellFormed(c)
  BY Addresses DEF Calls, CallType
<1>3. program' \in GLType
  BY <1>1, <1>2, GLCallTypes DEF TInv, TypeOK
<1>4. guest' \in CopyType
  BY <1>1, <1>2, TrackedTypes, AfterDrawTypes DEF TInv, TypeOK, Followed
<1>5. FifoType' /\ Len(fifo') = Len(fifo) + 1
  BY <1>1, FifoAppend DEF TInv
<1>6. Len(fifo') <= kit'.queue
  BY <1>1, <1>5, FifoIs, KitTypes DEF TInv
<1>7. CacheInv(cache)' /\ ContextInv'
  BY <1>1 DEF TInv, ContextInv
<1> QED
  BY <1>1, <1>3, <1>4, <1>5, <1>6, <1>7 DEF TInv, TypeOK

\* The other steps of a program.
LEMMA ProgramTypes ==
  ASSUME TInv, Programs
  PROVE  TInv'
<1>1. ASSUME NEW m \in kit.blocks, NEW v \in Values, Write(m, v)
      PROVE  TInv'
  <2>1. /\ mem' = [mem EXCEPT ![m] = v] /\ kit' = kit /\ program' = program /\ woven' = woven
        /\ contexts' = contexts /\ context' = context /\ guest' = guest /\ fifo' = fifo
        /\ device' = device /\ cache' = cache /\ library' = library
        /\ lost' = lost \/ lost' = lost \union {a \in woven : program.src[0][a] = Client(m)}
    BY <1>1 DEF Write, deviceVars
  <2>2. lost' \subseteq Arrays
    BY <2>1 DEF TInv, TypeOK
  <2>3. mem' \in [kit.blocks -> Values]
    BY <2>1 DEF TInv, TypeOK
  <2>4. FifoType' /\ CacheInv(cache)' /\ ContextInv'
    BY <2>1 DEF TInv, FifoType, ContextInv
  <2> QED
    BY <2>1, <2>2, <2>3, <2>4 DEF TInv, TypeOK
<1>2. CASE DeleteContext
  <2>0. contexts < MaxContexts
    BY <1>2 DEF DeleteContext
  <2>1. /\ kit' = kit /\ mem' = mem /\ program' = program /\ lost' = lost /\ woven' = woven
        /\ contexts' = contexts /\ guest' = guest /\ fifo' = fifo /\ device' = device
        /\ context' = FALSE /\ fifo = <<>> /\ cache' = <<>>
        /\ library' = [library EXCEPT !.src =
             [v \in DOMAIN @ |-> [a \in Arrays |-> IF @[v][a][1] = "cache" THEN Wild ELSE @[v][a]]]]
    BY <1>2 DEF DeleteContext
  <2>2. library' \in GLType
    <3> DEFINE src == [v \in DOMAIN library.src |->
                        [a \in Arrays |-> IF library.src[v][a][1] = "cache" THEN Wild
                                          ELSE library.src[v][a]]]
    <3>1. library \in GLType /\ Wild \in Address
      BY Addresses DEF TInv, TypeOK
    <3>2. library.src \in [Vaos \union {0} -> [Arrays -> Address]]
      BY <3>1 DEF GLType
    <3>3. src \in [Vaos \union {0} -> [Arrays -> Address]]
      BY <3>1, <3>2
    <3>4. library' = [library EXCEPT !.src = src]
      BY <2>1
    <3> HIDE DEF src
    <3> QED
      BY <3>1, <3>3, <3>4 DEF GLType
  <2>3. CacheInv(cache)' /\ DOMAIN cache' = {}
    <3>1. <<>> \in Seq([lo : Nat, hi : Nat, data : {}]) /\ DOMAIN <<>> = {}
      OBVIOUS
    <3>2. CacheType(<<>>)
      BY <3>1 DEF CacheType
    <3>3. RangeInv(<<>>)
      BY <3>1 DEF RangeInv
    <3>4. [e \in {} |-> 0] \in [DOMAIN <<>> -> Mem]
      BY <3>1
    <3>5. MadeInv(<<>>)
      BY <3>1, <3>4 DEF MadeInv
    <3>6. CacheInv(<<>>)
      BY <3>2, <3>3, <3>5 DEF CacheInv
    <3> QED
      BY <2>1, <3>1, <3>6
  <2>4. FifoType' /\ ContextInv'
    BY <2>0, <2>1 DEF TInv, FifoType, ContextInv
  <2> QED
    BY <2>1, <2>2, <2>3, <2>4 DEF TInv, TypeOK
<1>3. CASE CreateContext
  <2>1. /\ kit' = kit /\ mem' = mem /\ fifo' = fifo /\ cache' = cache /\ library' = library
        /\ context' = TRUE /\ contexts' = contexts + 1 /\ program' = GLInit
        /\ lost' = {} /\ woven' = {} /\ guest' = NoClientState /\ device' = NoClientState
    BY <1>3 DEF CreateContext
  <2>2. contexts' \in 1 .. MaxContexts
    <3>1. ~context /\ contexts < MaxContexts /\ contexts \in 1 .. MaxContexts /\ MaxContexts \in Nat
      BY <1>3, ConstantsAssumption DEF CreateContext, TInv, TypeOK, ContextInv
    <3> QED
      BY <2>1, <3>1
  <2>3. program' \in GLType /\ guest' \in CopyType /\ device' \in CopyType
    BY <2>1, NewTypes
  <2>4. FifoType' /\ CacheInv(cache)' /\ ContextInv'
    BY <2>1 DEF TInv, FifoType, ContextInv
  <2> QED
    BY <2>1, <2>2, <2>3, <2>4 DEF TInv, TypeOK
<1>4. ASSUME NEW c \in Calls, NEW names, NEW data, NEW want, Made(c, names, data, want)
      PROVE  TInv'
  BY <1>4, MadeTypes
<1> QED
  BY <1>1, <1>2, <1>3, <1>4, ProgramsMake

\* The steps of the device.
LEMMA DeviceTypes ==
  ASSUME TInv, DeviceCall \/ DeviceDraw
  PROVE  TInv'
<1>1. /\ fifo # <<>> /\ fifo' = Tail(fifo) /\ Head(fifo).call \in Calls
      /\ FifoType' /\ Len(fifo') <= Len(fifo)
  <2>1. fifo # <<>> /\ fifo' = Tail(fifo)
    BY DEF DeviceCall, DeviceDraw
  <2> QED
    BY <2>1, FifoIs, FifoTail DEF TInv
<1>2. UNCHANGED <<programVars, guest>>
  BY DEF DeviceCall, DeviceDraw
<1>3. device' \in CopyType /\ library' \in GLType /\ CacheInv(cache)'
  <2> DEFINE c == Head(fifo).call
  <2>0. c \in Calls /\ CacheInv(cache) /\ device \in CopyType /\ library \in GLType
    BY <1>1 DEF TInv, TypeOK
  <2>1. CASE DeviceCall
    <3>1. /\ device' = Tracked(device, Given(c)) /\ library' = GLCall(library, Given(c))
          /\ cache' = IF Looks(c) THEN Looked(c.ptr[2]) ELSE cache
      BY <2>1 DEF DeviceCall, DeviceTracks
    <3> HIDE DEF c
    <3>2. /\ WellFormed(Given(c)) /\ Given(c).ptr \in Address
          /\ Looks(c) => c.ptr[2] \in Mem
      BY <2>0, GivenTypes
    <3>3. CacheInv(cache')
      BY <2>0, <3>1, <3>2, LookedCache
    <3> QED
      BY <2>0, <3>1, <3>2, <3>3, TrackedTypes, GLCallTypes
  <2>2. CASE DeviceDraw
    <3>1. /\ device' = AfterDraw(device, c.op) /\ library' = library
          /\ cache' = Copied(Carried(device, c.op), Head(fifo).data, c.part)
      BY <2>2 DEF DeviceDraw
    <3> HIDE DEF c
    <3>2. CacheInv(cache')
      BY <2>0, <3>1, CopiedCache
    <3> QED
      BY <2>0, <3>1, <3>2, AfterDrawTypes
  <2> QED
    BY <2>1, <2>2
<1>4. /\ kit' = kit /\ mem' = mem /\ program' = program /\ lost' = lost /\ woven' = woven
      /\ contexts' = contexts /\ context' = context /\ guest' = guest
  BY <1>2 DEF programVars
<1>5. context = TRUE
  BY <1>1 DEF TInv, TypeOK, ContextInv
<1>6. Len(fifo') <= kit'.queue
  BY <1>1, <1>4, FifoIs, KitTypes DEF TInv, TypeOK
<1>7. \A e \in DOMAIN cache' : cache'[e].hi = cache'[e].lo + 2 * Size /\ cache'[e].lo > 0
  BY <1>3 DEF CacheInv, RangeInv
<1> QED
  BY <1>1, <1>3, <1>4, <1>5, <1>6, <1>7 DEF TInv, TypeOK, ContextInv

\* A program stays what it is.
LEMMA KitStays ==
  ASSUME TInv, [Next]_vars
  PROVE  kit' = kit
<1>1. CASE UNCHANGED vars
  BY <1>1 DEF vars, programVars
<1>2. CASE Programs
  BY <1>2, ProgramsMake DEF Made, Queued, Write, DeleteContext, CreateContext
<1>3. CASE DeviceCall \/ DeviceDraw
  BY <1>3 DEF DeviceCall, DeviceDraw, programVars
<1> QED
  BY <1>1, <1>2, <1>3 DEF Next

\* Every step keeps the types.
LEMMA StepTypes ==
  ASSUME TInv, [Next]_vars
  PROVE  TInv'
<1>1. CASE UNCHANGED vars
  BY <1>1 DEF vars, programVars, deviceVars, TInv, TypeOK, FifoType, ContextInv
<1>2. CASE Next
  BY <1>2, ProgramTypes, DeviceTypes DEF Next
<1> QED
  BY <1>1, <1>2

\* The variables have their types, and the entries of the vertex cache their ranges,
\* whatever the program does.
THEOREM TypeCorrect == Spec => []TypeOK
<1>1. Init => TInv
  BY InitTypes
<1>2. TInv /\ [Next]_vars => TInv'
  BY StepTypes
<1>3. TInv => TypeOK
  BY DEF TInv
<1> QED
  BY <1>1, <1>2, <1>3, PTL DEF Spec

-----------------------------------------------------------------------------
(* The chain from the device's copy to the DLL's.                          *)

\* Queueing a call adds a link.
LEMMA ChainMade ==
  ASSUME TInv, NoCaps \/ kit.style # "caps",
         NEW c \in Calls, NEW names, NEW data, NEW want, Made(c, names, data, want),
         NEW st, Chain(st)
  PROVE  \E new : Chain(new)' /\ \A k \in 1 .. Len(fifo) + 1 : new[k] = st[k]
<1> DEFINE n == Len(fifo)
<1>1. /\ fifo' = Append(fifo, [call |-> c, names |-> names, data |-> data, want |-> want])
      /\ guest' = Followed(guest, c) /\ device' = device
      /\ c.op \in Draws => names = Carried(guest, c.op)
  BY DEF Made, Unfollowed, Sent, Queued, deviceVars
<1>2. /\ n \in Nat /\ Len(fifo') = n + 1 /\ fifo'[n + 1].call = c /\ fifo'[n + 1].names = names
      /\ \A k \in 1 .. n : fifo'[k] = fifo[k]
  BY <1>1, FifoIs, FifoAppend DEF TInv
<1>3. guest' \in CopyType
  BY MadeTypes DEF TInv, TypeOK
<1>4. PICK new : new = [k \in 1 .. n + 2 |-> IF k = n + 2 THEN guest' ELSE st[k]]
  OBVIOUS
<1>5. /\ st \in [1 .. n + 1 -> CopyType] /\ Alike(st[1], device) /\ st[n + 1] = guest
      /\ \A k \in 1 .. n : /\ st[k + 1] = Followed(st[k], fifo[k].call)
                           /\ fifo[k].call.op \in Draws =>
                                fifo[k].names = Carried(st[k], fifo[k].call.op)
  BY DEF Chain
<1> HIDE DEF n
<1>6. /\ \A k \in 1 .. n + 1 : new[k] = st[k]
      /\ new[n + 2] = guest' /\ new \in [1 .. n + 2 -> CopyType]
  BY <1>2, <1>3, <1>4, <1>5
<1>7. Alike(new[1], device')
  BY <1>1, <1>2, <1>5, <1>6
<1>8. ASSUME NEW k \in 1 .. n + 1
      PROVE  /\ new[k + 1] = Followed(new[k], fifo'[k].call)
             /\ fifo'[k].call.op \in Draws => fifo'[k].names = Carried(new[k], fifo'[k].call.op)
  <2>1. CASE k = n + 1
    BY <1>1, <1>2, <1>5, <1>6, <2>1
  <2>2. CASE k \in 1 .. n
    <3>1. k + 1 \in 1 .. n + 1 /\ k \in 1 .. n + 1
      BY <1>2, <2>2
    <3> QED
      BY <1>2, <1>5, <1>6, <2>2, <3>1
  <2> QED
    BY <1>2, <2>1, <2>2
<1>9. n + 2 = Len(fifo') + 1
  BY <1>2
<1>10. Chain(new)'
  BY <1>2, <1>6, <1>7, <1>8, <1>9 DEF Chain
<1> QED
  BY <1>6, <1>10 DEF n

\* Executing a call takes the first link away; a draw takes what was sent.
LEMMA ChainExecuted ==
  ASSUME TInv, DeviceCall \/ DeviceDraw, NEW st, Chain(st)
  PROVE  /\ \E new : Chain(new)' /\ \A k \in 1 .. Len(fifo) : new[k] = st[k + 1]
         /\ InStep'
<1> DEFINE n == Len(fifo)
           c == fifo[1].call
<1>1. /\ fifo # <<>> /\ fifo' = Tail(fifo) /\ guest' = guest
  BY DEF DeviceCall, DeviceDraw
<1>2. /\ n \in Nat /\ n >= 1 /\ Head(fifo) = fifo[1] /\ c \in Calls
      /\ Len(fifo') = n - 1 /\ \A k \in 1 .. n - 1 : fifo'[k] = fifo[k + 1]
  BY <1>1, FifoIs DEF TInv
<1>3. /\ st \in [1 .. n + 1 -> CopyType] /\ Alike(st[1], device) /\ st[n + 1] = guest
      /\ \A k \in 1 .. n : /\ st[k + 1] = Followed(st[k], fifo[k].call)
                           /\ fifo[k].call.op \in Draws =>
                                fifo[k].names = Carried(st[k], fifo[k].call.op)
  BY DEF Chain
<1>4. st[1] \in CopyType /\ device \in CopyType /\ CacheInv(cache)
  BY <1>2, <1>3 DEF TInv, TypeOK
<1>5. Alike(st[2], device') /\ InStep'
  <2>1. CASE DeviceCall
    <3>1. /\ c.op \notin Draws /\ device' = Tracked(device, Given(c)) /\ drawn' = NoDraw
      BY <1>2, <2>1 DEF DeviceCall, DeviceTracks
    <3>2. SameCall(c, Given(c)) /\ WellFormed(c)
      BY <1>2, <1>4, GivenTypes DEF Calls
    <3>3. st[2] = Tracked(st[1], c)
      BY <1>2, <1>3, <3>1 DEF Followed
    <3> HIDE DEF c
    <3>4. Alike(st[2], device')
      BY <1>3, <1>4, <3>1, <3>2, <3>3, AlikeTracked
    <3> QED
      BY <3>1, <3>4 DEF InStep, NoDraw
  <2>2. CASE DeviceDraw
    <3>1. /\ c.op \in Draws /\ device' = AfterDraw(device, c.op)
          /\ drawn'.sent = fifo[1].names /\ drawn'.taken = Carried(device, c.op)
      BY <1>2, <2>2 DEF DeviceDraw
    <3>2. st[2] = AfterDraw(st[1], c.op) /\ fifo[1].names = Carried(st[1], c.op)
      BY <1>2, <1>3, <3>1 DEF Followed
    <3> HIDE DEF c
    <3>3. Alike(st[2], device')
      BY <1>3, <1>4, <3>1, <3>2, AlikeAfterDraw
    <3>4. Carried(st[1], c.op) = Carried(device, c.op)
      BY <1>3, <1>4, AlikeCarried
    <3> QED
      BY <3>1, <3>2, <3>3, <3>4 DEF InStep
  <2> QED
    BY <2>1, <2>2
<1> HIDE DEF n, c
<1>6. PICK new : new = [k \in 1 .. n |-> st[k + 1]]
  OBVIOUS
<1>7. /\ \A k \in 1 .. n : new[k] = st[k + 1] /\ k + 1 \in 1 .. n + 1
      /\ new \in [1 .. n -> CopyType]
  BY <1>2, <1>3, <1>6
<1>8. Alike(new[1], device') /\ new[n] = guest'
  BY <1>1, <1>2, <1>3, <1>5, <1>7
<1>9. ASSUME NEW k \in 1 .. n - 1
      PROVE  /\ new[k + 1] = Followed(new[k], fifo'[k].call)
             /\ fifo'[k].call.op \in Draws => fifo'[k].names = Carried(new[k], fifo'[k].call.op)
  <2>1. k \in 1 .. n /\ k + 1 \in 1 .. n
    BY <1>2
  <2>2. new[k] = st[k + 1] /\ new[k + 1] = st[(k + 1) + 1] /\ fifo'[k] = fifo[k + 1]
    BY <1>2, <1>7, <2>1
  <2> QED
    BY <1>3, <2>1, <2>2
<1>10. n = Len(fifo') + 1
  BY <1>2
<1>11. Chain(new)'
  BY <1>2, <1>7, <1>8, <1>9, <1>10 DEF Chain
<1> QED
  BY <1>5, <1>7, <1>11 DEF n

\* A copy is alike itself.
LEMMA AlikeItself ==
  ASSUME NEW s
  PROVE  Alike(s, s)
  BY DEF Alike

\* With nothing queued, two equal copies are a chain.
LEMMA ChainEmpty ==
  ASSUME NEW s \in CopyType
  PROVE  /\ [k \in 1 .. 1 |-> s] \in [1 .. 0 + 1 -> CopyType]
         /\ Alike([k \in 1 .. 1 |-> s][1], s) /\ [k \in 1 .. 1 |-> s][0 + 1] = s
  BY AlikeItself

\* The inductive invariant of InStep.
SInv == TInv /\ (kit.style # "caps" => \E st : Chain(st)) /\ InStep

\* Nothing is queued at first.
LEMMA InitChain ==
  ASSUME Init
  PROVE  \E st : Chain(st)
<1>1. guest = NoClientState /\ device = NoClientState /\ fifo = <<>> /\ drawn = NoDraw
  BY DEF Init
<1>2. PICK st : st = [k \in 1 .. 1 |-> NoClientState]
  OBVIOUS
<1>3. Len(fifo) = 0 /\ 1 .. Len(fifo) = {}
  BY <1>1
<1>4. /\ st \in [1 .. 0 + 1 -> CopyType] /\ Alike(st[1], NoClientState)
      /\ st[0 + 1] = NoClientState
  BY <1>2, NewTypes, ChainEmpty
<1> QED
  BY <1>1, <1>3, <1>4 DEF Chain

\* The invariant holds at first.
LEMMA InitSteps ==
  ASSUME Init
  PROVE  SInv
  BY InitTypes, InitChain DEF Init, SInv, InStep, NoDraw

\* Without a call and an execution the chain is as it was, or begins anew.
LEMMA ChainKept ==
  ASSUME TInv, NEW st, Chain(st),
         \/ \E m \in kit.blocks, v \in Values : Write(m, v)
         \/ DeleteContext
  PROVE  Chain(st)' /\ InStep'
<1>1. fifo' = fifo /\ guest' = guest /\ device' = device /\ drawn' = NoDraw
  BY DEF Write, DeleteContext, deviceVars
<1> QED
  BY <1>1 DEF Chain, InStep, NoDraw

\* A new context begins a chain.
LEMMA ChainBegun ==
  ASSUME TInv, CreateContext
  PROVE  (\E st : Chain(st)') /\ InStep' /\ fifo' = <<>>
<1>1. /\ guest' = NoClientState /\ device' = NoClientState /\ fifo' = <<>> /\ drawn' = NoDraw
  BY DEF CreateContext, TInv, ContextInv
<1>2. PICK st : st = [k \in 1 .. 1 |-> NoClientState]
  OBVIOUS
<1>3. Len(fifo') = 0 /\ 1 .. Len(fifo') = {}
  BY <1>1
<1>4. /\ st \in [1 .. 0 + 1 -> CopyType] /\ Alike(st[1], NoClientState)
      /\ st[0 + 1] = NoClientState
  BY <1>2, NewTypes, ChainEmpty
<1>5. Chain(st)'
  BY <1>1, <1>3, <1>4 DEF Chain
<1> QED
  BY <1>1, <1>5 DEF InStep, NoDraw

\* Every step keeps it.
LEMMA StepSteps ==
  ASSUME SInv, [Next]_vars
  PROVE  SInv'
<1>1. TInv' /\ TInv /\ kit' = kit
  BY StepTypes, KitStays DEF SInv
<1>2. CASE kit.style = "caps"
  BY <1>1, <1>2 DEF SInv, InStep
<1>3. CASE kit.style # "caps"
  <2>1. PICK st : Chain(st)
    BY <1>3 DEF SInv
  <2>2. CASE UNCHANGED vars
    <3>1. fifo' = fifo /\ guest' = guest /\ device' = device /\ drawn' = drawn
      BY <2>2 DEF vars, deviceVars
    <3> QED
      BY <1>1, <2>1, <3>1 DEF SInv, Chain, InStep
  <2>3. CASE Programs
    <3>1. ASSUME NEW c \in Calls, NEW names, NEW data, NEW want, Made(c, names, data, want)
          PROVE  SInv'
      <4>1. drawn' = NoDraw
        BY <3>1 DEF Made, Queued
      <4> QED
        BY <1>1, <1>3, <2>1, <3>1, <4>1, ChainMade DEF SInv, InStep, NoDraw
    <3>2. CASE (\E m \in kit.blocks, v \in Values : Write(m, v)) \/ DeleteContext
      BY <1>1, <2>1, <3>2, ChainKept DEF SInv
    <3>3. CASE CreateContext
      BY <1>1, <3>3, ChainBegun DEF SInv
    <3> QED
      BY <1>1, <2>3, <3>1, <3>2, <3>3, ProgramsMake
  <2>4. CASE DeviceCall \/ DeviceDraw
    BY <1>1, <2>1, <2>4, ChainExecuted DEF SInv
  <2> QED
    BY <2>2, <2>3, <2>4 DEF Next
<1> QED
  BY <1>2, <1>3

\* The device takes from the queue's data exactly what the DLL put there for the draw,
\* for every program that does not switch attributes with glEnable and glDisable,
\* orderly or not, and however many calls lie between the two decisions
\* (PushVertexArray of wrapgl32.c and of mesapt_mm.c).
THEOREM DecideAlike == Spec => []InStep
<1>1. Init => SInv
  BY InitSteps
<1>2. SInv /\ [Next]_vars => SInv'
  BY StepSteps
<1>3. SInv => InStep
  BY DEF SInv
<1> QED
  BY <1>1, <1>2, <1>3, PTL DEF Spec

-----------------------------------------------------------------------------
(* What the device's copy points to.                                       *)

\* A vertex array object stands for both bindings.
Bound(s) == s.vao # 0 => s.arrayBuf = s.vao /\ s.elemBuf = s.vao

\* Without vertex array objects, arrays are in the vertex cache, or offsets while a
\* buffer is bound.
Placed(d, c) ==
  /\ d.vao = 0
  /\ \A a \in Arrays : \/ d.ptr[a] \in Live(c) \union {Null}
                       \/ d.arrayBuf # 0 /\ d.ptr[a] = Offset
  /\ d.interPtr \in Live(c) \union {Null}

DeviceInv ==
  /\ Bound(device)
  /\ context /\ kit.style # "objects" => Placed(device, cache)

\* A call keeps a copy bound.
LEMMA BoundTracked ==
  ASSUME NEW s \in CopyType, NEW c, WellFormed(c), Bound(s)
  PROVE  Bound(Tracked(s, c))
<1> USE DEF CopyType
<1>1. CASE c.op \in {"BindArray", "BindElement", "DeleteBuffer"}
  <2>1. \A r \in CopyType : Bound(InVao(r))
    BY DEF Bound, InVao
  <2>2. \A r \in CopyType : PtrReset(r) \in CopyType
    BY Addresses DEF PtrReset
  <2>3. [s EXCEPT !.arrayBuf = c.name] \in CopyType /\ [s EXCEPT !.elemBuf = c.name] \in CopyType
    BY <1>1 DEF WellFormed
  <2>4. [s EXCEPT !.arrayBuf = IF @ = c.name THEN 0 ELSE @,
                  !.elemBuf = IF @ = c.name THEN 0 ELSE @] \in CopyType
    OBVIOUS
  <2>5. CASE c.op = "BindArray"
    BY <2>1, <2>2, <2>3, <2>5 DEF Tracked, BindArrayBuffer
  <2>6. CASE c.op = "BindElement"
    BY <2>1, <2>3, <2>6 DEF Tracked
  <2>7. CASE c.op = "DeleteBuffer"
    BY <2>1, <2>2, <2>4, <2>7 DEF Tracked, DeleteBuffer
  <2> QED
    BY <1>1, <2>5, <2>6, <2>7
<1>2. CASE c.op \in {"BindVao", "DeleteVao"}
  BY <1>2 DEF Bound, Tracked, BindVertexArray
<1>3. CASE c.op \in {"Enable", "EnableAttrib", "EnableCap", "Disable", "DisableAttrib",
                     "DisableCap"}
  BY <1>3 DEF Bound, Tracked, ArrayState
<1>4. CASE c.op \in {"ActiveTexture", "Interleaved"}
  BY <1>4 DEF Bound, Tracked
<1>5. CASE c.op \in {"Pointer", "AttribPointer"}
  <2>1. PICK p : Tracked(s, c) = [s EXCEPT !.ptr = p]
    BY <1>5 DEF Tracked
  <2> QED
    BY <2>1 DEF Bound
<1>6. CASE c.op \notin {"ActiveTexture", "Enable", "EnableAttrib", "EnableCap", "Disable",
                        "DisableAttrib", "DisableCap", "Pointer", "AttribPointer",
                        "Interleaved", "BindArray", "BindElement", "DeleteBuffer", "BindVao",
                        "DeleteVao"}
  BY <1>6 DEF Tracked
<1> QED
  BY <1>1, <1>2, <1>3, <1>4, <1>5, <1>6

\* So does a draw.
LEMMA BoundAfterDraw ==
  ASSUME NEW s \in CopyType, NEW op, Bound(s)
  PROVE  Bound(AfterDraw(s, op))
  BY DEF Bound, AfterDraw, CopyType

\* A call whose address is in the cache keeps the addresses there.
LEMMA PlacedTracked ==
  ASSUME NEW d \in CopyType, NEW c, NEW e, Placed(d, c), DOMAIN c \subseteq DOMAIN e,
         NEW g, WellFormed(g), g.op \notin {"BindVao", "DeleteVao"},
         g.op \in {"Pointer", "AttribPointer"} =>
           \/ g.ptr \in Live(e) \union {Null}
           \/ d.arrayBuf # 0 /\ g.ptr = Offset,
         g.op = "Interleaved" => g.ptr \in Live(e) \union {Null}
  PROVE  Placed(Tracked(d, g), e)
<1>1. Live(c) \subseteq Live(e)
  BY DEF Live
<1>2. Placed(d, e)
  BY <1>1 DEF Placed
<1> USE DEF CopyType
<1>3. CASE g.op \in {"ActiveTexture", "Enable", "EnableAttrib", "EnableCap", "Disable",
                     "DisableAttrib", "DisableCap"}
  <2>1. \A on, unit : Placed([d EXCEPT !.on = on, !.unit = unit], e)
    BY <1>2 DEF Placed
  <2>2. Placed([d EXCEPT !.unit = g.what], e)
    BY <1>2 DEF Placed
  <2>3. Placed(ArrayState(d, g), e)
    BY <2>1 DEF ArrayState
  <2> QED
    BY <1>3, <2>2, <2>3 DEF Tracked
<1>4. CASE g.op \in {"Pointer", "AttribPointer"}
  <2> DEFINE a == Meant(d, g.what)
             p == [d.ptr EXCEPT ![a] = g.ptr]
  <2>1. Tracked(d, g) = [d EXCEPT !.ptr = p]
    BY <1>4 DEF Tracked
  <2>2. \A x \in Arrays : p[x] = IF x = a THEN g.ptr ELSE d.ptr[x]
    <3> HIDE DEF a
    <3> QED
      OBVIOUS
  <2> HIDE DEF p, a
  <2> QED
    BY <1>2, <1>4, <2>1, <2>2 DEF Placed
<1>5. CASE g.op = "Interleaved"
  BY <1>2, <1>5 DEF Placed, Tracked
<1>6. CASE g.op = "BindArray"
  <2>1. d.vao = 0
    BY DEF Placed
  <2>2. Tracked(d, g) = IF g.name = 0
                        THEN [d EXCEPT !.arrayBuf = g.name, !.ptr = [a \in Arrays |-> Null]]
                        ELSE [d EXCEPT !.arrayBuf = g.name]
    BY <1>6, <2>1 DEF Tracked, BindArrayBuffer, InVao, PtrReset
  <2> QED
    BY <1>2, <2>2 DEF Placed
<1>7. CASE g.op = "BindElement"
  BY <1>2, <1>7 DEF Placed, Tracked, InVao
<1>8. CASE g.op = "DeleteBuffer"
  <2> DEFINE rest == [d EXCEPT !.arrayBuf = IF @ = g.name THEN 0 ELSE @,
                               !.elemBuf = IF @ = g.name THEN 0 ELSE @]
  <2>1. d.vao = 0
    BY DEF Placed
  <2>2. rest.vao = 0 /\ rest \in CopyType
    BY <2>1
  <2>3. Tracked(d, g) = IF d.arrayBuf = g.name
                        THEN [rest EXCEPT !.ptr = [a \in Arrays |-> Null]] ELSE rest
    BY <1>8, <2>1, <2>2 DEF Tracked, DeleteBuffer, InVao, PtrReset
  <2>4. CASE d.arrayBuf = g.name
    BY <1>2, <2>2, <2>3, <2>4 DEF Placed
  <2>5. CASE d.arrayBuf # g.name
    BY <1>2, <2>3, <2>5 DEF Placed
  <2> QED
    BY <2>4, <2>5
<1>9. CASE g.op \notin {"ActiveTexture", "Enable", "EnableAttrib", "EnableCap", "Disable",
                        "DisableAttrib", "DisableCap", "Pointer", "AttribPointer",
                        "Interleaved", "BindArray", "BindElement", "DeleteBuffer", "BindVao",
                        "DeleteVao"}
  BY <1>2, <1>9 DEF Tracked
<1> QED
  BY <1>3, <1>4, <1>5, <1>6, <1>7, <1>8, <1>9

\* Which parts a draw carries.
LEMMA OrderedFrom ==
  ASSUME NEW A \in SUBSET Arrays
  PROVE  InOrder(A) \in Seq(A)
<1> DEFINE this(a) == IF a \in A THEN <<a>> ELSE <<>>
<1>1. \A a \in Arrays : this(a) \in Seq(A)
  OBVIOUS
<1>2. InOrder(A) = this("tex0") \o this("tex1") \o this("vertex")
  BY DEF InOrder
<1>3. this("tex0") \in Seq(A) /\ this("tex1") \in Seq(A) /\ this("vertex") \in Seq(A)
  BY <1>1 DEF Arrays, Units
<1> HIDE DEF this
<1> QED
  BY <1>2, <1>3

\* What a draw carries are indices, the interleaved arrays or arrays that have an address.
LEMMA CarriedParts ==
  ASSUME NEW s \in CopyType, NEW op
  PROVE  /\ ~PushesArrays(s, op) => \A k \in DOMAIN Carried(s, op) : Carried(s, op)[k] = "indices"
         /\ \A k \in DOMAIN Carried(s, op) :
              \/ Carried(s, op)[k] = "indices"
              \/ Carried(s, op)[k] = "interleaved" /\ s.interPtr # Null
              \/ Carried(s, op)[k] \in Arrays /\ s.ptr[Carried(s, op)[k]] # Null
<1> DEFINE A == {a \in s.on : s.ptr[a] # Null}
           I == IF s.interPtr # Null THEN {"interleaved"} ELSE {}
           all == {"indices"} \union I \union A
           first == IF SendsIndices(s, op) THEN <<"indices">> ELSE <<>>
           rest == IF PushesArrays(s, op) THEN Pushed(s) ELSE <<>>
<1>1. A \subseteq Arrays
  BY DEF CopyType
<1>2. InOrder(A) \in Seq(A)
  BY <1>1, OrderedFrom
<1>3. Pushed(s) = IF PushesInterleaved(s) THEN <<"interleaved">> ELSE InOrder(A)
  BY DEF Pushed
<1>4. PushesInterleaved(s) => "interleaved" \in I
  BY DEF PushesInterleaved
<1>5. Pushed(s) \in Seq(all)
  <2>1. A \subseteq all /\ I \subseteq all
    OBVIOUS
  <2> HIDE DEF A, I, all
  <2>2. InOrder(A) \in Seq(all)
    BY <1>2, <2>1
  <2>3. PushesInterleaved(s) => <<"interleaved">> \in Seq(all)
    BY <1>4, <2>1
  <2> QED
    BY <1>3, <2>2, <2>3
<1>6. first \in Seq({"indices"}) /\ first \in Seq(all)
  OBVIOUS
<1>7. rest \in Seq(all) /\ (~PushesArrays(s, op) => rest = <<>>)
  <2> HIDE DEF all
  <2> QED
    BY <1>5
<1>8. Carried(s, op) = first \o rest
  BY DEF Carried
<1> HIDE DEF first, rest, all
<1>9. Carried(s, op) \in Seq(all)
  BY <1>6, <1>7, <1>8
<1>10. ~PushesArrays(s, op) => Carried(s, op) \in Seq({"indices"})
  BY <1>6, <1>7, <1>8
<1>11. \A k \in DOMAIN Carried(s, op) : Carried(s, op)[k] \in all
  BY <1>9
<1>12. ~PushesArrays(s, op) => \A k \in DOMAIN Carried(s, op) : Carried(s, op)[k] = "indices"
  BY <1>10
<1> QED
  BY <1>1, <1>11, <1>12 DEF all

-----------------------------------------------------------------------------
(* Copies fit: the inductive invariant.                                    *)

\* Every call in the queue was one of an orderly program.
OrderedChain == \E st : Chain(st) /\ \A k \in 1 .. Len(fifo) : Kept(fifo[k].call, st[k])

OInv == TInv /\ GuestBound /\ DeviceInv /\ OrderedChain /\ CopiesFit

\* What a call relies on is the same for alike copies.
LEMMA KeptAlike ==
  ASSUME NEW s, NEW d, Alike(s, d), NEW c, Kept(c, s)
  PROVE  Kept(c, d)
  BY DEF Alike, Kept

\* The names in the DLL's copy and in the program's state, after a call.
LEMMA GuestBoundMade ==
  ASSUME Orderly, NoCaps, TInv, NEW c \in Calls, NEW names, NEW data, NEW want,
         Made(c, names, data, want), GuestBound, Kept(c, guest)
  PROVE  GuestBound'
<1>1. guest' = Followed(guest, c) /\ program' = GLCall(program, c) /\ kit' = kit
  BY DEF Made, Unfollowed, Queued
<1>2. guest \in CopyType /\ program \in GLType /\ WellFormed(c) /\ c.op \in Ops
  BY DEF TInv, TypeOK, Calls, CallType
<1>3. Bound(guest) /\ guest.vao = program.vao
  BY DEF GuestBound, Bound
<1>4. CASE c.op \in Draws
  <2>1. program' = program
    BY <1>1, <1>4 DEF GLCall, Draws
  <2>2. guest' = AfterDraw(guest, c.op)
    BY <1>1, <1>4 DEF Followed
  <2>3. guest'.vao = guest.vao /\ guest'.arrayBuf = guest.arrayBuf /\ guest'.elemBuf = guest.elemBuf
    BY <1>2, <2>2 DEF AfterDraw, CopyType
  <2> QED
    BY <1>1, <2>1, <2>3 DEF GuestBound
<1>5. CASE c.op \notin Draws
  <2>1. guest' = Tracked(guest, c)
    BY <1>1, <1>5 DEF Followed
  <2>2. Bound(guest')
    BY <1>2, <1>3, <2>1, BoundTracked
  <2>3. c.op \in Ops \ Draws
    BY <1>2, <1>5
  <2>4. CASE c.op \in {"BindVao", "DeleteVao"}
    <3>1. kit.style = "objects"
      BY <2>4 DEF Kept
    <3>2. guest'.vao = IF c.op = "BindVao" THEN c.name
                       ELSE IF guest.vao = c.name THEN 0 ELSE guest.vao
      BY <1>2, <2>1, <2>4 DEF Tracked, BindVertexArray, CopyType
    <3>3. /\ program'.vao = IF c.op = "BindVao" THEN c.name
                            ELSE IF program.vao = c.name THEN 0 ELSE program.vao
          /\ program'.on[0] \subseteq program.on[0]
      <4>1. program.on \in [Vaos \union {0} -> SUBSET Arrays]
        BY <1>2 DEF GLType
      <4>2. program.on[0] \subseteq Arrays
        BY <4>1
      <4>3. CASE c.op = "BindVao"
        BY <1>1, <1>2, <4>3 DEF GLCall, GLType
      <4>4. CASE c.op = "DeleteVao"
        <5>1. program' = GLDeleteVao(program, c.name)
          BY <1>1, <4>4 DEF GLCall
        <5>2. /\ program'.vao = IF program.vao = c.name THEN 0 ELSE program.vao
              /\ program'.on = [program.on EXCEPT ![c.name] = {}]
          BY <1>2, <5>1 DEF GLDeleteVao, GLType
        <5> QED
          BY <4>1, <4>4, <5>2
      <4> QED
        BY <2>4, <4>3, <4>4
    <3> QED
      BY <1>1, <1>3, <2>2, <3>1, <3>2, <3>3 DEF GuestBound, Bound
  <2>5. CASE c.op \in {"BindArray", "BindElement", "DeleteBuffer"}
    <3>1. program'.vao = program.vao /\ program'.on = program.on
      BY <1>1, <1>2, <2>5 DEF GLCall, GLDeleteBuffer, GLType
    <3>2. /\ guest'.vao = guest.vao
          /\ guest.vao = 0 => guest'.arrayBuf = CASE c.op = "BindArray" -> c.name
                [] c.op = "BindElement" -> guest.arrayBuf
                [] OTHER -> IF guest.arrayBuf = c.name THEN 0 ELSE guest.arrayBuf
      BY <1>2, <2>1, <2>5 DEF Tracked, BindArrayBuffer, DeleteBuffer, InVao, PtrReset, CopyType
    <3>3. program'.arrayBuf = CASE c.op = "BindArray" -> c.name
                [] c.op = "BindElement" -> program.arrayBuf
                [] OTHER -> IF program.arrayBuf = c.name THEN 0 ELSE program.arrayBuf
      BY <1>1, <1>2, <2>5 DEF GLCall, GLDeleteBuffer, GLType
    <3> QED
      BY <1>1, <1>3, <2>2, <3>1, <3>2, <3>3 DEF GuestBound, Bound
  <2>6. CASE c.op \in {"ActiveTexture", "Enable", "EnableAttrib", "EnableCap", "Disable",
                       "DisableAttrib", "DisableCap", "Pointer", "AttribPointer", "Interleaved"}
    <3>1. guest'.vao = guest.vao /\ guest'.arrayBuf = guest.arrayBuf
      BY <1>2, <2>1, <2>6 DEF Tracked, ArrayState, CopyType
    <3>2. program'.vao = program.vao /\ program'.arrayBuf = program.arrayBuf
      BY <1>1, <1>2, <2>6 DEF GLCall, GLType
    <3>3. kit.style = "objects" => program'.on[0] = {}
      <4>1. program.on \in [Vaos \union {0} -> SUBSET Arrays] /\ program.vao \in Vaos \union {0}
        BY <1>2 DEF GLType
      <4>2. CASE c.op \in {"Enable", "EnableAttrib", "EnableCap", "Interleaved"}
        <5>1. kit.style = "objects" => program.vao # 0
          BY <1>3, <4>2 DEF Kept
        <5>2. PICK on : program'.on = [program.on EXCEPT ![program.vao] = on]
          BY <1>1, <1>2, <4>2 DEF GLCall, GLType
        <5> QED
          BY <4>1, <5>1, <5>2 DEF GuestBound
      <4>3. CASE c.op \in {"Disable", "DisableAttrib", "DisableCap"}
        <5>1. program'.on = [program.on EXCEPT ![program.vao] = @ \ {Meant(program, c.what)}]
          BY <1>1, <1>2, <4>3 DEF GLCall, GLType
        <5> QED
          BY <4>1, <5>1 DEF GuestBound
      <4>4. CASE c.op \in {"ActiveTexture", "Pointer", "AttribPointer"}
        <5>1. program'.on = program.on
          BY <1>1, <1>2, <4>4 DEF GLCall, GLType
        <5> QED
          BY <5>1 DEF GuestBound
      <4> QED
        BY <2>6, <4>2, <4>3, <4>4
    <3> QED
      BY <1>1, <1>3, <2>2, <3>1, <3>2, <3>3 DEF GuestBound, Bound
  <2> QED
    BY <2>3, <2>4, <2>5, <2>6 DEF Ops
<1> QED
  BY <1>4, <1>5

\* Executing a call keeps the device's addresses in the vertex cache.
LEMMA PlacedCall ==
  ASSUME TInv, DeviceInv, DeviceCall, Kept(Head(fifo).call, device)
  PROVE  DeviceInv'
<1> DEFINE c == Head(fifo).call
<1>1. /\ fifo # <<>> /\ device' = Tracked(device, Given(c)) /\ context' = context /\ kit' = kit
      /\ cache' = IF Looks(c) THEN Looked(c.ptr[2]) ELSE cache
  BY DEF DeviceCall, DeviceTracks, programVars
<1>2. c \in Calls /\ device \in CopyType /\ CacheInv(cache) /\ Kept(c, device)
  BY <1>1, FifoIs DEF TInv, TypeOK
<1> HIDE DEF c
<1>3. /\ SameCall(c, Given(c)) /\ WellFormed(Given(c))
      /\ Looks(c) => c.ptr[2] \in Mem /\ Given(c).ptr \in Live(cache')
      /\ ~Looks(c) => Given(c) = c
  BY <1>1, <1>2, GivenTypes
<1>4. Bound(device')
  BY <1>1, <1>2, <1>3, BoundTracked DEF DeviceInv
<1>5. DOMAIN cache \subseteq DOMAIN cache'
  BY <1>1, <1>2, <1>3, LookedCache
<1>6. c.ptr \in {Null, Offset} \union Clients
  BY <1>2 DEF Calls, CallType
<1>7. ASSUME context, kit.style # "objects"
      PROVE  Placed(device', cache')
  <2>1. Placed(device, cache)
    BY <1>7 DEF DeviceInv
  <2> DEFINE g == Given(c)
  <2>2. g.op = c.op /\ g.op \notin {"BindVao", "DeleteVao"}
    BY <1>2, <1>3, <1>7 DEF SameCall, Kept
  <2>3. c.ptr \in Clients => c.ptr[1] = "client"
    BY Kinds DEF Clients
  <2>4. g.op \in {"Pointer", "AttribPointer"} =>
          g.ptr \in Live(cache') \union {Null} \/ (device.arrayBuf # 0 /\ g.ptr = Offset)
    BY <1>2, <1>3, <1>6, <1>7, <2>2, <2>3 DEF Kept, Looks
  <2>5. g.op = "Interleaved" => g.ptr \in Live(cache') \union {Null}
    BY <1>2, <1>3, <1>7, <2>2, <2>3 DEF Kept, Looks
  <2> HIDE DEF g
  <2>6. WellFormed(g) /\ device' = Tracked(device, g)
    BY <1>1, <1>3 DEF g
  <2> QED
    BY <1>2, <1>5, <2>1, <2>2, <2>4, <2>5, <2>6, PlacedTracked
<1> QED
  BY <1>1, <1>4, <1>7 DEF DeviceInv

\* A draw copies into the vertex cache, within the entries.
LEMMA DrawFits ==
  ASSUME Near, TInv, DeviceInv, DeviceDraw, Kept(Head(fifo).call, device)
  PROVE  DeviceInv' /\ CopiesFit'
<1> DEFINE op == Head(fifo).call.op
           part == Head(fifo).call.part
           taken == Carried(device, op)
<1>1. /\ fifo # <<>> /\ op \in Draws /\ cache' = Copied(taken, Head(fifo).data, part)
      /\ device' = AfterDraw(device, op) /\ context' = context /\ kit' = kit
      /\ drawn'.fits = \A k \in DOMAIN taken :
                         taken[k] = "indices" \/ Inside(PlaceOf(device, taken[k]), part)
  BY DEF DeviceDraw, programVars
<1>2. /\ device \in CopyType /\ CacheInv(cache)
      /\ Head(fifo).call \in Calls /\ part \in PartType
  BY <1>1, FifoIs DEF TInv, TypeOK, Calls, CallType
<1>3. context = TRUE
  BY <1>1 DEF TInv, TypeOK, ContextInv
<1>4. DOMAIN cache' = DOMAIN cache
  <2> HIDE DEF taken, part
  <2> QED
    BY <1>1, <1>2, CopiedCache
<1>5. /\ ~PushesArrays(device, op) => \A k \in DOMAIN taken : taken[k] = "indices"
      /\ \A k \in DOMAIN taken :
           \/ taken[k] = "indices"
           \/ taken[k] = "interleaved" /\ device.interPtr # Null
           \/ taken[k] \in Arrays /\ device.ptr[taken[k]] # Null
  BY <1>2, CarriedParts
<1>6. Kept(Head(fifo).call, device) /\ Bound(device) /\ MayReach(part)
  BY <1>1 DEF DeviceInv, Kept
<1> HIDE DEF taken, part
<1>7. Bound(device')
  BY <1>1, <1>2, <1>6, BoundAfterDraw
<1>8. CASE kit.style = "objects"
  <2>1. op \in {"DrawArrays", "DrawElements"} /\ device.vao # 0
    BY <1>1, <1>6, <1>8 DEF Kept
  <2>2. ~PushesArrays(device, op)
    BY <1>6, <2>1 DEF PushesArrays, Bound
  <2> QED
    BY <1>1, <1>5, <1>7, <1>8, <2>2 DEF DeviceInv, CopiesFit
<1>9. CASE kit.style # "objects"
  <2>1. Placed(device, cache)
    BY <1>3, <1>9 DEF DeviceInv
  <2>2. Placed(device', cache')
    <3>1. /\ device'.vao = device.vao /\ device'.ptr = device.ptr
          /\ device'.arrayBuf = device.arrayBuf /\ device'.interPtr = device.interPtr
      BY <1>1, <1>2 DEF AfterDraw, CopyType
    <3> QED
      BY <1>4, <2>1, <3>1 DEF Placed, Live
  <2>3. PushesArrays(device, op) => device.arrayBuf = 0
    BY <1>1, <1>6, <1>9 DEF PushesArrays, Kept, Draws
  <2>4. ASSUME NEW p \in Live(cache)
        PROVE  Inside(p, part)
    <3>1. PICK e \in DOMAIN cache, off \in 0 .. 2 * Size - Half : p = Cached(e, off)
      BY DEF Live
    <3>2. Size \in Nat /\ Half \in Nat
      BY ConstantsAssumption DEF Half
    <3>3. /\ part.first \in Nat /\ part.size \in Nat
          /\ part.first = 0 \/ part.first + part.size <= Half
      BY <1>2, <1>6 DEF PartType, MayReach
    <3>4. off + part.first + Cut(part) <= 2 * Size
      <4>1. Cut(part) \in Nat /\ part.first + Cut(part) <= Half
        BY <3>2, <3>3 DEF Cut
      <4>2. off \in Int /\ off <= 2 * Size - Half
        BY <3>2
      <4> HIDE DEF op
      <4> QED
        BY <3>2, <3>3, <4>1, <4>2
    <3>5. p[1] = "cache" /\ p[2] = e /\ p[3] = off
      BY <3>1 DEF Cached
    <3> QED
      BY <3>4, <3>5 DEF Inside
  <2>5. ASSUME NEW k \in DOMAIN taken, taken[k] # "indices"
        PROVE  PlaceOf(device, taken[k]) \in Live(cache)
    <3>1. device.arrayBuf = 0
      BY <1>5, <2>3, <2>5
    <3>2. "interleaved" \notin Arrays
      BY DEF Arrays, Units
    <3> QED
      BY <1>5, <2>1, <2>5, <3>1, <3>2 DEF PlaceOf, Placed
  <2> QED
    BY <1>1, <1>7, <1>9, <2>2, <2>4, <2>5 DEF DeviceInv, CopiesFit
<1> QED
  BY <1>8, <1>9

\* The invariant holds at first.
LEMMA InitFits ==
  ASSUME Init
  PROVE  OInv
<1>1. /\ guest = NoClientState /\ device = NoClientState /\ fifo = <<>> /\ drawn = NoDraw
      /\ program = GLInit
  BY DEF Init
<1>2. TInv /\ \E st : Chain(st)
  BY InitTypes, InitChain
<1>3. 1 .. Len(fifo) = {}
  BY <1>1
<1>4. GuestBound
  BY <1>1 DEF GuestBound, NoClientState, GLInit
<1>5. DeviceInv
  BY <1>1 DEF DeviceInv, Bound, Placed, NoClientState
<1> QED
  BY <1>1, <1>2, <1>3, <1>4, <1>5 DEF OInv, OrderedChain, CopiesFit, NoDraw

\* Every step of an orderly program, and of the device, keeps it.
LEMMA StepFits ==
  ASSUME Orderly, NoCaps, Near, OInv, [Next]_vars
  PROVE  OInv'
<1>1. TInv' /\ TInv /\ GuestBound /\ DeviceInv /\ CopiesFit
  BY StepTypes DEF OInv
<1>2. PICK st : Chain(st) /\ \A k \in 1 .. Len(fifo) : Kept(fifo[k].call, st[k])
  BY DEF OInv, OrderedChain
<1>3. CASE UNCHANGED vars
  <2>1. /\ fifo' = fifo /\ guest' = guest /\ device' = device /\ drawn' = drawn /\ kit' = kit
        /\ program' = program /\ cache' = cache /\ context' = context
    BY <1>3 DEF vars, programVars, deviceVars
  <2>2. Chain(st)'
    BY <1>2, <2>1 DEF Chain
  <2>3. OrderedChain'
    BY <1>2, <2>1, <2>2 DEF OrderedChain, Kept
  <2>4. GuestBound' /\ DeviceInv' /\ CopiesFit'
    BY <1>1, <2>1 DEF GuestBound, DeviceInv, CopiesFit
  <2> QED
    BY <1>1, <2>3, <2>4 DEF OInv
<1>4. ASSUME NEW c \in Calls, NEW names, NEW data, NEW want, Made(c, names, data, want)
      PROVE  OInv'
  <2>1. /\ Kept(c, guest) /\ drawn' = NoDraw /\ kit' = kit /\ device' = device /\ cache' = cache
        /\ context' = context
        /\ fifo' = Append(fifo, [call |-> c, names |-> names, data |-> data, want |-> want])
    BY <1>1, <1>4 DEF Made, Queued, deviceVars
  <2>2. GuestBound'
    BY <1>1, <1>4, <2>1, GuestBoundMade
  <2>3. PICK new : Chain(new)' /\ \A k \in 1 .. Len(fifo) + 1 : new[k] = st[k]
    BY <1>1, <1>2, <1>4, ChainMade
  <2>4. /\ Len(fifo) \in Nat /\ Len(fifo') = Len(fifo) + 1 /\ fifo'[Len(fifo) + 1].call = c
        /\ \A k \in 1 .. Len(fifo) : fifo'[k] = fifo[k]
    BY <1>1, <2>1, FifoIs, FifoAppend DEF TInv
  <2>5. st[Len(fifo) + 1] = guest
    BY <1>2 DEF Chain
  <2>6. ASSUME NEW k \in 1 .. Len(fifo')
        PROVE  Kept(fifo'[k].call, new[k])
    <3>1. CASE k = Len(fifo) + 1
      BY <2>1, <2>3, <2>4, <2>5, <3>1
    <3>2. CASE k \in 1 .. Len(fifo)
      BY <1>2, <2>3, <2>4, <3>2
    <3> QED
      BY <2>4, <3>1, <3>2
  <2>7. \A k \in 1 .. Len(fifo') : Kept(fifo[k].call, new[k])'
    BY <2>1, <2>6 DEF Kept
  <2>8. OrderedChain'
    BY <2>3, <2>7 DEF OrderedChain
  <2>9. DeviceInv' /\ CopiesFit'
    BY <1>1, <2>1 DEF DeviceInv, CopiesFit, NoDraw
  <2> QED
    BY <1>1, <2>2, <2>8, <2>9 DEF OInv
<1>5. CASE (\E m \in kit.blocks, v \in Values : Write(m, v)) \/ DeleteContext
  <2>1. Chain(st)'
    BY <1>1, <1>2, <1>5, ChainKept
  <2>2. /\ fifo' = fifo /\ guest' = guest /\ device' = device /\ drawn' = NoDraw /\ kit' = kit
        /\ program' = program /\ ((cache' = cache /\ context' = context) \/ context' = FALSE)
    BY <1>5 DEF Write, DeleteContext, deviceVars
  <2>3. OrderedChain' /\ GuestBound'
    BY <1>1, <1>2, <2>1, <2>2 DEF OrderedChain, Kept, GuestBound
  <2>4. DeviceInv' /\ CopiesFit'
    BY <1>1, <2>2 DEF DeviceInv, CopiesFit, NoDraw
  <2> QED
    BY <1>1, <2>3, <2>4 DEF OInv
<1>6. CASE CreateContext
  <2>1. (\E new : Chain(new)') /\ fifo' = <<>>
    BY <1>1, <1>6, ChainBegun
  <2>2. /\ program' = GLInit /\ guest' = NoClientState /\ device' = NoClientState
        /\ drawn' = NoDraw
    BY <1>6 DEF CreateContext
  <2>3. 1 .. Len(fifo') = {}
    BY <2>1
  <2>4. OrderedChain'
    BY <2>1, <2>3 DEF OrderedChain
  <2>5. GuestBound'
    BY <2>2 DEF GuestBound, NoClientState, GLInit
  <2>6. DeviceInv' /\ CopiesFit'
    BY <2>2 DEF DeviceInv, Bound, Placed, NoClientState, CopiesFit, NoDraw
  <2> QED
    BY <1>1, <2>4, <2>5, <2>6 DEF OInv
<1>7. CASE DeviceCall \/ DeviceDraw
  <2>1. /\ fifo # <<>> /\ fifo' = Tail(fifo) /\ guest' = guest /\ kit' = kit /\ program' = program
    BY <1>7 DEF DeviceCall, DeviceDraw, programVars
  <2>2. /\ Len(fifo) \in Nat /\ Len(fifo) >= 1 /\ Head(fifo) = fifo[1]
        /\ Len(fifo') = Len(fifo) - 1 /\ \A k \in 1 .. Len(fifo) - 1 : fifo'[k] = fifo[k + 1]
    BY <1>1, <2>1, FifoIs DEF TInv
  <2>3. Kept(fifo[1].call, device)
    BY <1>2, <2>2, KeptAlike DEF Chain
  <2>4. DeviceInv' /\ CopiesFit'
    <3>1. CASE DeviceCall
      <4>1. drawn' = NoDraw
        BY <3>1 DEF DeviceCall
      <4> QED
        BY <1>1, <2>2, <2>3, <3>1, <4>1, PlacedCall DEF CopiesFit, NoDraw
    <3>2. CASE DeviceDraw
      BY <1>1, <2>2, <2>3, <3>2, DrawFits
    <3> QED
      BY <1>7, <3>1, <3>2
  <2>5. PICK new : Chain(new)' /\ \A k \in 1 .. Len(fifo) : new[k] = st[k + 1]
    BY <1>1, <1>2, <1>7, ChainExecuted
  <2>6. ASSUME NEW k \in 1 .. Len(fifo')
        PROVE  Kept(fifo'[k].call, new[k])
    <3>1. k \in 1 .. Len(fifo) /\ k + 1 \in 1 .. Len(fifo) /\ k \in 1 .. Len(fifo) - 1
      BY <2>2
    <3> QED
      BY <1>2, <2>2, <2>5, <3>1
  <2>7. \A k \in 1 .. Len(fifo') : Kept(fifo[k].call, new[k])'
    BY <2>1, <2>6 DEF Kept
  <2>8. OrderedChain' /\ GuestBound'
    BY <1>1, <2>1, <2>5, <2>7 DEF OrderedChain, GuestBound
  <2> QED
    BY <1>1, <2>4, <2>8 DEF OInv
<1>8. CASE Programs
  BY <1>1, <1>4, <1>5, <1>6, <1>8, ProgramsMake
<1> QED
  BY <1>3, <1>7, <1>8 DEF Next

\* The strengthened invariant is inductive for orderly programs.
THEOREM Inductive ==
  ASSUME Orderly, NoCaps, Near
  PROVE  Spec => []OInv
<1>1. Init => OInv
  BY InitFits
<1>2. OInv /\ [Next]_vars => OInv'
  BY StepFits
<1> QED
  BY <1>1, <1>2, PTL DEF Spec

\* Data of a draw are copied into the vertex cache only, and within the entry that the
\* array's address was given from, for every first vertex and every size of a draw
\* that keeps the rule MayReach (PushVertexArray of mesapt_mm.c, mglvarry.c).
THEOREM CopiesStayInside ==
  ASSUME Orderly, NoCaps, Near
  PROVE  Spec => []CopiesFit
<1>1. OInv => CopiesFit
  BY DEF OInv
<1> QED
  BY <1>1, Inductive, PTL

-----------------------------------------------------------------------------
(* The places of the program's blocks in the vertex cache.                 *)

\* The entry for an address is the first that serves it.
Serving(c, m, e) ==
  /\ e \in DOMAIN c /\ Serves(c[e], m)
  /\ \A f \in 1 .. e - 1 : ~Serves(c[f], m)

\* The place of a block.
Stored(c, m, p) == \E e \in DOMAIN c : Serving(c, m, e) /\ p = Cached(e, m - c[e].lo)

\* The bytes of a block's place, and those of them that a draw copies.
Offsets == 0 .. Half - 1
Touched(part) == part.first .. part.first + Cut(part) - 1

\* What the vertex cache shows of the blocks, byte by byte.  One that no entry serves finds
\* its place blank.
Holds(v, m, b) == \A j \in Offsets : v[m][j] = b
Shows(c, v) ==
  /\ \A e \in DOMAIN c : DOMAIN c[e].data = 0 .. 2 * Size - 1
  /\ \A m \in Mem, e \in DOMAIN c : Serving(c, m, e) =>
       \A j \in Offsets : c[e].data[(m - c[e].lo) + j] = v[m][j]
  /\ \A m \in Mem : (\A e \in DOMAIN c : ~Serves(c[e], m)) => Holds(v, m, "blank")

\* Sizes and addresses are numbers.
LEMMA Numbers ==
  /\ Size \in Nat /\ Size > 1 /\ Half \in Nat /\ Half >= 1 /\ Half <= Size /\ PageSize \in Nat
  /\ \A m \in Mem : m \in Nat /\ m >= PageSize
  /\ \A m, n \in Mem : m < n => n - m >= Half
  BY ConstantsAssumption DEF Half

\* A draw that keeps the rule copies within the place, all that it uses if that is no more
\* than half a cache.
LEMMA TouchedBytes ==
  ASSUME NEW part \in PartType, MayReach(part)
  PROVE  /\ Touched(part) \subseteq Offsets
         /\ part.first \in Nat /\ part.size \in Nat /\ part.size >= 1
         /\ part.first + Cut(part) <= Half /\ Cut(part) \in Nat
         /\ part.size <= Half => Cut(part) = part.size /\ part.first + part.size <= Half
<1>1. part.first \in Nat /\ part.size \in Nat /\ part.size >= 1
  BY DEF PartType
<1>2. part.first = 0 \/ part.first + part.size <= Half
  BY DEF MayReach
<1>3. Cut(part) \in Nat /\ part.first + Cut(part) <= Half
  BY <1>1, <1>2, Numbers DEF Cut
<1>4. part.size <= Half => Cut(part) = part.size
  BY <1>1, Numbers DEF Cut
<1> QED
  BY <1>1, <1>3, <1>4, Numbers DEF Touched, Offsets

LEMMA TouchedWhole == Whole \in PartType /\ Whole.size = Half /\ Touched(Whole) = Offsets
  BY Numbers DEF Whole, PartType, Touched, Offsets, Cut

\* There is one entry for an address.
LEMMA ServingOne ==
  ASSUME NEW c, CacheType(c), NEW m, NEW e, NEW f, Serving(c, m, e), Serving(c, m, f)
  PROVE  e = f
<1>1. DOMAIN c = 1 .. Len(c) /\ Len(c) \in Nat
  BY CacheShape
<1>2. e \in 1 .. Len(c) /\ f \in 1 .. Len(c)
  BY <1>1 DEF Serving
<1>3. f \notin 1 .. e - 1 /\ e \notin 1 .. f - 1
  BY DEF Serving
<1> QED
  BY <1>1, <1>2, <1>3

\* A block's place is in its entry.
LEMMA ServingRange ==
  ASSUME NEW c, CacheInv(c), NEW m \in Mem, NEW e, Serving(c, m, e)
  PROVE  /\ e \in DOMAIN c /\ e \in Nat /\ c[e].lo \in Nat
         /\ m - c[e].lo \in Nat /\ m - c[e].lo + Half <= 2 * Size
<1>1. /\ DOMAIN c = 1 .. Len(c) /\ Len(c) \in Nat
      /\ \A f \in DOMAIN c : c[f].lo \in Nat /\ c[f].hi \in Nat
  BY CacheShape DEF CacheInv
<1> DEFINE lo == c[e].lo
           hi == c[e].hi
<1>2. e \in DOMAIN c /\ lo \in Nat /\ hi \in Nat /\ hi = lo + 2 * Size
  BY <1>1 DEF Serving, CacheInv, RangeInv
<1>3. (m >= lo \/ lo = PageSize) /\ hi - m >= Half
  BY DEF Serving, Serves
<1> HIDE DEF lo, hi
<1>4. m - lo \in Nat /\ m - lo + Half <= 2 * Size
  BY <1>2, <1>3, Numbers
<1> QED
  BY <1>1, <1>2, <1>4 DEF lo

\* An address that some entry serves has an entry.
LEMMA ServingFound ==
  ASSUME NEW c, CacheType(c), NEW m, NEW g \in DOMAIN c, Serves(c[g], m)
  PROVE  \E e \in DOMAIN c : Serving(c, m, e)
<1> DEFINE all == {e \in DOMAIN c : Serves(c[e], m)}
<1>1. DOMAIN c = 1 .. Len(c) /\ Len(c) \in Nat
  BY CacheShape
<1>2. all # {} /\ all \in SUBSET Nat
  BY <1>1
<1>3. PICK e \in all : \A y \in all : e <= y
  <2> HIDE DEF all
  <2> QED
    BY <1>2, LeastOf
<1>4. \A j \in 1 .. e - 1 : j \in DOMAIN c /\ ~(e <= j)
  BY <1>1, <1>3
<1>5. Serving(c, m, e)
  BY <1>3, <1>4 DEF Serving
<1> QED
  BY <1>3, <1>5

\* The lookup leaves the entries alone and may add one.
LEMMA LookedEntries ==
  ASSUME CacheInv(cache), NEW m
  PROVE  /\ Len(cache) \in Nat /\ DOMAIN cache = 1 .. Len(cache)
         /\ \/ Looked(m) = cache
            \/ /\ \A e \in DOMAIN cache : ~Serves(cache[e], m)
               /\ DOMAIN Looked(m) = 1 .. Len(cache) + 1
               /\ Looked(m)[Len(cache) + 1] = NewEntry(m)
         /\ \A e \in DOMAIN cache : e \in DOMAIN Looked(m) /\ Looked(m)[e] = cache[e]
<1>1. Len(cache) \in Nat /\ DOMAIN cache = 1 .. Len(cache)
  BY CacheShape DEF CacheInv
<1>2. CASE \E e \in DOMAIN cache : Serves(cache[e], m)
  BY <1>1, <1>2 DEF Looked
<1>3. CASE ~ \E e \in DOMAIN cache : Serves(cache[e], m)
  <2> DEFINE new == NewEntry(m)
             c == Append(cache, new)
  <2>1. Looked(m) = c
    BY <1>3 DEF Looked
  <2>2. PICK E : cache \in Seq(E)
    BY DEF CacheInv, CacheType
  <2> HIDE DEF new
  <2>3. /\ DOMAIN c = 1 .. Len(cache) + 1 /\ c[Len(cache) + 1] = new
        /\ \A e \in 1 .. Len(cache) : c[e] = cache[e]
    BY <1>1, <2>2
  <2> HIDE DEF c
  <2> QED
    BY <1>1, <1>3, <2>1, <2>3 DEF new
<1> QED
  BY <1>2, <1>3

\* So an address keeps its entry.
LEMMA ServingKept ==
  ASSUME CacheInv(cache), NEW m, NEW h, NEW e, Serving(cache, h, e)
  PROVE  Serving(Looked(m), h, e) /\ Looked(m)[e] = cache[e]
<1>1. /\ Len(cache) \in Nat /\ DOMAIN cache = 1 .. Len(cache)
      /\ \A f \in DOMAIN cache : f \in DOMAIN Looked(m) /\ Looked(m)[f] = cache[f]
  BY LookedEntries
<1>2. e \in DOMAIN cache /\ \A f \in 1 .. e - 1 : f \in DOMAIN cache
  BY <1>1 DEF Serving
<1> QED
  BY <1>1, <1>2 DEF Serving

\* And a block its place.
LEMMA StoredKept ==
  ASSUME CacheInv(cache), NEW m, NEW h, NEW p, Stored(cache, h, p)
  PROVE  Stored(Looked(m), h, p)
<1>1. PICK e \in DOMAIN cache : Serving(cache, h, e) /\ p = Cached(e, h - cache[e].lo)
  BY DEF Stored
<1>2. Serving(Looked(m), h, e) /\ Looked(m)[e] = cache[e]
  BY <1>1, ServingKept
<1> QED
  BY <1>1, <1>2 DEF Stored, Serving

\* The address the library is given is the block's place.
LEMMA LookupStored ==
  ASSUME CacheInv(cache), NEW m \in Mem
  PROVE  Stored(Looked(m), m, LookupVertex(m))
<1> DEFINE c == Looked(m)
           found == CHOOSE e \in DOMAIN c :
                      Serves(c[e], m) /\ \A j \in 1 .. e - 1 : ~Serves(c[j], m)
<1>1. CacheInv(c) /\ \E e \in DOMAIN c : Serves(c[e], m)
  BY LookedCache
<1>2. LookupVertex(m) = Cached(found, m - c[found].lo)
  BY DEF LookupVertex
<1> HIDE DEF c
<1>3. \E e \in DOMAIN c : Serving(c, m, e)
  BY <1>1, ServingFound DEF CacheInv
<1>4. \E e \in DOMAIN c : Serves(c[e], m) /\ \A j \in 1 .. e - 1 : ~Serves(c[j], m)
  BY <1>3 DEF Serving
<1>5. found \in DOMAIN c /\ Serves(c[found], m) /\ \A j \in 1 .. found - 1 : ~Serves(c[j], m)
  BY <1>4
<1> HIDE DEF found
<1>6. Serving(c, m, found)
  BY <1>5 DEF Serving
<1>7. Stored(c, m, LookupVertex(m))
  BY <1>2, <1>5, <1>6 DEF Stored
<1> QED
  BY <1>7 DEF c

\* A new entry is blank, so the lookup shows nothing else.
LEMMA LookedShows ==
  ASSUME CacheInv(cache), NEW m \in Mem, NEW v, Shows(cache, v)
  PROVE  Shows(Looked(m), v)
<1> DEFINE c == Looked(m)
           n == Len(cache) + 1
<1>1. /\ Len(cache) \in Nat /\ DOMAIN cache = 1 .. Len(cache)
      /\ \A e \in DOMAIN cache : e \in DOMAIN c /\ c[e] = cache[e]
      /\ \/ c = cache
         \/ DOMAIN c = 1 .. n /\ c[n] = NewEntry(m)
  BY LookedEntries
<1>2. CacheInv(c)
  BY LookedCache
<1>3. CASE c = cache
  BY <1>3
<1>4. CASE c # cache
  <2> HIDE DEF c
  <2>1. /\ DOMAIN c = 1 .. n /\ c[n] = NewEntry(m)
        /\ \A e \in 1 .. n : e = n \/ e \in DOMAIN cache
    BY <1>1, <1>4
  <2>2. NewEntry(m).data = [i \in 0 .. 2 * Size - 1 |-> "blank"]
    BY DEF NewEntry
  <2> HIDE DEF n
  <2>3. \A e \in DOMAIN c : DOMAIN c[e].data = 0 .. 2 * Size - 1
    BY <1>1, <2>1, <2>2 DEF Shows
  <2>4. ASSUME NEW h \in Mem, NEW e \in DOMAIN c, Serving(c, h, e), NEW j \in Offsets
        PROVE  c[e].data[(h - c[e].lo) + j] = v[h][j]
    <3>1. CASE e \in DOMAIN cache
      <4>1. Serving(cache, h, e)
        <5>1. \A f \in 1 .. e - 1 : f \in DOMAIN cache
          BY <1>1, <3>1
        <5> QED
          BY <1>1, <2>4, <3>1, <5>1 DEF Serving
      <4> QED
        BY <1>1, <2>4, <3>1, <4>1 DEF Shows
    <3>2. CASE e = n
      <4>1. \A f \in DOMAIN cache : f \in 1 .. n - 1
        BY <1>1 DEF n
      <4>2. \A f \in DOMAIN cache : ~Serves(cache[f], h)
        BY <1>1, <2>4, <3>2, <4>1 DEF Serving
      <4>3. (h - c[e].lo) + j \in 0 .. 2 * Size - 1
        <5> DEFINE off == h - c[e].lo
        <5>1. off \in Nat /\ off + Half <= 2 * Size
          BY <1>2, <2>4, ServingRange
        <5> HIDE DEF off
        <5>2. off + j \in 0 .. 2 * Size - 1
          BY <5>1, Numbers DEF Offsets
        <5> QED
          BY <5>2 DEF off
      <4>4. v[h][j] = "blank"
        BY <4>2 DEF Shows, Holds
      <4> QED
        BY <2>1, <2>2, <3>2, <4>3, <4>4
    <3> QED
      BY <2>1, <3>1, <3>2
  <2>5. \A h \in Mem : (\A e \in DOMAIN c : ~Serves(c[e], h)) => Holds(v, h, "blank")
    BY <1>1 DEF Shows
  <2>6. Shows(c, v)
    BY <2>3, <2>4, <2>5 DEF Shows
  <2> QED
    BY <2>6 DEF c
<1> QED
  BY <1>3, <1>4

-----------------------------------------------------------------------------
(* What a draw leaves in the vertex cache.                                 *)

Parts == Arrays \union {"interleaved"}

\* The same block, for the DLL by its address and for the device by its place.
Points(c, p, q) ==
  /\ \A m \in Mem : p = Client(m) => Stored(c, m, q)
  /\ (\A m \in Mem : p # Client(m)) => q[1] # "cache"

Pointed(s, d, c) == \A x \in Parts : Points(c, PlaceOf(s, x), PlaceOf(d, x))

\* The data that are copied over a byte of an entry.
Covering(taken, data, part, e, i) ==
  {k \in DOMAIN taken \ {k \in DOMAIN taken : taken[k] = "indices"} :
     /\ k \in DOMAIN data
     /\ LET p == PlaceOf(device, taken[k]) IN
        p[1] = "cache" /\ p[2] = e /\ i \in Bytes(p, part, Cut(part))}

\* The data that some arrays carry turn what the cache shows from v into w, in the bytes
\* that the draw copies.
Brings(s, names, data, part, v, w) ==
  /\ DOMAIN data = DOMAIN names
  /\ \A m \in Mem, k \in DOMAIN names :
       names[k] # "indices" /\ PlaceOf(s, names[k]) = Client(m) =>
         \A j \in Touched(part) : data[k] = w[m][j]
  /\ \A m \in Mem, j \in Offsets :
       \/ j \notin Touched(part)
       \/ \A k \in DOMAIN names : names[k] = "indices" \/ PlaceOf(s, names[k]) # Client(m)
       => w[m][j] = v[m][j]

\* A set of indices has a last one.
LEMMA LastOf ==
  ASSUME NEW N \in Nat, NEW S \in SUBSET (1 .. N), S # {}
  PROVE  \E x \in S : \A y \in S : y <= x
<1> DEFINE T == {N - x : x \in S}
<1>1. \A y \in S : y \in 1 .. N
  OBVIOUS
<1>2. \A y \in S : y \in Nat /\ N - y \in Nat
  BY <1>1
<1>3. T \in SUBSET Nat /\ T # {}
  BY <1>2
<1>4. PICK t \in T : \A y \in T : t <= y
  <2> HIDE DEF T
  <2> QED
    BY <1>3, LeastOf
<1>5. PICK x \in S : t = N - x
  BY <1>4
<1>6. \A y \in S : N - x <= N - y
  BY <1>4, <1>5
<1> QED
  BY <1>2, <1>6

\* The bytes of the cache after a draw.
LEMMA CopiedBytes ==
  ASSUME CacheInv(cache), NEW taken, NEW data, NEW part, NEW N \in Nat, DOMAIN taken = 1 .. N
  PROVE  /\ DOMAIN Copied(taken, data, part) = DOMAIN cache
         /\ \A e \in DOMAIN cache :
              /\ Copied(taken, data, part)[e].lo = cache[e].lo
              /\ Copied(taken, data, part)[e].hi = cache[e].hi
              /\ DOMAIN Copied(taken, data, part)[e].data = DOMAIN cache[e].data
              /\ \A i \in DOMAIN cache[e].data :
                   IF Covering(taken, data, part, e, i) = {}
                   THEN Copied(taken, data, part)[e].data[i] = cache[e].data[i]
                   ELSE \E k \in Covering(taken, data, part, e, i) :
                          Copied(taken, data, part)[e].data[i] = data[k]
<1> DEFINE c == Copied(taken, data, part)
           last(s) == CHOOSE k \in s : \A j \in s : j <= k
           bytes(e) == [i \in DOMAIN cache[e].data |->
                          IF Covering(taken, data, part, e, i) = {} THEN cache[e].data[i]
                          ELSE data[last(Covering(taken, data, part, e, i))]]
<1>1. PICK D : cache \in Seq([lo : Nat, hi : Nat, data : D])
  BY DEF CacheInv, CacheType
<1> DEFINE Entry == [lo : Nat, hi : Nat, data : D]
<1>2. /\ DOMAIN cache = 1 .. Len(cache)
      /\ \A e \in 1 .. Len(cache) : cache[e] \in Entry
  <2> HIDE DEF Entry
  <2>1. cache \in Seq(Entry)
    BY <1>1 DEF Entry
  <2> QED
    BY <2>1
<1>3. c = [e \in DOMAIN cache |-> [cache[e] EXCEPT !.data = bytes(e)]]
  BY DEF Copied, Covering
<1>4. \A s \in SUBSET (1 .. N) : s # {} => last(s) \in s
  BY LastOf
<1>5. \A e, i : Covering(taken, data, part, e, i) \in SUBSET (1 .. N)
  BY DEF Covering
<1>6. ASSUME NEW e \in DOMAIN cache, NEW i \in DOMAIN cache[e].data
      PROVE  IF Covering(taken, data, part, e, i) = {}
             THEN bytes(e)[i] = cache[e].data[i]
             ELSE \E k \in Covering(taken, data, part, e, i) : bytes(e)[i] = data[k]
  <2>1. bytes(e)[i] = IF Covering(taken, data, part, e, i) = {} THEN cache[e].data[i]
                      ELSE data[last(Covering(taken, data, part, e, i))]
    OBVIOUS
  <2>2. Covering(taken, data, part, e, i) # {} =>
          last(Covering(taken, data, part, e, i)) \in Covering(taken, data, part, e, i)
    BY <1>4, <1>5
  <2> HIDE DEF bytes, last
  <2> QED
    BY <2>1, <2>2
<1>7. \A e \in DOMAIN cache : DOMAIN bytes(e) = DOMAIN cache[e].data
  OBVIOUS
<1> HIDE DEF bytes, c
<1>8. DOMAIN c = DOMAIN cache
  BY <1>3
<1>9. \A e \in DOMAIN cache : /\ c[e].lo = cache[e].lo /\ c[e].hi = cache[e].hi
                              /\ c[e].data = bytes(e)
  BY <1>2, <1>3
<1>10. DOMAIN c = DOMAIN cache
       /\ \A e \in DOMAIN cache :
            /\ c[e].lo = cache[e].lo /\ c[e].hi = cache[e].hi
            /\ DOMAIN c[e].data = DOMAIN cache[e].data
            /\ \A i \in DOMAIN cache[e].data :
                 IF Covering(taken, data, part, e, i) = {}
                 THEN c[e].data[i] = cache[e].data[i]
                 ELSE \E k \in Covering(taken, data, part, e, i) : c[e].data[i] = data[k]
  BY <1>6, <1>7, <1>8, <1>9
<1> QED
  BY <1>10 DEF c

\* Copying what a draw carries shows what it brings: blocks do not overlap, and what is
\* copied to a block's place is the block's.
LEMMA CopiedShows ==
  ASSUME CacheInv(cache), NEW s, Pointed(s, device, cache),
         NEW taken, NEW N \in Nat, DOMAIN taken = 1 .. N,
         \A k \in DOMAIN taken : taken[k] \in Parts \union {"indices"},
         NEW part \in PartType, MayReach(part),
         NEW data, NEW v, NEW w, Brings(s, taken, data, part, v, w), Shows(cache, v)
  PROVE  Shows(Copied(taken, data, part), w)
<1> DEFINE c == Copied(taken, data, part)
<1>1. /\ DOMAIN c = DOMAIN cache
      /\ \A e \in DOMAIN cache :
           /\ c[e].lo = cache[e].lo /\ c[e].hi = cache[e].hi
           /\ DOMAIN c[e].data = DOMAIN cache[e].data
           /\ \A i \in DOMAIN cache[e].data :
                IF Covering(taken, data, part, e, i) = {}
                THEN c[e].data[i] = cache[e].data[i]
                ELSE \E k \in Covering(taken, data, part, e, i) : c[e].data[i] = data[k]
  BY CopiedBytes
<1> HIDE DEF c
<1>2. DOMAIN cache = 1 .. Len(cache) /\ Len(cache) \in Nat
  BY CacheShape DEF CacheInv
<1>3. \A m, e : Serving(c, m, e) <=> Serving(cache, m, e)
  <2>1. ASSUME NEW m, NEW e PROVE Serving(c, m, e) <=> Serving(cache, m, e)
    <3>1. \A f \in DOMAIN cache : Serves(c[f], m) <=> Serves(cache[f], m)
      BY <1>1 DEF Serves
    <3>2. e \in DOMAIN cache => \A f \in 1 .. e - 1 : f \in DOMAIN cache
      BY <1>2
    <3> QED
      BY <1>1, <3>1, <3>2 DEF Serving
  <2> QED
    BY <2>1
<1>4. \A e \in DOMAIN c : DOMAIN c[e].data = 0 .. 2 * Size - 1
  BY <1>1 DEF Shows
<1>5. ASSUME NEW m \in Mem, NEW e \in DOMAIN c, Serving(c, m, e), NEW j \in Offsets
      PROVE  c[e].data[(m - c[e].lo) + j] = w[m][j]
  <2> DEFINE off == m - cache[e].lo
             i == off + j
  <2>1. Serving(cache, m, e) /\ e \in DOMAIN cache /\ c[e].lo = cache[e].lo
    BY <1>1, <1>3, <1>5
  <2>2. off \in Nat /\ off + Half <= 2 * Size /\ cache[e].lo \in Nat /\ m \in Nat
    BY <2>1, ServingRange, Numbers
  <2>3. i \in off .. off + Half - 1
    <3> HIDE DEF off
    <3> QED
      BY <2>2, Numbers DEF Offsets
  <2>4. /\ part.first \in Nat /\ Cut(part) \in Nat /\ part.first + Cut(part) <= Half
        /\ Touched(part) \subseteq Offsets
    BY TouchedBytes
  <2> HIDE DEF i
  <2>5. ASSUME NEW k \in Covering(taken, data, part, e, i)
        PROVE  /\ taken[k] # "indices" /\ PlaceOf(s, taken[k]) = Client(m) /\ k \in DOMAIN taken
               /\ j \in Touched(part)
    <3> DEFINE p == PlaceOf(device, taken[k])
    <3>1. /\ k \in DOMAIN taken /\ taken[k] # "indices" /\ k \in DOMAIN data
          /\ p[1] = "cache" /\ p[2] = e
          /\ i \in p[3] + part.first .. p[3] + part.first + Cut(part) - 1
      BY <2>5 DEF Covering, Bytes
    <3>2. taken[k] \in Parts
      BY <3>1
    <3>3. PICK h \in Mem : PlaceOf(s, taken[k]) = Client(h)
      BY <3>1, <3>2 DEF Pointed, Points
    <3>4. Stored(cache, h, p)
      BY <3>2, <3>3 DEF Pointed, Points
    <3> HIDE DEF p
    <3>5. PICK f \in DOMAIN cache : Serving(cache, h, f) /\ p = Cached(f, h - cache[f].lo)
      BY <3>4 DEF Stored
    <3>6. f = e /\ p[3] = h - cache[e].lo
      BY <3>1, <3>5, Kinds
    <3>7. /\ i \in (h - cache[e].lo) + part.first .. (h - cache[e].lo) + part.first + Cut(part) - 1
          /\ h \in Nat
      BY <3>1, <3>6, Numbers
    <3>8. h = m
      <4> DEFINE lo == cache[e].lo
      <4>1. /\ i \in (h - lo) + part.first .. (h - lo) + part.first + Cut(part) - 1
            /\ i \in m - lo .. m - lo + Half - 1
            /\ lo \in Nat /\ m \in Nat /\ h \in Nat /\ Half \in Nat
        BY <2>2, <2>3, <3>7, Numbers
      <4> HIDE DEF lo
      <4>2. ~(h - m >= Half) /\ ~(m - h >= Half)
        BY <2>4, <4>1
      <4> QED
        BY <4>1, <4>2, Numbers
    <3>9. j \in Touched(part)
      <4> HIDE DEF off
      <4>1. i \in off + part.first .. off + part.first + Cut(part) - 1
        BY <3>7, <3>8 DEF off
      <4>2. off \in Nat /\ j \in Int /\ i = off + j
        BY <2>2, Numbers DEF i, Offsets
      <4>3. part.first <= j /\ j <= part.first + Cut(part) - 1
        BY <2>4, <4>1, <4>2
      <4> QED
        BY <2>4, <4>2, <4>3 DEF Touched
    <3> QED
      BY <3>1, <3>3, <3>8, <3>9
  <2>6. ASSUME NEW k \in DOMAIN taken, taken[k] # "indices", PlaceOf(s, taken[k]) = Client(m),
               j \in Touched(part)
        PROVE  k \in Covering(taken, data, part, e, i)
    <3> DEFINE p == PlaceOf(device, taken[k])
    <3>1. taken[k] \in Parts
      BY <2>6
    <3>2. Stored(cache, m, p)
      BY <2>6, <3>1 DEF Pointed, Points
    <3>3. PICK f \in DOMAIN cache : Serving(cache, m, f) /\ p = Cached(f, m - cache[f].lo)
      BY <3>2 DEF Stored
    <3>4. f = e
      BY <2>1, <3>3, ServingOne DEF CacheInv
    <3>5. p[1] = "cache" /\ p[2] = e /\ p[3] = off
      BY <3>3, <3>4, Kinds
    <3>6. k \in DOMAIN data
      BY DEF Brings
    <3> HIDE DEF p, off
    <3>7. i \in Bytes(p, part, Cut(part))
      BY <2>2, <2>6, <2>4, <3>5, Numbers DEF i, Touched, Bytes, Offsets
    <3> QED
      BY <2>6, <3>5, <3>6, <3>7 DEF Covering, p
  <2>7. i \in DOMAIN cache[e].data
    <3> HIDE DEF off
    <3>1. i \in 0 .. 2 * Size - 1
      BY <2>2, <2>3, Numbers
    <3> QED
      BY <2>1, <3>1 DEF Shows
  <2>8. ASSUME Covering(taken, data, part, e, i) = {}
        PROVE  c[e].data[i] = w[m][j]
    <3>1. \/ j \notin Touched(part)
          \/ \A k \in DOMAIN taken : taken[k] = "indices" \/ PlaceOf(s, taken[k]) # Client(m)
      BY <2>6, <2>8
    <3>2. w[m][j] = v[m][j]
      BY <3>1 DEF Brings
    <3>3. cache[e].data[i] = v[m][j]
      BY <2>1 DEF Shows, i
    <3> QED
      BY <1>1, <2>1, <2>7, <2>8, <3>2, <3>3
  <2>9. ASSUME Covering(taken, data, part, e, i) # {}
        PROVE  c[e].data[i] = w[m][j]
    <3>1. PICK k \in Covering(taken, data, part, e, i) : c[e].data[i] = data[k]
      BY <1>1, <2>1, <2>7, <2>9
    <3>2. data[k] = w[m][j]
      BY <2>5 DEF Brings
    <3> QED
      BY <3>1, <3>2
  <2>10. c[e].data[i] = w[m][j]
    BY <2>8, <2>9
  <2> QED
    BY <2>1, <2>10 DEF i
<1>6. ASSUME NEW m \in Mem, \A e \in DOMAIN c : ~Serves(c[e], m)
      PROVE  Holds(w, m, "blank")
  <2>1. \A e \in DOMAIN cache : ~Serves(cache[e], m)
    BY <1>1, <1>6 DEF Serves
  <2>2. \A p : ~Stored(cache, m, p)
    BY <2>1 DEF Stored, Serving
  <2>3. \A k \in DOMAIN taken : taken[k] = "indices" \/ PlaceOf(s, taken[k]) # Client(m)
    BY <2>2 DEF Pointed, Points
  <2> QED
    BY <2>1, <2>3 DEF Brings, Shows, Holds
<1>7. Shows(c, w)
  BY <1>4, <1>5, <1>6 DEF Shows
<1> QED
  BY <1>7 DEF c

-----------------------------------------------------------------------------
(* What calls do to the addresses.                                         *)

\* A copy after a call: its addresses.
LEMMA TrackedPlaces ==
  ASSUME NEW s \in CopyType, NEW c, WellFormed(c)
  PROVE  /\ \A a \in Arrays : Tracked(s, c).ptr[a] =
              IF Forgets(s, c) THEN Null
              ELSE IF c.op \in {"Pointer", "AttribPointer"} /\ a = Meant(s, c.what) THEN c.ptr
              ELSE s.ptr[a]
         /\ Tracked(s, c).interPtr = IF c.op = "Interleaved" THEN c.ptr ELSE s.interPtr
         /\ Tracked(s, c).interleaved <=> c.op = "Interleaved" \/ s.interleaved
<1> USE DEF CopyType
<1>1. CASE c.op = "ActiveTexture"
  BY <1>1 DEF Tracked, Forgets
<1>2. CASE c.op \in {"Enable", "EnableAttrib", "EnableCap", "Disable", "DisableAttrib",
                     "DisableCap"}
  <2>1. PICK on, unit : Tracked(s, c) = [s EXCEPT !.on = on, !.unit = unit]
    BY <1>2 DEF Tracked, ArrayState
  <2> QED
    BY <1>2, <2>1 DEF Forgets
<1>3. CASE c.op \in {"Pointer", "AttribPointer"}
  <2> DEFINE a == Meant(s, c.what)
             p == [s.ptr EXCEPT ![a] = c.ptr]
  <2>1. Tracked(s, c) = [s EXCEPT !.ptr = p]
    BY <1>3 DEF Tracked
  <2>2. \A x \in Arrays : p[x] = IF x = a THEN c.ptr ELSE s.ptr[x]
    <3> HIDE DEF a
    <3> QED
      OBVIOUS
  <2> HIDE DEF p
  <2> QED
    BY <1>3, <2>1, <2>2 DEF Forgets
<1>4. CASE c.op = "Interleaved"
  BY <1>4 DEF Tracked, Forgets
<1>5. CASE c.op \in {"BindArray", "BindElement", "DeleteBuffer"}
  <2> DEFINE Like(r) == /\ r \in CopyType /\ r.ptr = s.ptr /\ r.interPtr = s.interPtr
                        /\ r.interleaved = s.interleaved /\ r.vao = s.vao
  <2>1. \A r \in CopyType : /\ InVao(r).ptr = r.ptr /\ InVao(r).interPtr = r.interPtr
                            /\ InVao(r).interleaved = r.interleaved
    BY DEF InVao
  <2>2. \A r \in CopyType : /\ PtrReset(r) \in CopyType /\ PtrReset(r).interPtr = r.interPtr
                            /\ PtrReset(r).interleaved = r.interleaved
                            /\ \A a \in Arrays : PtrReset(r).ptr[a] = Null
    BY Addresses DEF PtrReset
  <2>3. CASE c.op = "BindArray"
    <3> DEFINE r == [s EXCEPT !.arrayBuf = c.name]
    <3>1. Like(r)
      BY <2>3 DEF WellFormed
    <3>2. Tracked(s, c) = InVao(IF s.vao = 0 /\ c.name = 0 THEN PtrReset(r) ELSE r)
      BY <2>3 DEF Tracked, BindArrayBuffer
    <3> HIDE DEF r, CopyType
    <3> QED
      BY <2>1, <2>2, <2>3, <3>1, <3>2 DEF Forgets
  <2>4. CASE c.op = "BindElement"
    <3> DEFINE r == [s EXCEPT !.elemBuf = c.name]
    <3>1. Like(r)
      BY <2>4 DEF WellFormed
    <3>2. Tracked(s, c) = InVao(r)
      BY <2>4 DEF Tracked
    <3> HIDE DEF r, CopyType
    <3> QED
      BY <2>1, <2>4, <3>1, <3>2 DEF Forgets
  <2>5. CASE c.op = "DeleteBuffer"
    <3> DEFINE r == [s EXCEPT !.arrayBuf = IF @ = c.name THEN 0 ELSE @,
                              !.elemBuf = IF @ = c.name THEN 0 ELSE @]
    <3>1. Like(r)
      OBVIOUS
    <3>2. Tracked(s, c) = InVao(IF s.vao = 0 /\ s.arrayBuf = c.name THEN PtrReset(r) ELSE r)
      BY <2>5 DEF Tracked, DeleteBuffer
    <3> HIDE DEF r, CopyType
    <3> QED
      BY <2>1, <2>2, <2>5, <3>1, <3>2 DEF Forgets
  <2> QED
    BY <1>5, <2>3, <2>4, <2>5
<1>6. CASE c.op \in {"BindVao", "DeleteVao"}
  BY <1>6 DEF Tracked, BindVertexArray, Forgets
<1>7. CASE c.op \notin {"ActiveTexture", "Enable", "EnableAttrib", "EnableCap", "Disable",
                        "DisableAttrib", "DisableCap", "Pointer", "AttribPointer",
                        "Interleaved", "BindArray", "BindElement", "DeleteBuffer", "BindVao",
                        "DeleteVao"}
  BY <1>7 DEF Tracked, Forgets
<1> QED
  BY <1>1, <1>2, <1>3, <1>4, <1>5, <1>6, <1>7

\* Null is in no place.
LEMMA NullPoints ==
  ASSUME NEW c
  PROVE  Points(c, Null, Null)
  BY Kinds DEF Points, Null

\* Copies that name the same blocks still do after a call that does.
LEMMA PointedTracked ==
  ASSUME NEW s \in CopyType, NEW d \in CopyType, Alike(s, d), NEW e, Pointed(s, d, e),
         NEW c, NEW g, SameCall(c, g), WellFormed(c), WellFormed(g),
         c.op \in Specifies => Points(e, c.ptr, g.ptr)
  PROVE  Pointed(Tracked(s, c), Tracked(d, g), e)
<1>1. /\ c.op = g.op /\ c.what = g.what /\ c.name = g.name
      /\ s.unit = d.unit /\ s.vao = d.vao /\ s.arrayBuf = d.arrayBuf
  BY DEF SameCall, Alike
<1>2. Meant(s, c.what) = Meant(d, g.what) /\ (Forgets(s, c) <=> Forgets(d, g))
  BY <1>1 DEF Meant, Forgets
<1>3. ASSUME NEW x \in Arrays
      PROVE  Points(e, Tracked(s, c).ptr[x], Tracked(d, g).ptr[x])
  <2>1. Points(e, s.ptr[x], d.ptr[x])
    <3>1. x # "interleaved" /\ x \in Parts
      BY DEF Arrays, Units, Parts
    <3> QED
      BY <3>1 DEF Pointed, PlaceOf
  <2>2. /\ Tracked(s, c).ptr[x] =
             IF Forgets(s, c) THEN Null
             ELSE IF c.op \in {"Pointer", "AttribPointer"} /\ x = Meant(s, c.what) THEN c.ptr
             ELSE s.ptr[x]
        /\ Tracked(d, g).ptr[x] =
             IF Forgets(d, g) THEN Null
             ELSE IF g.op \in {"Pointer", "AttribPointer"} /\ x = Meant(d, g.what) THEN g.ptr
             ELSE d.ptr[x]
    BY TrackedPlaces
  <2>3. c.op \in {"Pointer", "AttribPointer"} => Points(e, c.ptr, g.ptr)
    BY DEF Specifies
  <2>4. Points(e, Null, Null)
    BY NullPoints
  <2>5. CASE Forgets(s, c)
    BY <1>2, <2>2, <2>4, <2>5
  <2>6. CASE ~Forgets(s, c) /\ c.op \in {"Pointer", "AttribPointer"} /\ x = Meant(s, c.what)
    BY <1>1, <1>2, <2>2, <2>3, <2>6
  <2>7. CASE ~Forgets(s, c) /\ ~(c.op \in {"Pointer", "AttribPointer"} /\ x = Meant(s, c.what))
    BY <1>1, <1>2, <2>1, <2>2, <2>7
  <2> QED
    BY <2>5, <2>6, <2>7
<1>4. Points(e, Tracked(s, c).interPtr, Tracked(d, g).interPtr)
  <2>1. Points(e, s.interPtr, d.interPtr)
    BY DEF Pointed, PlaceOf, Parts
  <2>2. /\ Tracked(s, c).interPtr = IF c.op = "Interleaved" THEN c.ptr ELSE s.interPtr
        /\ Tracked(d, g).interPtr = IF g.op = "Interleaved" THEN g.ptr ELSE d.interPtr
    BY TrackedPlaces
  <2>3. CASE c.op = "Interleaved"
    BY <1>1, <2>2, <2>3 DEF Specifies
  <2>4. CASE c.op # "Interleaved"
    BY <1>1, <2>1, <2>2, <2>4
  <2> QED
    BY <2>3, <2>4
<1> QED
  BY <1>3, <1>4 DEF Pointed, PlaceOf, Parts

\* A call changes the sources of the client state.
LEMMA SourcesAfter ==
  ASSUME NEW gl \in GLType, NEW c, WellFormed(c), NEW v \in Vaos \union {0}, NEW a \in Arrays
  PROVE  GLCall(gl, c).src[v][a] =
           IF /\ v = gl.vao
              /\ \/ c.op \in {"Pointer", "AttribPointer"} /\ a = Meant(gl, c.what)
                 \/ c.op = "Interleaved" /\ a \in {"vertex", gl.unit}
           THEN GLSource(gl, c.ptr)
           ELSE IF \/ c.op = "DeleteBuffer" /\ v = gl.vao /\ gl.src[v][a] = Source(c.name)
                   \/ c.op = "DeleteVao" /\ v = c.name
           THEN Null
           ELSE gl.src[v][a]
<1> DEFINE u == gl.vao
           p == GLSource(gl, c.ptr)
           b == Meant(gl, c.what)
<1>1. /\ u \in Vaos \union {0} /\ gl.unit \in Units /\ gl.unit # "vertex"
      /\ gl.src \in [Vaos \union {0} -> [Arrays -> Address]]
      /\ "vertex" \in Arrays /\ gl.unit \in Arrays
  BY DEF GLType, Arrays, Units
<1>2. c.what \in Whats => b \in Arrays
  BY <1>1, MeantTypes
<1> HIDE DEF u, p, b
<1>3. CASE c.op \in {"Pointer", "AttribPointer"}
  <2> DEFINE src == [gl.src EXCEPT ![u][b] = p]
  <2>1. GLCall(gl, c) = [gl EXCEPT !.src = src]
    BY <1>3 DEF GLCall, u, b, p
  <2>2. GLCall(gl, c).src = src
    <3> HIDE DEF src
    <3> QED
      BY <2>1 DEF GLType
  <2>3. src[v][a] = IF v = u /\ a = b THEN p ELSE gl.src[v][a]
    BY <1>1
  <2> HIDE DEF src
  <2> QED
    BY <1>3, <2>2, <2>3 DEF u, b, p
<1>4. CASE c.op = "Interleaved"
  <2> DEFINE once == [gl.src EXCEPT ![u]["vertex"] = p]
             twice == [once EXCEPT ![u][gl.unit] = p]
             on == [gl.on EXCEPT ![u] = @ \union {"vertex", gl.unit}]
  <2>1. GLCall(gl, c) = [gl EXCEPT !.on = on, !.src = twice]
    BY <1>4 DEF GLCall, u, p
  <2>2. GLCall(gl, c).src = twice
    <3> HIDE DEF twice, on
    <3> QED
      BY <2>1 DEF GLType
  <2>3. /\ once[v][a] = IF v = u /\ a = "vertex" THEN p ELSE gl.src[v][a]
        /\ DOMAIN once = DOMAIN gl.src /\ DOMAIN once[v] = Arrays /\ DOMAIN once[u] = Arrays
    BY <1>1
  <2>4. twice[v][a] = IF v = u /\ a = gl.unit THEN p ELSE once[v][a]
    <3> HIDE DEF once
    <3> QED
      BY <1>1, <2>3
  <2> HIDE DEF once, twice
  <2> QED
    BY <1>4, <2>2, <2>3, <2>4 DEF u, p
<1>5. CASE c.op = "DeleteBuffer"
  <2> DEFINE new == [x \in Arrays |-> IF gl.src[u][x] = Source(c.name) THEN Null ELSE gl.src[u][x]]
             src == [gl.src EXCEPT ![u] = new]
             elem == [gl.elem EXCEPT ![u] = IF @ = c.name THEN 0 ELSE @]
             buf == IF gl.arrayBuf = c.name THEN 0 ELSE gl.arrayBuf
  <2>1. GLCall(gl, c) = [gl EXCEPT !.arrayBuf = buf, !.elem = elem, !.src = src]
    BY <1>5 DEF GLCall, GLDeleteBuffer, u
  <2>2. GLCall(gl, c).src = src
    <3> HIDE DEF src, elem, buf
    <3> QED
      BY <2>1 DEF GLType
  <2>3. src[v] = IF v = u THEN new ELSE gl.src[v]
    <3> HIDE DEF new
    <3> QED
      BY <1>1
  <2>4. new[a] = IF gl.src[u][a] = Source(c.name) THEN Null ELSE gl.src[u][a]
    OBVIOUS
  <2> HIDE DEF src, new
  <2> QED
    BY <1>5, <2>2, <2>3, <2>4 DEF u
<1>6. CASE c.op = "DeleteVao"
  <2> DEFINE new == [x \in Arrays |-> Null]
             src == [gl.src EXCEPT ![c.name] = new]
             on == [gl.on EXCEPT ![c.name] = {}]
             elem == [gl.elem EXCEPT ![c.name] = 0]
             vao == IF gl.vao = c.name THEN 0 ELSE gl.vao
  <2>1. GLCall(gl, c) = [gl EXCEPT !.vao = vao, !.on = on, !.src = src, !.elem = elem]
    BY <1>6 DEF GLCall, GLDeleteVao
  <2>2. GLCall(gl, c).src = src
    <3> HIDE DEF src, elem, on, vao
    <3> QED
      BY <2>1 DEF GLType
  <2>3. src[v] = IF v = c.name THEN new ELSE gl.src[v]
    <3> HIDE DEF new
    <3> QED
      BY <1>1
  <2>4. new[a] = Null
    OBVIOUS
  <2> HIDE DEF src, new
  <2> QED
    BY <1>6, <2>2, <2>3, <2>4 DEF u
<1>7. CASE c.op \notin {"Pointer", "AttribPointer", "Interleaved", "DeleteBuffer", "DeleteVao"}
  <2>1. GLCall(gl, c).src = gl.src
    BY <1>7 DEF GLCall, GLType
  <2> QED
    BY <1>7, <2>1
<1> QED
  BY <1>3, <1>4, <1>5, <1>6, <1>7

-----------------------------------------------------------------------------
(* The library's client state and the program's.                           *)

\* Two client states that differ in the sources of the arrays only.
Agrees(gl, lib) ==
  /\ gl.vao = lib.vao /\ gl.arrayBuf = lib.arrayBuf /\ gl.unit = lib.unit
  /\ gl.on = lib.on /\ gl.elem = lib.elem

\* Where one has a buffer, so has the other; where it has a block, the other has its place.
Buffered(gl, lib) ==
  \A v \in Vaos \union {0}, a \in Arrays :
    gl.src[v][a][1] = "buffer" => lib.src[v][a] = gl.src[v][a]
Sourced(gl, lib, c) ==
  \A v \in Vaos \union {0}, a \in Arrays, m \in Mem :
    gl.src[v][a] = Client(m) => Stored(c, m, lib.src[v][a])

\* The calls that change more than one part of it.
LEMMA InterleavedAfter ==
  ASSUME NEW gl \in GLType, NEW c, c.op = "Interleaved"
  PROVE  /\ GLCall(gl, c).vao = gl.vao /\ GLCall(gl, c).arrayBuf = gl.arrayBuf
         /\ GLCall(gl, c).unit = gl.unit /\ GLCall(gl, c).elem = gl.elem
         /\ GLCall(gl, c).on = [gl.on EXCEPT ![gl.vao] = @ \union {"vertex", gl.unit}]
<1> DEFINE v == gl.vao
           x == GLSource(gl, c.ptr)
           once == [gl.src EXCEPT ![v]["vertex"] = x]
           twice == [once EXCEPT ![v][gl.unit] = x]
           on == [gl.on EXCEPT ![v] = @ \union {"vertex", gl.unit}]
<1> HIDE DEF v, x
<1>1. GLCall(gl, c) = [gl EXCEPT !.on = on, !.src = twice]
  BY DEF GLCall, v, x
<1> HIDE DEF twice, on
<1>2. /\ GLCall(gl, c).vao = gl.vao /\ GLCall(gl, c).arrayBuf = gl.arrayBuf
      /\ GLCall(gl, c).unit = gl.unit /\ GLCall(gl, c).elem = gl.elem /\ GLCall(gl, c).on = on
  BY <1>1 DEF GLType
<1> QED
  BY <1>2 DEF on, v

LEMMA DeleteBufferAfter ==
  ASSUME NEW gl \in GLType, NEW c, c.op = "DeleteBuffer"
  PROVE  /\ GLCall(gl, c).vao = gl.vao /\ GLCall(gl, c).unit = gl.unit
         /\ GLCall(gl, c).on = gl.on
         /\ GLCall(gl, c).arrayBuf = IF gl.arrayBuf = c.name THEN 0 ELSE gl.arrayBuf
         /\ GLCall(gl, c).elem = [gl.elem EXCEPT ![gl.vao] = IF @ = c.name THEN 0 ELSE @]
<1> DEFINE v == gl.vao
           new == [x \in Arrays |-> IF gl.src[v][x] = Source(c.name) THEN Null ELSE gl.src[v][x]]
           src == [gl.src EXCEPT ![v] = new]
           elem == [gl.elem EXCEPT ![v] = IF @ = c.name THEN 0 ELSE @]
           buf == IF gl.arrayBuf = c.name THEN 0 ELSE gl.arrayBuf
<1> HIDE DEF v
<1>1. GLCall(gl, c) = [gl EXCEPT !.arrayBuf = buf, !.elem = elem, !.src = src]
  BY DEF GLCall, GLDeleteBuffer, v
<1> HIDE DEF src, elem, buf
<1>2. /\ GLCall(gl, c).vao = gl.vao /\ GLCall(gl, c).unit = gl.unit /\ GLCall(gl, c).on = gl.on
      /\ GLCall(gl, c).arrayBuf = buf /\ GLCall(gl, c).elem = elem
  BY <1>1 DEF GLType
<1> QED
  BY <1>2 DEF buf, elem, v

\* Such states agree after a call.
LEMMA AgreesAfter ==
  ASSUME NEW gl \in GLType, NEW lib \in GLType, Agrees(gl, lib),
         NEW c, NEW g, SameCall(c, g), WellFormed(c)
  PROVE  Agrees(GLCall(gl, c), GLCall(lib, g))
<1> DEFINE v == gl.vao
           a == Meant(gl, c.what)
<1>1. /\ g.op = c.op /\ g.what = c.what /\ g.name = c.name
      /\ v = lib.vao /\ gl.arrayBuf = lib.arrayBuf /\ gl.unit = lib.unit
      /\ gl.on = lib.on /\ gl.elem = lib.elem /\ a = Meant(lib, g.what)
  BY DEF SameCall, Agrees, Meant
<1> HIDE DEF v, a
<1>2. CASE c.op = "ActiveTexture"
  BY <1>1, <1>2 DEF GLCall, Agrees, GLType, v
<1>3. CASE c.op \in {"Enable", "EnableAttrib", "EnableCap"}
  <2> DEFINE on == [gl.on EXCEPT ![v] = @ \union {a}]
  <2>1. GLCall(gl, c) = [gl EXCEPT !.on = on] /\ GLCall(lib, g) = [lib EXCEPT !.on = on]
    BY <1>1, <1>3 DEF GLCall, v, a
  <2> HIDE DEF on
  <2> QED
    BY <1>1, <2>1 DEF Agrees, GLType, v
<1>4. CASE c.op \in {"Disable", "DisableAttrib", "DisableCap"}
  <2> DEFINE on == [gl.on EXCEPT ![v] = @ \ {a}]
  <2>1. GLCall(gl, c) = [gl EXCEPT !.on = on] /\ GLCall(lib, g) = [lib EXCEPT !.on = on]
    BY <1>1, <1>4 DEF GLCall, v, a
  <2> HIDE DEF on
  <2> QED
    BY <1>1, <2>1 DEF Agrees, GLType, v
<1>5. CASE c.op \in {"Pointer", "AttribPointer"}
  <2>1. PICK p, q : GLCall(gl, c) = [gl EXCEPT !.src = p] /\ GLCall(lib, g) = [lib EXCEPT !.src = q]
    BY <1>1, <1>5 DEF GLCall, v
  <2> QED
    BY <1>1, <2>1 DEF Agrees, GLType, v
<1>6. CASE c.op = "Interleaved"
  <2>1. /\ GLCall(gl, c).vao = gl.vao /\ GLCall(gl, c).arrayBuf = gl.arrayBuf
        /\ GLCall(gl, c).unit = gl.unit /\ GLCall(gl, c).elem = gl.elem
        /\ GLCall(gl, c).on = [gl.on EXCEPT ![gl.vao] = @ \union {"vertex", gl.unit}]
    BY <1>6, InterleavedAfter
  <2>2. /\ GLCall(lib, g).vao = lib.vao /\ GLCall(lib, g).arrayBuf = lib.arrayBuf
        /\ GLCall(lib, g).unit = lib.unit /\ GLCall(lib, g).elem = lib.elem
        /\ GLCall(lib, g).on = [lib.on EXCEPT ![lib.vao] = @ \union {"vertex", lib.unit}]
    BY <1>1, <1>6, InterleavedAfter
  <2> QED
    BY <1>1, <2>1, <2>2 DEF Agrees, v
<1>7. CASE c.op = "BindArray"
  BY <1>1, <1>7 DEF GLCall, Agrees, GLType, v
<1>8. CASE c.op = "BindElement"
  <2> DEFINE elem == [gl.elem EXCEPT ![v] = c.name]
  <2>1. GLCall(gl, c) = [gl EXCEPT !.elem = elem] /\ GLCall(lib, g) = [lib EXCEPT !.elem = elem]
    BY <1>1, <1>8 DEF GLCall, v
  <2> HIDE DEF elem
  <2> QED
    BY <1>1, <2>1 DEF Agrees, GLType, v
<1>9. CASE c.op = "DeleteBuffer"
  <2>1. /\ GLCall(gl, c).vao = gl.vao /\ GLCall(gl, c).unit = gl.unit
        /\ GLCall(gl, c).on = gl.on
        /\ GLCall(gl, c).arrayBuf = IF gl.arrayBuf = c.name THEN 0 ELSE gl.arrayBuf
        /\ GLCall(gl, c).elem = [gl.elem EXCEPT ![gl.vao] = IF @ = c.name THEN 0 ELSE @]
    BY <1>9, DeleteBufferAfter
  <2>2. /\ GLCall(lib, g).vao = lib.vao /\ GLCall(lib, g).unit = lib.unit
        /\ GLCall(lib, g).on = lib.on
        /\ GLCall(lib, g).arrayBuf = IF lib.arrayBuf = g.name THEN 0 ELSE lib.arrayBuf
        /\ GLCall(lib, g).elem = [lib.elem EXCEPT ![lib.vao] = IF @ = g.name THEN 0 ELSE @]
    BY <1>1, <1>9, DeleteBufferAfter
  <2> QED
    BY <1>1, <2>1, <2>2 DEF Agrees, v
<1>10. CASE c.op = "BindVao"
  BY <1>1, <1>10 DEF GLCall, Agrees, GLType, v
<1>11. CASE c.op = "DeleteVao"
  <2> DEFINE on == [gl.on EXCEPT ![c.name] = {}]
             elem == [gl.elem EXCEPT ![c.name] = 0]
             vao == IF gl.vao = c.name THEN 0 ELSE gl.vao
  <2> DEFINE new == [x \in Arrays |-> Null]
             p == [gl.src EXCEPT ![c.name] = new]
             q == [lib.src EXCEPT ![c.name] = new]
  <2>1. /\ GLCall(gl, c) = [gl EXCEPT !.vao = vao, !.on = on, !.src = p, !.elem = elem]
        /\ GLCall(lib, g) = [lib EXCEPT !.vao = vao, !.on = on, !.src = q, !.elem = elem]
    BY <1>1, <1>11 DEF GLCall, GLDeleteVao, v
  <2> HIDE DEF on, elem, vao, p, q
  <2> QED
    BY <1>1, <2>1 DEF Agrees, GLType, v
<1>12. CASE c.op \notin {"ActiveTexture", "Enable", "EnableAttrib", "EnableCap", "Disable",
                         "DisableAttrib", "DisableCap", "Pointer", "AttribPointer",
                         "Interleaved", "BindArray", "BindElement", "DeleteBuffer", "BindVao",
                         "DeleteVao"}
  BY <1>1, <1>12 DEF GLCall, Agrees, v
<1> QED
  BY <1>2, <1>3, <1>4, <1>5, <1>6, <1>7, <1>8, <1>9, <1>10, <1>11, <1>12

\* A place is neither a buffer nor null.
LEMMA StoredIs ==
  ASSUME NEW c, NEW m, NEW p, Stored(c, m, p)
  PROVE  p[1] = "cache" /\ p # Null /\ \A b : p # Source(b)
<1>1. PICK e \in DOMAIN c : p = Cached(e, m - c[e].lo)
  BY DEF Stored
<1> QED
  BY <1>1, Kinds DEF Source

\* The addresses a call may have, and what the library makes of them.
LEMMA SourcesOf ==
  ASSUME NEW gl \in GLType, NEW p \in {Null, Offset} \union Clients
  PROVE  /\ GLSource(gl, p)[1] = "buffer" =>
              gl.arrayBuf # 0 /\ p = Offset /\ GLSource(gl, p) = Source(gl.arrayBuf)
         /\ \A m \in Mem : GLSource(gl, p) = Client(m) => gl.arrayBuf = 0 /\ p = Client(m)
<1>1. /\ \A m : Client(m)[1] # "buffer" /\ Client(m) # Wild /\ \A b : Client(m) # Source(b)
      /\ Null[1] # "buffer" /\ Offset[1] # "buffer" /\ Wild[1] # "buffer"
  BY DEF Client, Null, Offset, Wild, Source
<1> QED
  BY <1>1 DEF GLSource, Clients

\* A call takes the same from both, if it names a block to one and its place to the other.
LEMMA SourcedAfter ==
  ASSUME NEW gl \in GLType, NEW lib \in GLType, Agrees(gl, lib),
         NEW c, NEW g, SameCall(c, g), WellFormed(c), WellFormed(g),
         c.ptr \in {Null, Offset} \union Clients, c.ptr = Offset => g.ptr = Offset,
         Buffered(gl, lib)
  PROVE  /\ Buffered(GLCall(gl, c), GLCall(lib, g))
         /\ \A e : /\ Sourced(gl, lib, e)
                   /\ c.op \in Specifies /\ gl.arrayBuf = 0 => Points(e, c.ptr, g.ptr)
                   => Sourced(GLCall(gl, c), GLCall(lib, g), e)
<1>1. /\ g.op = c.op /\ g.what = c.what /\ g.name = c.name
      /\ gl.vao = lib.vao /\ gl.arrayBuf = lib.arrayBuf /\ gl.unit = lib.unit
      /\ Meant(gl, c.what) = Meant(lib, g.what)
  BY DEF SameCall, Agrees, Meant
<1> DEFINE Sets(v, a) == /\ v = gl.vao
                         /\ \/ c.op \in {"Pointer", "AttribPointer"} /\ a = Meant(gl, c.what)
                            \/ c.op = "Interleaved" /\ a \in {"vertex", gl.unit}
           Clears(v, a, q) == \/ c.op = "DeleteBuffer" /\ v = gl.vao /\ q = Source(c.name)
                              \/ c.op = "DeleteVao" /\ v = c.name
           old(v, a) == gl.src[v][a]
           was(v, a) == lib.src[v][a]
<1>2. ASSUME NEW v \in Vaos \union {0}, NEW a \in Arrays
      PROVE  /\ GLCall(gl, c).src[v][a] = IF Sets(v, a) THEN GLSource(gl, c.ptr)
                                          ELSE IF Clears(v, a, old(v, a)) THEN Null ELSE old(v, a)
             /\ GLCall(lib, g).src[v][a] = IF Sets(v, a) THEN GLSource(lib, g.ptr)
                                           ELSE IF Clears(v, a, was(v, a)) THEN Null ELSE was(v, a)
  BY <1>1, SourcesAfter
<1>3. \A v, a : Sets(v, a) => c.op \in Specifies
  BY DEF Specifies
<1> HIDE DEF Sets
<1>4. /\ GLSource(gl, c.ptr)[1] = "buffer" =>
           gl.arrayBuf # 0 /\ c.ptr = Offset /\ GLSource(gl, c.ptr) = Source(gl.arrayBuf)
      /\ \A m \in Mem : GLSource(gl, c.ptr) = Client(m) => gl.arrayBuf = 0 /\ c.ptr = Client(m)
  BY SourcesOf
<1>5. Null[1] # "buffer" /\ \A m : Client(m) # Null
  BY Kinds DEF Null
<1>6. Buffered(GLCall(gl, c), GLCall(lib, g))
  <2>1. ASSUME NEW v \in Vaos \union {0}, NEW a \in Arrays,
               GLCall(gl, c).src[v][a][1] = "buffer"
        PROVE  GLCall(lib, g).src[v][a] = GLCall(gl, c).src[v][a]
    <3>1. CASE Sets(v, a)
      <4>1. gl.arrayBuf # 0 /\ c.ptr = Offset /\ GLSource(gl, c.ptr) = Source(gl.arrayBuf)
        BY <1>2, <1>4, <2>1, <3>1
      <4>2. GLSource(lib, g.ptr) = Source(gl.arrayBuf)
        BY <1>1, <4>1 DEF GLSource
      <4> QED
        BY <1>2, <3>1, <4>1, <4>2
    <3>2. CASE ~Sets(v, a)
      <4>1. old(v, a)[1] = "buffer" /\ ~Clears(v, a, old(v, a))
        BY <1>2, <1>5, <2>1, <3>2
      <4>2. was(v, a) = old(v, a)
        BY <4>1 DEF Buffered
      <4> QED
        BY <1>2, <3>2, <4>1, <4>2
    <3> QED
      BY <3>1, <3>2
  <2> QED
    BY <2>1 DEF Buffered
<1>7. ASSUME NEW e, Sourced(gl, lib, e),
             c.op \in Specifies /\ gl.arrayBuf = 0 => Points(e, c.ptr, g.ptr)
      PROVE  Sourced(GLCall(gl, c), GLCall(lib, g), e)
  <2>1. ASSUME NEW v \in Vaos \union {0}, NEW a \in Arrays, NEW m \in Mem,
               GLCall(gl, c).src[v][a] = Client(m)
        PROVE  Stored(e, m, GLCall(lib, g).src[v][a])
    <3>1. CASE Sets(v, a)
      <4>1. gl.arrayBuf = 0 /\ c.ptr = Client(m)
        BY <1>2, <1>4, <2>1, <3>1
      <4>2. Stored(e, m, g.ptr)
        BY <1>3, <1>7, <3>1, <4>1 DEF Points
      <4>3. GLSource(lib, g.ptr) = g.ptr
        BY <1>1, <4>1 DEF GLSource
      <4> QED
        BY <1>2, <3>1, <4>2, <4>3
    <3>2. CASE ~Sets(v, a)
      <4>1. old(v, a) = Client(m) /\ ~Clears(v, a, old(v, a))
        BY <1>2, <1>5, <2>1, <3>2
      <4>2. Stored(e, m, was(v, a))
        BY <1>7, <4>1 DEF Sourced
      <4>3. ~Clears(v, a, was(v, a))
        BY <4>1, <4>2, StoredIs
      <4> QED
        BY <1>2, <3>2, <4>2, <4>3
    <3> QED
      BY <3>1, <3>2
  <2> QED
    BY <2>1 DEF Sourced
<1> QED
  BY <1>6, <1>7

-----------------------------------------------------------------------------
(* The states that the queued calls lead through.                          *)

\* Together: the DLL's copy, the program's client state and what the vertex cache shows,
\* as they are when the device has executed the calls up to this one.
StateOK(x) == x.copy \in CopyType /\ x.gl \in GLType

\* What a draw reads when the cache shows v, if it uses bytes of the places only.
Used(part) == part.first .. part.first + part.size - 1
View(gl, op, part, v) ==
  [x \in ReadParts(gl, op) |->
    IF x = "indices"
    THEN IF gl.elem[gl.vao] = 0 THEN Memory({}) ELSE Source(gl.elem[gl.vao])
    ELSE LET s == gl.src[gl.vao][x] IN
         IF s[1] = "client" THEN Memory({v[s[2]][j] : j \in Used(part)}) ELSE s]
Uncut(gl, part) ==
  \A a \in ReadArrays(gl) : gl.src[gl.vao][a][1] = "client" => part.size <= Half

\* What the code can draw: arrays that have a source, and with indices in a buffer if the
\* copies say so.
Drawable(x, op) ==
  /\ \A a \in ReadArrays(x.gl) : LET s == x.gl.src[x.gl.vao][a] IN
       s[1] = "buffer" \/ (kit.style # "objects" /\ \E m \in Mem : s = Client(m))
  /\ op = "DrawElements" => (x.gl.elem[x.gl.vao] = 0 <=> x.copy.elemBuf = 0)

\* A queued call leads from a state to the next.
Leads(e, x, y) ==
  /\ e.call \in Calls
  /\ y.copy = Followed(x.copy, e.call) /\ y.gl = GLCall(x.gl, e.call)
  /\ Kept(e.call, x.copy)
  /\ kit.style # "objects" => x.copy.arrayBuf = x.gl.arrayBuf
  /\ IF e.call.op \in Draws
     THEN /\ e.names = Carried(x.copy, e.call.op) /\ Drawable(x, e.call.op)
          /\ Brings(x.copy, e.names, e.data, e.call.part, x.shown, y.shown)
          /\ \/ Overflowed(e.names, e.call.part)
             \/ /\ Uncut(x.gl, e.call.part)
                /\ e.want = View(x.gl, e.call.op, e.call.part, y.shown)
     ELSE y.shown = x.shown

\* The first is the device's and the library's.
Begins(x) ==
  /\ Alike(x.copy, device) /\ Agrees(x.gl, library) /\ Buffered(x.gl, library)
  /\ kit.style # "objects" => /\ Sourced(x.gl, library, cache) /\ Pointed(x.copy, device, cache)
                              /\ Shows(cache, x.shown)

\* Places stay what they are.
LEMMA PointsKept ==
  ASSUME CacheInv(cache), NEW m, NEW p, NEW q, Points(cache, p, q)
  PROVE  Points(Looked(m), p, q)
  BY StoredKept DEF Points

\* The device executes a call that is no draw.
LEMMA BeginsCall ==
  ASSUME TInv, DeviceCall, NEW x, NEW y, StateOK(x), Begins(x), Leads(fifo[1], x, y)
  PROVE  Begins(y)'
<1> DEFINE c == fifo[1].call
           g == Given(c)
<1>1. /\ fifo # <<>> /\ c.op \notin Draws /\ device' = Tracked(device, g) /\ kit' = kit
      /\ library' = GLCall(library, g)
      /\ cache' = IF Looks(c) THEN Looked(c.ptr[2]) ELSE cache
  <2>1. fifo # <<>> /\ Head(fifo) = fifo[1]
    BY FifoIs DEF DeviceCall, TInv
  <2> QED
    BY <2>1 DEF DeviceCall, DeviceTracks, programVars
<1>2. /\ c \in Calls /\ y.copy = Tracked(x.copy, c) /\ y.gl = GLCall(x.gl, c)
      /\ y.shown = x.shown /\ Kept(c, x.copy)
      /\ kit.style # "objects" => x.copy.arrayBuf = x.gl.arrayBuf
  BY <1>1 DEF Leads, Followed
<1>3. /\ x.copy \in CopyType /\ device \in CopyType /\ x.gl \in GLType /\ library \in GLType
      /\ CacheInv(cache)
  BY DEF StateOK, TInv, TypeOK
<1> HIDE DEF c
<1>4. /\ SameCall(c, g) /\ WellFormed(g) /\ WellFormed(c)
      /\ Looks(c) => c.ptr[2] \in Mem
      /\ ~Looks(c) => g = c
      /\ c.ptr \in {Null, Offset} \union Clients
  BY <1>2, <1>3, GivenTypes DEF Calls, CallType
<1>5. c.ptr = Offset => g.ptr = Offset
  BY <1>4, Kinds DEF Looks, Offset
<1>6. Looks(c) => c.ptr = Client(c.ptr[2]) /\ g.ptr = LookupVertex(c.ptr[2])
  <2>1. ASSUME Looks(c) PROVE c.ptr = Client(c.ptr[2])
    <3>1. c.ptr[1] = "client"
      BY <2>1 DEF Looks
    <3>2. c.ptr \in Clients
      BY <1>4, <3>1, Kinds
    <3> QED
      BY <3>2, Kinds DEF Clients
  <2>2. ASSUME Looks(c) PROVE g.ptr = LookupVertex(c.ptr[2])
    <3>1. g = [c EXCEPT !.ptr = LookupVertex(c.ptr[2])]
      BY <2>2 DEF Given
    <3> HIDE DEF g
    <3> QED
      BY <1>2, <3>1 DEF Calls, CallType
  <2> QED
    BY <2>1, <2>2
<1> HIDE DEF g
<1>7. /\ Alike(x.copy, device) /\ Agrees(x.gl, library) /\ Buffered(x.gl, library)
      /\ kit.style # "objects" => /\ Sourced(x.gl, library, cache)
                                  /\ Pointed(x.copy, device, cache) /\ Shows(cache, x.shown)
  BY DEF Begins
<1>8. Alike(y.copy, device') /\ Agrees(y.gl, library')
  BY <1>1, <1>2, <1>3, <1>4, <1>7, AlikeTracked, AgreesAfter
<1>9. /\ Buffered(y.gl, library')
      /\ \A e : /\ Sourced(x.gl, library, e)
                /\ c.op \in Specifies /\ x.gl.arrayBuf = 0 => Points(e, c.ptr, g.ptr)
                => Sourced(y.gl, library', e)
  <2>1. /\ Buffered(GLCall(x.gl, c), GLCall(library, g))
        /\ \A e : /\ Sourced(x.gl, library, e)
                  /\ c.op \in Specifies /\ x.gl.arrayBuf = 0 => Points(e, c.ptr, g.ptr)
                  => Sourced(GLCall(x.gl, c), GLCall(library, g), e)
    BY <1>3, <1>4, <1>5, <1>7, SourcedAfter
  <2> QED
    BY <1>1, <1>2, <2>1
<1>10. ASSUME kit.style # "objects"
       PROVE  /\ Sourced(y.gl, library', cache') /\ Pointed(y.copy, device', cache')
              /\ Shows(cache', y.shown)
  <2>1. \A p, q : Points(cache, p, q) => Points(cache', p, q)
    BY <1>1, <1>3, PointsKept
  <2>2. \A h, q : Stored(cache, h, q) => Stored(cache', h, q)
    BY <1>1, <1>3, StoredKept
  <2>3. Sourced(x.gl, library, cache') /\ Pointed(x.copy, device, cache')
    BY <1>7, <1>10, <2>1, <2>2 DEF Sourced, Pointed
  <2>4. Shows(cache', y.shown)
    BY <1>1, <1>2, <1>3, <1>4, <1>7, <1>10, LookedShows
  <2>5. ASSUME c.op \in Specifies PROVE Points(cache', c.ptr, g.ptr)
    <3>1. CASE Looks(c)
      <4> DEFINE m == c.ptr[2]
      <4>1. m \in Mem /\ c.ptr = Client(m) /\ Stored(cache', m, g.ptr)
        BY <1>1, <1>3, <1>4, <1>6, <3>1, LookupStored
      <4> HIDE DEF m
      <4>2. \A h \in Mem : c.ptr = Client(h) => h = m
        BY <4>1 DEF Client
      <4> QED
        BY <4>1, <4>2 DEF Points
    <3>2. CASE ~Looks(c)
      <4>1. c.ptr \notin Clients
        <5>1. ASSUME c.ptr \in Clients PROVE FALSE
          <6>1. c.ptr[1] = "client" /\ c.ptr # Offset
            BY <5>1, Kinds DEF Clients
          <6>2. c.op \in {"Pointer", "AttribPointer"} /\ device.arrayBuf # 0
            BY <2>5, <3>2, <6>1 DEF Looks, Specifies
          <6>3. x.copy.arrayBuf # 0
            BY <1>7, <6>2 DEF Alike
          <6> QED
            BY <1>2, <1>10, <6>1, <6>2, <6>3 DEF Kept
        <5> QED
          BY <5>1
      <4>2. g.ptr = c.ptr /\ c.ptr \in {Null, Offset}
        BY <1>4, <3>2, <4>1
      <4>3. c.ptr[1] # "cache" /\ \A m : c.ptr # Client(m)
        BY <4>2, Kinds DEF Null, Offset
      <4> QED
        BY <4>2, <4>3 DEF Points
    <3> QED
      BY <3>1, <3>2
  <2>6. Sourced(y.gl, library', cache')
    BY <1>9, <2>3, <2>5
  <2>7. Pointed(y.copy, device', cache')
    BY <1>1, <1>2, <1>3, <1>4, <1>7, <2>3, <2>5, PointedTracked
  <2> QED
    BY <2>4, <2>6, <2>7
<1> QED
  BY <1>1, <1>8, <1>9, <1>10 DEF Begins

\* Copying moves no place.
LEMMA CopiedStored ==
  ASSUME CacheInv(cache), NEW taken, NEW data, NEW part, NEW N \in Nat, DOMAIN taken = 1 .. N,
         NEW m, NEW p, Stored(cache, m, p)
  PROVE  Stored(Copied(taken, data, part), m, p)
<1> DEFINE c == Copied(taken, data, part)
<1>1. /\ DOMAIN c = DOMAIN cache
      /\ \A e \in DOMAIN cache : c[e].lo = cache[e].lo /\ c[e].hi = cache[e].hi
  BY CopiedBytes
<1> HIDE DEF c
<1>2. DOMAIN cache = 1 .. Len(cache) /\ Len(cache) \in Nat
  BY CacheShape DEF CacheInv
<1>3. PICK e \in DOMAIN cache : Serving(cache, m, e) /\ p = Cached(e, m - cache[e].lo)
  BY DEF Stored
<1>4. \A f \in DOMAIN cache : Serves(c[f], m) <=> Serves(cache[f], m)
  BY <1>1 DEF Serves
<1>5. \A f \in 1 .. e - 1 : f \in DOMAIN cache
  BY <1>2, <1>3
<1>6. Serving(c, m, e)
  BY <1>1, <1>3, <1>4, <1>5 DEF Serving
<1>7. Stored(c, m, p)
  BY <1>1, <1>3, <1>6 DEF Stored
<1> QED
  BY <1>7 DEF c

\* What a draw carries is a sequence.
LEMMA CarriedSeq ==
  ASSUME NEW s \in CopyType, NEW op
  PROVE  /\ Len(Carried(s, op)) \in Nat /\ DOMAIN Carried(s, op) = 1 .. Len(Carried(s, op))
         /\ \A k \in DOMAIN Carried(s, op) : Carried(s, op)[k] \in Parts \union {"indices"}
<1> DEFINE A == {a \in s.on : s.ptr[a] # Null}
           all == Parts \union {"indices"}
           first == IF SendsIndices(s, op) THEN <<"indices">> ELSE <<>>
           rest == IF PushesArrays(s, op) THEN Pushed(s) ELSE <<>>
<1>1. A \subseteq Arrays
  BY DEF CopyType
<1>2. InOrder(A) \in Seq(A)
  BY <1>1, OrderedFrom
<1>3. Pushed(s) = IF PushesInterleaved(s) THEN <<"interleaved">> ELSE InOrder(A)
  BY DEF Pushed
<1>4. A \subseteq all /\ "interleaved" \in all /\ "indices" \in all
  BY <1>1 DEF Parts
<1> HIDE DEF A, all
<1>5. InOrder(A) \in Seq(all)
  BY <1>2, <1>4
<1>6. <<"interleaved">> \in Seq(all) /\ <<"indices">> \in Seq(all) /\ <<>> \in Seq(all)
  BY <1>4
<1>7. first \in Seq(all) /\ rest \in Seq(all)
  BY <1>3, <1>5, <1>6
<1>8. Carried(s, op) = first \o rest
  BY DEF Carried
<1> HIDE DEF first, rest
<1>9. Carried(s, op) \in Seq(all)
  BY <1>7, <1>8
<1>10. /\ Len(Carried(s, op)) \in Nat /\ DOMAIN Carried(s, op) = 1 .. Len(Carried(s, op))
       /\ \A k \in DOMAIN Carried(s, op) : Carried(s, op)[k] \in all
  BY <1>9
<1> QED
  BY <1>10 DEF all

\* A draw of the library reads what the cache shows of the program's blocks.
LEMMA GotView ==
  ASSUME NEW x, StateOK(x), library \in GLType, Agrees(x.gl, library), Buffered(x.gl, library),
         Alike(x.copy, device), NEW op, Drawable(x, op),
         NEW c, CacheInv(c), NEW v,
         NEW part \in PartType, MayReach(part), Uncut(x.gl, part),
         kit.style # "objects" => Sourced(x.gl, library, c) /\ Shows(c, v)
  PROVE  View(x.gl, op, part, v) = Got(op, c, part)
<1> DEFINE gl == x.gl
           u == gl.vao
<1>1. /\ gl \in GLType /\ u \in Vaos \union {0} /\ gl.on[u] \subseteq Arrays
      /\ gl.on = library.on /\ gl.vao = library.vao /\ gl.elem = library.elem
      /\ device.elemBuf = x.copy.elemBuf
  BY DEF StateOK, GLType, Agrees, Alike
<1>2. ReadParts(gl, op) = ReadParts(library, op)
  BY <1>1 DEF ReadParts, ReadArrays
<1>3. ASSUME NEW a \in ReadParts(gl, op)
      PROVE  View(gl, op, part, v)[a] = Got(op, c, part)[a]
  <2>1. CASE a = "indices"
    <3>1. op = "DrawElements"
      <4>1. "indices" \notin Arrays
        BY DEF Arrays, Units
      <4> QED
        BY <1>1, <1>3, <2>1, <4>1 DEF ReadParts, ReadArrays
    <3>2. gl.elem[u] = 0 <=> device.elemBuf = 0
      BY <1>1, <3>1 DEF Drawable
    <3>3. library.elem[library.vao] = gl.elem[u]
      BY <1>1
    <3>4. View(gl, op, part, v)[a] = IF gl.elem[u] = 0 THEN Memory({}) ELSE Source(gl.elem[u])
      BY <1>3, <2>1 DEF View
    <3>5. Got(op, c, part)[a] = IF (gl.elem[u] = 0) # (device.elemBuf = 0) THEN Wild
                          ELSE IF gl.elem[u] = 0 THEN Memory({}) ELSE Source(gl.elem[u])
      BY <1>2, <1>3, <2>1, <3>3 DEF Got
    <3> QED
      BY <3>2, <3>4, <3>5
  <2>2. CASE a # "indices"
    <3> DEFINE s == gl.src[u][a]
               q == library.src[u][a]
    <3>1. a \in ReadArrays(gl) /\ a \in Arrays
      BY <1>1, <1>3, <2>2 DEF ReadParts, ReadArrays
    <3>2. View(gl, op, part, v)[a] = IF s[1] = "client" THEN Memory({v[s[2]][j] : j \in Used(part)})
                                     ELSE s
      BY <1>3, <2>2 DEF View
    <3>3. Got(op, c, part)[a] = IF q[1] = "cache" THEN InCache(q, c, part)
                          ELSE IF q[1] = "buffer" THEN q ELSE Wild
      BY <1>1, <1>2, <1>3, <2>2 DEF Got
    <3>4. CASE s[1] = "buffer"
      <4>1. q = s
        BY <1>1, <3>1, <3>4 DEF Buffered
      <4> HIDE DEF s, q
      <4> QED
        BY <3>2, <3>3, <3>4, <4>1
    <3>5. CASE s[1] # "buffer"
      <4>1. kit.style # "objects" /\ \E m \in Mem : s = Client(m)
        BY <3>1, <3>5 DEF Drawable
      <4>2. PICK m \in Mem : s = Client(m)
        BY <4>1
      <4>3. Stored(c, m, q)
        BY <1>1, <3>1, <4>1, <4>2 DEF Sourced
      <4>4. PICK e \in DOMAIN c : Serving(c, m, e) /\ q = Cached(e, m - c[e].lo)
        BY <4>3 DEF Stored
      <4> DEFINE off == m - c[e].lo
                 bytes == {c[e].data[i] : i \in Bytes(q, part, part.size)}
                 shown == {v[m][j] : j \in Used(part)}
      <4>5. off \in Nat /\ off + Half <= 2 * Size
        BY <4>4, ServingRange
      <4>6. \A j \in Offsets : c[e].data[off + j] = v[m][j]
        BY <4>1, <4>4 DEF Shows
      <4>7. q[1] = "cache" /\ q[2] = e /\ q[3] = off /\ s[1] = "client" /\ s[2] = m
        BY <4>2, <4>4, Kinds
      <4>8. part.size <= Half
        BY <3>1, <4>7 DEF Uncut
      <4> HIDE DEF s, q, off
      <4>9. part.first \in Nat /\ part.size \in Nat /\ part.first + part.size <= Half
        BY <4>8, TouchedBytes
      <4>10. bytes = shown
        <5>1. ASSUME NEW i \in Bytes(q, part, part.size)
              PROVE  \E j \in Used(part) : c[e].data[i] = v[m][j]
          <6>1. i - off \in Used(part) /\ i - off \in Offsets /\ i = off + (i - off)
            BY <4>5, <4>7, <4>9, <5>1, Numbers DEF Bytes, Used, Offsets
          <6> QED
            BY <4>6, <6>1
        <5>2. ASSUME NEW j \in Used(part)
              PROVE  \E i \in Bytes(q, part, part.size) : c[e].data[i] = v[m][j]
          <6>1. off + j \in Bytes(q, part, part.size) /\ j \in Offsets
            BY <4>5, <4>7, <4>9, <5>2, Numbers DEF Bytes, Used, Offsets
          <6> QED
            BY <4>6, <6>1
        <5> QED
          BY <5>1, <5>2
      <4>11. InCache(q, c, part) = Memory(bytes)
        <5>1. q[3] + part.first + part.size <= 2 * Size
          BY <4>5, <4>7, <4>9, Numbers
        <5> QED
          BY <4>4, <4>7, <5>1 DEF InCache
      <4> HIDE DEF bytes, shown
      <4>12. View(gl, op, part, v)[a] = Memory(shown)
        BY <3>2, <4>7 DEF shown
      <4> QED
        BY <3>3, <4>7, <4>10, <4>11, <4>12
    <3> QED
      BY <3>4, <3>5
  <2> QED
    BY <2>1, <2>2
<1> QED
  BY <1>2, <1>3 DEF View, Got

\* The device executes a draw, which reads what it was meant to.
LEMMA BeginsDraw ==
  ASSUME Near, TInv, DeviceDraw, NEW x, NEW y, StateOK(x), Begins(x), Leads(fifo[1], x, y)
  PROVE  Begins(y)' /\ DrawsRight'
<1> DEFINE e == fifo[1]
           op == e.call.op
           part == e.call.part
           taken == Carried(device, op)
<1>1. /\ op \in Draws /\ cache' = Copied(taken, e.data, part)
      /\ device' = AfterDraw(device, op)
      /\ library' = library /\ kit' = kit
      /\ drawn'.want = e.want /\ drawn'.got = Got(op, cache', part)
      /\ drawn'.reported = Overflowed(taken, part)
  <2>1. fifo # <<>> /\ Head(fifo) = fifo[1]
    BY FifoIs DEF DeviceDraw, TInv
  <2> QED
    BY <2>1 DEF DeviceDraw, programVars
<1>2. /\ y.copy = AfterDraw(x.copy, op) /\ y.gl = x.gl
      /\ e.names = Carried(x.copy, op) /\ Drawable(x, op)
      /\ Brings(x.copy, e.names, e.data, part, x.shown, y.shown)
      /\ \/ Overflowed(e.names, part)
         \/ Uncut(x.gl, part) /\ e.want = View(x.gl, op, part, y.shown)
      /\ part \in PartType /\ MayReach(part)
  <2>1. e.call \in Calls /\ Kept(e.call, x.copy)
    BY DEF Leads
  <2>2. part \in PartType /\ MayReach(part)
    BY <1>1, <2>1 DEF Calls, CallType, Kept
  <2> QED
    BY <1>1, <2>2 DEF Leads, Followed, GLCall, Draws
<1>3. /\ x.copy \in CopyType /\ device \in CopyType /\ x.gl \in GLType /\ library \in GLType
      /\ CacheInv(cache)
  BY DEF StateOK, TInv, TypeOK
<1>4. /\ Alike(x.copy, device) /\ Agrees(x.gl, library) /\ Buffered(x.gl, library)
      /\ kit.style # "objects" => /\ Sourced(x.gl, library, cache)
                                  /\ Pointed(x.copy, device, cache) /\ Shows(cache, x.shown)
  BY DEF Begins
<1>5. taken = e.names
  BY <1>2, <1>3, <1>4, AlikeCarried
<1>6. /\ Len(taken) \in Nat /\ DOMAIN taken = 1 .. Len(taken)
      /\ \A k \in DOMAIN taken : taken[k] \in Parts \union {"indices"}
  BY <1>3, CarriedSeq
<1> HIDE DEF e, op, part, taken
<1>7. CacheInv(cache')
  BY <1>1, <1>3, CopiedCache
<1>8. ASSUME kit.style # "objects"
      PROVE  /\ Sourced(y.gl, library', cache') /\ Pointed(y.copy, device', cache')
             /\ Shows(cache', y.shown)
  <2>1. \A m, p : Stored(cache, m, p) => Stored(cache', m, p)
    BY <1>1, <1>3, <1>6, CopiedStored
  <2>2. Sourced(y.gl, library', cache')
    BY <1>1, <1>2, <1>4, <1>8, <2>1 DEF Sourced
  <2>3. Shows(cache', y.shown)
    <3>1. Brings(x.copy, taken, e.data, part, x.shown, y.shown)
      BY <1>2, <1>5
    <3> QED
      BY <1>1, <1>2, <1>3, <1>4, <1>6, <1>8, <3>1, CopiedShows
  <2>4. /\ y.copy.ptr = x.copy.ptr /\ y.copy.interPtr = x.copy.interPtr
        /\ device'.ptr = device.ptr /\ device'.interPtr = device.interPtr
    BY <1>1, <1>2, <1>3 DEF AfterDraw, CopyType
  <2>5. ASSUME NEW a \in Parts PROVE Points(cache', PlaceOf(y.copy, a), PlaceOf(device', a))
    <3>1. Points(cache, PlaceOf(x.copy, a), PlaceOf(device, a))
      BY <1>4, <1>8 DEF Pointed
    <3>2. PlaceOf(y.copy, a) = PlaceOf(x.copy, a) /\ PlaceOf(device', a) = PlaceOf(device, a)
      BY <2>4 DEF PlaceOf
    <3> QED
      BY <2>1, <3>1, <3>2 DEF Points
  <2> QED
    BY <2>2, <2>3, <2>5 DEF Pointed
<1>9. Alike(y.copy, device')
  BY <1>1, <1>2, <1>3, <1>4, AlikeAfterDraw
<1>10. Begins(y)'
  BY <1>1, <1>2, <1>4, <1>8, <1>9 DEF Begins
<1>11. Uncut(x.gl, part) => View(x.gl, op, part, y.shown) = Got(op, cache', part)
  BY <1>1, <1>2, <1>3, <1>4, <1>7, <1>8, GotView
<1>12. DrawsRight'
  BY <1>1, <1>2, <1>5, <1>11 DEF DrawsRight
<1> QED
  BY <1>10, <1>12

\* The last is the DLL's and the program's.  Arrays of client memory that are not lost are
\* where both copies will find them: one that the program specified itself at its address,
\* one of glInterleavedArrays at the address of these; after the draw that sends them, the
\* cache shows what the block holds.
Linked(v) ==
  \A a \in Arrays, m \in Mem : program.src[0][a] = Client(m) =>
    /\ m \in kit.blocks
    /\ a \in woven => guest.interPtr = Client(m)
    /\ a \notin woven \union lost => guest.ptr[a] = Client(m)
    /\ a \in woven \ lost /\ ~guest.interleaved => Holds(v, m, mem[m])
Ends(x) ==
  /\ x.copy = guest /\ x.gl = program
  /\ kit.style # "objects" => guest.elemBuf = program.elem[0] /\ Linked(x.shown)
  /\ kit.style = "conventional" => guest.unit = program.unit

\* The states that the queued calls lead through.
Course(run) ==
  /\ \A k \in 1 .. Len(fifo) + 1 : StateOK(run[k])
  /\ Begins(run[1]) /\ Ends(run[Len(fifo) + 1])
  /\ \A k \in 1 .. Len(fifo) : Leads(fifo[k], run[k], run[k + 1])

\* A queued call makes them one more.
LEMMA CourseLonger ==
  ASSUME FifoType, NEW c \in Calls, NEW names, NEW data, NEW want,
         fifo' = Append(fifo, [call |-> c, names |-> names, data |-> data, want |-> want]),
         kit' = kit, UNCHANGED deviceVars, NEW run, Course(run), NEW x, StateOK(x), Ends(x)',
         Leads([call |-> c, names |-> names, data |-> data, want |-> want], run[Len(fifo) + 1], x)
  PROVE  \E new : Course(new)'
<1> DEFINE n == Len(fifo)
           e == [call |-> c, names |-> names, data |-> data, want |-> want]
<1>1. /\ n \in Nat /\ Len(fifo') = n + 1 /\ fifo'[n + 1] = e
      /\ \A k \in 1 .. n : fifo'[k] = fifo[k]
  <2>1. PICK N, D, W : fifo \in Seq([call : Calls, names : N, data : D, want : W])
    BY DEF FifoType
  <2> DEFINE E == [call : Calls, names : N, data : D, want : W]
  <2> HIDE DEF E, e
  <2>2. fifo \in Seq(E) /\ fifo' = Append(fifo, e)
    BY <2>1 DEF E, e
  <2> QED
    BY <2>2
<1>2. PICK new : new = [k \in 1 .. n + 2 |-> IF k = n + 2 THEN x ELSE run[k]]
  OBVIOUS
<1>3. /\ \A k \in 1 .. n + 1 : StateOK(run[k])
      /\ Begins(run[1]) /\ \A k \in 1 .. n : Leads(fifo[k], run[k], run[k + 1])
  BY DEF Course
<1>8. Leads(e, run[n + 1], x)
  OBVIOUS
<1> HIDE DEF n, e
<1>4. /\ \A k \in 1 .. n + 1 : new[k] = run[k]
      /\ new[n + 2] = x
  BY <1>1, <1>2
<1>5. ASSUME NEW k \in 1 .. n + 1
      PROVE  Leads(fifo'[k], new[k], new[k + 1])
  <2>1. CASE k = n + 1
    BY <1>1, <1>4, <1>8, <2>1
  <2>2. CASE k \in 1 .. n
    <3>1. k + 1 \in 1 .. n + 1 /\ k \in 1 .. n + 1
      BY <1>1, <2>2
    <3> QED
      BY <1>1, <1>3, <1>4, <2>2, <3>1
  <2> QED
    BY <1>1, <2>1, <2>2
<1>6. \A k \in 1 .. n + 2 : StateOK(new[k])
  <2>1. \A k \in 1 .. n + 2 : k = n + 2 \/ k \in 1 .. n + 1
    BY <1>1
  <2> QED
    BY <1>3, <1>4, <2>1
<1>7. Begins(new[1])'
  <2>1. new[1] = run[1] /\ device' = device /\ library' = library /\ cache' = cache
    BY <1>1, <1>4 DEF deviceVars
  <2> QED
    BY <1>3, <2>1 DEF Begins
<1>9. \A k \in 1 .. n + 1 : Leads(fifo[k], new[k], new[k + 1])'
  BY <1>5 DEF Leads, Kept, Drawable
<1>10. Len(fifo') + 1 = n + 2
  BY <1>1
<1>11. Course(new)'
  BY <1>1, <1>4, <1>6, <1>7, <1>9, <1>10 DEF Course
<1> QED
  BY <1>11

\* The device's execution one less.
LEMMA CourseShorter ==
  ASSUME FifoType, fifo # <<>>, fifo' = Tail(fifo), UNCHANGED <<programVars, guest>>,
         NEW run, Course(run), Begins(run[2])'
  PROVE  \E new : Course(new)'
<1> DEFINE n == Len(fifo)
<1>1. /\ n \in Nat /\ n >= 1 /\ Len(fifo') = n - 1 /\ \A k \in 1 .. n - 1 : fifo'[k] = fifo[k + 1]
  BY FifoIs
<1>2. PICK new : new = [k \in 1 .. n |-> run[k + 1]]
  OBVIOUS
<1>3. /\ \A k \in 1 .. n + 1 : StateOK(run[k])
      /\ Ends(run[n + 1]) /\ \A k \in 1 .. n : Leads(fifo[k], run[k], run[k + 1])
  BY DEF Course
<1> HIDE DEF n
<1>4. \A k \in 1 .. n : new[k] = run[k + 1] /\ k + 1 \in 1 .. n + 1
  BY <1>1, <1>2
<1>5. new[1] = run[2] /\ new[n] = run[n + 1]
  BY <1>1, <1>4
<1>6. ASSUME NEW k \in 1 .. n - 1
      PROVE  Leads(fifo'[k], new[k], new[k + 1])
  <2>1. k \in 1 .. n /\ k + 1 \in 1 .. n
    BY <1>1
  <2> QED
    BY <1>1, <1>3, <1>4, <2>1
<1>7. /\ kit' = kit /\ program' = program /\ mem' = mem /\ lost' = lost /\ woven' = woven
      /\ guest' = guest
  BY DEF programVars
<1>8. \A k \in 1 .. n - 1 : Leads(fifo[k], new[k], new[k + 1])'
  BY <1>6, <1>7 DEF Leads, Kept, Drawable
<1>9. PICK z : z = new[n]
  OBVIOUS
<1>10. Ends(z)'
  <2>1. Ends(z)
    BY <1>3, <1>5, <1>9
  <2> QED
    BY <1>7, <2>1 DEF Ends, Linked
<1>11. new[Len(fifo') + 1] = z
  BY <1>1, <1>9
<1>12. /\ \A k \in 1 .. Len(fifo') + 1 : StateOK(new[k])
       /\ \A k \in 1 .. Len(fifo') : Leads(fifo[k], new[k], new[k + 1])'
  BY <1>1, <1>3, <1>4, <1>8
<1>13. Course(new)'
  BY <1>5, <1>10, <1>11, <1>12 DEF Course
<1> QED
  BY <1>13

-----------------------------------------------------------------------------
(* The program's calls keep the last of the states in step with it.        *)

\* What a sequence has.
Has(s, a) == \E k \in DOMAIN s : s[k] = a

\* What a concatenation has.
LEMMA ConcatHas ==
  ASSUME NEW S, NEW s \in Seq(S), NEW t \in Seq(S), NEW a, Has(s, a) \/ Has(t, a)
  PROVE  Has(s \o t, a)
<1>1. /\ Len(s) \in Nat /\ Len(t) \in Nat /\ DOMAIN s = 1 .. Len(s) /\ DOMAIN t = 1 .. Len(t)
      /\ DOMAIN (s \o t) = 1 .. Len(s) + Len(t)
      /\ \A k \in 1 .. Len(s) : (s \o t)[k] = s[k]
      /\ \A k \in 1 .. Len(t) : (s \o t)[Len(s) + k] = t[k]
  OBVIOUS
<1>2. CASE Has(s, a)
  BY <1>1, <1>2 DEF Has
<1>3. CASE Has(t, a)
  <2>1. PICK k \in 1 .. Len(t) : t[k] = a
    BY <1>1, <1>3 DEF Has
  <2>2. Len(s) + k \in 1 .. Len(s) + Len(t) /\ (s \o t)[Len(s) + k] = a
    BY <1>1, <2>1
  <2> QED
    BY <1>1, <2>2 DEF Has
<1> QED
  BY <1>2, <1>3

LEMMA OneHas ==
  ASSUME NEW a
  PROVE  Has(<<a>>, a)
<1>1. 1 \in DOMAIN <<a>> /\ <<a>>[1] = a
  OBVIOUS
<1> QED
  BY <1>1 DEF Has

\* The order leaves no array out.
LEMMA OrderedHas ==
  ASSUME NEW A \in SUBSET Arrays, NEW a \in A
  PROVE  Has(InOrder(A), a)
<1> DEFINE this(x) == IF x \in A THEN <<x>> ELSE <<>>
           two == this("tex0") \o this("tex1")
<1>1. InOrder(A) = two \o this("vertex")
  BY DEF InOrder
<1>2. /\ this("tex0") \in Seq(Arrays) /\ this("tex1") \in Seq(Arrays)
      /\ this("vertex") \in Seq(Arrays)
  <2>1. \A x \in Arrays : this(x) \in Seq(Arrays)
    OBVIOUS
  <2>2. "tex0" \in Arrays /\ "tex1" \in Arrays /\ "vertex" \in Arrays
    BY DEF Arrays, Units
  <2> HIDE DEF this
  <2> QED
    BY <2>1, <2>2
<1>3. two \in Seq(Arrays)
  <2> HIDE DEF this
  <2> QED
    BY <1>2
<1>4. Has(this(a), a)
  <2>1. this(a) = <<a>>
    OBVIOUS
  <2> HIDE DEF this
  <2> QED
    BY <2>1, OneHas
<1>5. a = "tex0" \/ a = "tex1" \/ a = "vertex"
  BY DEF Arrays, Units
<1> HIDE DEF this
<1>6. CASE a = "vertex"
  <2> HIDE DEF two
  <2>1. Has(this("vertex"), a)
    BY <1>4, <1>6
  <2>2. Has(two \o this("vertex"), a)
    BY <1>2, <1>3, <2>1, ConcatHas
  <2> QED
    BY <1>1, <2>2
<1>7. CASE a # "vertex"
  <2>1. Has(this("tex0"), a) \/ Has(this("tex1"), a)
    BY <1>4, <1>5, <1>7
  <2>2. Has(two, a)
    BY <1>2, <2>1, ConcatHas
  <2> HIDE DEF two
  <2>3. Has(two \o this("vertex"), a)
    BY <1>2, <1>3, <2>2, ConcatHas
  <2> QED
    BY <1>1, <2>3
<1> QED
  BY <1>6, <1>7

\* A draw that sends arrays leaves out none that is enabled and has an address.
LEMMA CarriedHas ==
  ASSUME NEW s \in CopyType, NEW op, PushesArrays(s, op)
  PROVE  /\ PushesInterleaved(s) => Has(Carried(s, op), "interleaved")
         /\ ~PushesInterleaved(s) => \A a \in s.on : s.ptr[a] # Null => Has(Carried(s, op), a)
<1> DEFINE A == {a \in s.on : s.ptr[a] # Null}
           S == Parts \union {"indices"}
           first == IF SendsIndices(s, op) THEN <<"indices">> ELSE <<>>
<1>1. A \subseteq Arrays
  BY DEF CopyType
<1>2. Carried(s, op) = first \o (IF PushesInterleaved(s) THEN <<"interleaved">> ELSE InOrder(A))
  BY DEF Carried, Pushed
<1>3. A \subseteq S /\ "interleaved" \in S /\ "indices" \in S
  BY <1>1 DEF Parts
<1>4. InOrder(A) \in Seq(A) /\ \A a \in A : Has(InOrder(A), a)
  BY <1>1, OrderedFrom, OrderedHas
<1>5. \A a \in s.on : s.ptr[a] # Null => a \in A
  OBVIOUS
<1> HIDE DEF A, S
<1>6. InOrder(A) \in Seq(S) /\ <<"interleaved">> \in Seq(S) /\ first \in Seq(S)
  BY <1>3, <1>4
<1> HIDE DEF first
<1>7. CASE PushesInterleaved(s)
  <2>1. Carried(s, op) = first \o <<"interleaved">>
    BY <1>2, <1>7
  <2>2. Has(<<"interleaved">>, "interleaved")
    BY OneHas
  <2>3. Has(first \o <<"interleaved">>, "interleaved")
    BY <1>6, <2>2, ConcatHas
  <2> QED
    BY <1>7, <2>1, <2>3
<1>8. CASE ~PushesInterleaved(s)
  <2>1. Carried(s, op) = first \o InOrder(A)
    BY <1>2, <1>8
  <2>2. ASSUME NEW a \in A PROVE Has(first \o InOrder(A), a)
    <3>1. Has(InOrder(A), a)
      BY <1>4
    <3> QED
      BY <1>6, <3>1, ConcatHas
  <2> QED
    BY <1>5, <1>8, <2>1, <2>2
<1> QED
  BY <1>7, <1>8

\* Which source is client memory.
LEMMA ClientIs ==
  ASSUME NEW p \in Address, p[1] = "client"
  PROVE  \E m \in Mem : p = Client(m)
  BY DEF Address, Null, Offset, Wild, Source, Cached

\* Without vertex array objects the element binding is the same.
LEMMA ElementsAfter ==
  ASSUME NEW s \in CopyType, NEW gl \in GLType, NEW c \in Calls, c.op \notin Draws,
         c.op \notin {"BindVao", "DeleteVao"}, s.vao = 0, gl.vao = 0, s.elemBuf = gl.elem[0]
  PROVE  Tracked(s, c).elemBuf = GLCall(gl, c).elem[0]
<1>1. /\ c.op \in Ops /\ c.op \notin Draws /\ WellFormed(c)
      /\ gl.elem \in [Vaos \union {0} -> Buffers \union {0}]
  BY DEF Calls, CallType, GLType
<1>2. CASE c.op = "BindElement"
  <2>1. Tracked(s, c).elemBuf = c.name
    BY <1>2 DEF Tracked, InVao, CopyType
  <2>2. GLCall(gl, c).elem = [gl.elem EXCEPT ![0] = c.name]
    BY <1>2 DEF GLCall, GLType
  <2> QED
    BY <1>1, <2>1, <2>2
<1>3. CASE c.op = "DeleteBuffer"
  <2>1. Tracked(s, c).elemBuf = IF s.elemBuf = c.name THEN 0 ELSE s.elemBuf
    BY <1>3 DEF Tracked, DeleteBuffer, InVao, PtrReset, CopyType
  <2>2. GLCall(gl, c).elem = [gl.elem EXCEPT ![gl.vao] = IF @ = c.name THEN 0 ELSE @]
    BY <1>3, DeleteBufferAfter
  <2> QED
    BY <1>1, <2>1, <2>2
<1>4. CASE c.op = "Interleaved"
  <2>1. GLCall(gl, c).elem = gl.elem
    BY <1>4, InterleavedAfter
  <2> QED
    BY <1>4, <2>1 DEF Tracked, CopyType
<1>5. CASE c.op = "BindArray"
  <2>1. GLCall(gl, c).elem = gl.elem
    BY <1>5 DEF GLCall, GLType
  <2>2. Tracked(s, c).elemBuf = s.elemBuf
    BY <1>5 DEF Tracked, BindArrayBuffer, InVao, PtrReset, CopyType
  <2> QED
    BY <2>1, <2>2
<1>6. CASE c.op \in {"ActiveTexture", "Enable", "EnableAttrib", "EnableCap", "Disable",
                     "DisableAttrib", "DisableCap", "Pointer", "AttribPointer"}
  <2>1. GLCall(gl, c).elem = gl.elem
    BY <1>6 DEF GLCall, GLType
  <2>2. Tracked(s, c).elemBuf = s.elemBuf
    BY <1>6 DEF Tracked, ArrayState, CopyType
  <2> QED
    BY <2>1, <2>2
<1> QED
  BY <1>1, <1>2, <1>3, <1>4, <1>5, <1>6 DEF Ops

\* And where programs have no attribute indices, the active unit.
LEMMA UnitAfter ==
  ASSUME NEW s \in CopyType, NEW gl \in GLType, NEW c \in Calls, c.op \notin Draws,
         c.op \notin {"EnableAttrib", "EnableCap", "DisableAttrib", "DisableCap"},
                      s.unit = gl.unit
  PROVE  Tracked(s, c).unit = GLCall(gl, c).unit
<1>1. c.op \in Ops /\ c.op \notin Draws
  BY DEF Calls, CallType
<1>2. CASE c.op = "DeleteBuffer"
  <2>1. GLCall(gl, c).unit = gl.unit
    BY <1>2, DeleteBufferAfter
  <2>2. Tracked(s, c).unit = s.unit
    BY <1>2 DEF Tracked, DeleteBuffer, InVao, PtrReset, CopyType
  <2> QED
    BY <2>1, <2>2
<1>3. CASE c.op = "Interleaved"
  <2>1. GLCall(gl, c).unit = gl.unit
    BY <1>3, InterleavedAfter
  <2> QED
    BY <1>3, <2>1 DEF Tracked, CopyType
<1>4. CASE c.op \in {"BindArray", "BindElement"}
  <2>1. GLCall(gl, c).unit = gl.unit
    BY <1>4 DEF GLCall, GLType
  <2>2. Tracked(s, c).unit = s.unit
    BY <1>4 DEF Tracked, BindArrayBuffer, InVao, PtrReset, CopyType
  <2> QED
    BY <2>1, <2>2
<1>5. CASE c.op \in {"BindVao", "DeleteVao"}
  <2>1. GLCall(gl, c).unit = gl.unit
    BY <1>5 DEF GLCall, GLDeleteVao, GLType
  <2>2. Tracked(s, c).unit = s.unit
    BY <1>5 DEF Tracked, BindVertexArray, CopyType
  <2> QED
    BY <2>1, <2>2
<1>6. CASE c.op \in {"ActiveTexture", "Enable", "Disable", "Pointer", "AttribPointer"}
  <2>1. GLCall(gl, c).unit = IF c.op = "ActiveTexture" THEN c.what ELSE gl.unit
    BY <1>6 DEF GLCall, GLType
  <2>2. Tracked(s, c).unit = IF c.op = "ActiveTexture" THEN c.what ELSE s.unit
    BY <1>6 DEF Tracked, ArrayState, CopyType
  <2> QED
    BY <2>1, <2>2
<1> QED
  BY <1>1, <1>2, <1>3, <1>4, <1>5, <1>6 DEF Ops

\* A call keeps the arrays linked.
LEMMA LinkedAfter ==
  ASSUME Orderly, NoCaps, TInv, GuestBound, NEW c \in Calls, NEW names, NEW data, NEW want,
         Made(c, names, data, want), c.op \notin Draws, Kept(c, guest), kit.style # "objects",
         kit.style = "conventional" => guest.unit = program.unit, NEW v, Linked(v)
  PROVE  Linked(v)'
<1>1. /\ program' = GLCall(program, c) /\ guest' = Tracked(guest, c) /\ mem' = mem /\ Noted(c)
      /\ program \in GLType /\ guest \in CopyType /\ kit' = kit
  BY DEF Made, Unfollowed, Queued, Followed, TInv, TypeOK
<1>2. /\ WellFormed(c) /\ c.ptr \in {Null, Offset} \union Clients
      /\ guest.vao = 0 /\ program.vao = 0 /\ guest.arrayBuf = program.arrayBuf
      /\ 0 \in Vaos \union {0}
  BY DEF Calls, CallType, GuestBound
<1>3. Forgets(guest, c) <=> Forgets(program, c)
  BY <1>2 DEF Forgets
<1>4. c.op \in {"Pointer", "AttribPointer"} => Meant(guest, c.what) = Meant(program, c.what)
  BY <1>1 DEF Noted, Meant
<1>5. ASSUME NEW a \in Arrays, NEW m \in Mem, program'.src[0][a] = Client(m)
      PROVE  /\ m \in kit.blocks
             /\ a \in woven' => guest'.interPtr = Client(m)
             /\ a \notin woven' \union lost' => guest'.ptr[a] = Client(m)
             /\ a \in woven' \ lost' /\ ~guest'.interleaved => Holds(v, m, mem'[m])
  <2> DEFINE Sets == \/ c.op \in {"Pointer", "AttribPointer"} /\ a = Meant(program, c.what)
                     \/ c.op = "Interleaved" /\ a \in {"vertex", program.unit}
             Clears == \/ c.op = "DeleteBuffer" /\ program.src[0][a] = Source(c.name)
                       \/ c.op = "DeleteVao" /\ 0 = c.name
  <2>1. program'.src[0][a] = IF Sets THEN GLSource(program, c.ptr)
                             ELSE IF Clears THEN Null ELSE program.src[0][a]
    BY <1>1, <1>2, SourcesAfter
  <2>2. /\ guest'.ptr[a] =
             IF Forgets(guest, c) THEN Null
             ELSE IF c.op \in {"Pointer", "AttribPointer"} /\ a = Meant(guest,
                               c.what) THEN c.ptr
             ELSE guest.ptr[a]
        /\ guest'.interPtr = IF c.op = "Interleaved" THEN c.ptr ELSE guest.interPtr
        /\ guest'.interleaved <=> c.op = "Interleaved" \/ guest.interleaved
    BY <1>1, <1>2, TrackedPlaces
  <2>3. CASE Sets
    <3>1. c.ptr = Client(m)
      BY <1>1, <1>2, <1>5, <2>1, <2>3, SourcesOf
    <3>4. m \in kit.blocks
      BY <1>1, <3>1 DEF Noted
    <3>2. CASE c.op \in {"Pointer", "AttribPointer"} /\ a = Meant(program, c.what)
      <4>1. a \notin woven'
        BY <1>1, <3>2 DEF Noted
      <4>2. ~Forgets(guest, c)
        BY <3>2 DEF Forgets
      <4> QED
        BY <1>4, <2>2, <3>1, <3>2, <3>4, <4>1, <4>2
    <3>3. CASE c.op = "Interleaved" /\ a \in {"vertex", program.unit}
      <4>1. a \in woven' /\ guest'.interPtr = Client(m) /\ guest'.interleaved
        BY <1>1, <2>2, <3>1, <3>3 DEF Noted
      <4> QED
        BY <3>4, <4>1
    <3> QED
      BY <2>3, <3>2, <3>3
  <2>4. CASE ~Sets
    <3>1. program.src[0][a] = Client(m)
      BY <1>5, <2>1, <2>4, Kinds
    <3>2. /\ m \in kit.blocks
          /\ a \in woven => guest.interPtr = Client(m)
          /\ a \notin woven \union lost => guest.ptr[a] = Client(m)
          /\ a \in woven \ lost /\ ~guest.interleaved => Holds(v, m, mem[m])
      BY <3>1 DEF Linked
    <3>3. CASE c.op \in {"Pointer", "AttribPointer"}
      <4>1. a # Meant(program, c.what) /\ ~Forgets(guest, c) /\ c.op # "Interleaved"
        BY <2>4, <3>3 DEF Forgets
      <4>2. (a \in woven' <=> a \in woven) /\ (a \in lost' <=> a \in lost)
        BY <1>1, <3>3, <4>1 DEF Noted
      <4> HIDE DEF Sets, Clears
      <4> QED
        BY <1>1, <1>4, <2>2, <3>2, <4>1, <4>2
    <3>4. CASE c.op = "Interleaved"
      <4>1. a \notin woven' /\ (a \notin lost' => a \notin woven \union lost)
        BY <1>1, <2>4, <3>4 DEF Noted
      <4>2. ~Forgets(guest, c)
        BY <3>4 DEF Forgets
      <4> QED
        BY <2>2, <3>2, <3>4, <4>1, <4>2
    <3>5. CASE c.op \notin Specifies
      <4>1. /\ woven' = woven /\ lost \subseteq lost'
            /\ Forgets(program, c) => Forgotten \subseteq lost'
        BY <1>1, <3>5 DEF Noted
      <4>2. guest'.interPtr = guest.interPtr /\ (guest'.interleaved <=> guest.interleaved)
        BY <2>2, <3>5 DEF Specifies
      <4>3. ASSUME a \notin woven' \union lost' PROVE ~Forgets(guest, c)
        <5>1. program.src[0][a][1] = "client"
          BY <3>1, Kinds
        <5>2. a \in Forgotten
          BY <4>1, <4>3, <5>1 DEF Forgotten
        <5> QED
          BY <1>3, <4>1, <4>3, <5>2
      <4>4. a \notin woven' \union lost' => guest'.ptr[a] = guest.ptr[a]
        BY <2>2, <3>5, <4>3 DEF Specifies
      <4> QED
        BY <1>1, <3>2, <4>1, <4>2, <4>4
    <3> QED
      BY <3>3, <3>4, <3>5 DEF Specifies
  <2> QED
    BY <2>3, <2>4
<1> QED
  BY <1>1, <1>5 DEF Linked

\* A call that is no draw leads to a state of its own.
LEMMA StateMade ==
  ASSUME Orderly, NoCaps, TInv, GuestBound, NEW c \in Calls, NEW names, NEW data, NEW want,
         Made(c, names, data, want), c.op \notin Draws, Kept(c, guest), NEW y, Ends(y)
  PROVE  \E x : /\ StateOK(x) /\ Ends(x)'
                /\ Leads([call |-> c, names |-> names, data |-> data, want |-> want], y, x)
<1>1. PICK x : x = [copy |-> guest', gl |-> program', shown |-> y.shown]
  OBVIOUS
<1>2. x.copy = guest' /\ x.gl = program' /\ x.shown = y.shown
  BY <1>1
<1>3. /\ program' = GLCall(program, c) /\ guest' = Tracked(guest, c) /\ kit' = kit /\ Noted(c)
      /\ program \in GLType /\ guest \in CopyType
  BY DEF Made, Unfollowed, Queued, Followed, TInv, TypeOK
<1>4. /\ y.copy = guest /\ y.gl = program
      /\ kit.style # "objects" => guest.elemBuf = program.elem[0] /\ Linked(y.shown)
      /\ kit.style = "conventional" => guest.unit = program.unit
  BY DEF Ends
<1>5. StateOK(x)
  <2>1. TInv'
    BY MadeTypes
  <2> QED
    BY <1>2, <2>1 DEF StateOK, TInv, TypeOK
<1>6. Leads([call |-> c, names |-> names, data |-> data, want |-> want], y, x)
  BY <1>2, <1>3, <1>4 DEF Leads, Followed, GuestBound
<1>7. ASSUME kit.style # "objects"
      PROVE  guest'.elemBuf = program'.elem[0] /\ Linked(x.shown)'
  <2>1. /\ c.op \notin {"BindVao", "DeleteVao"} /\ guest.vao = 0 /\ program.vao = 0
        /\ guest.elemBuf = program.elem[0]
    BY <1>4, <1>7 DEF Kept, GuestBound
  <2>2. guest'.elemBuf = program'.elem[0]
    BY <1>3, <2>1, ElementsAfter
  <2>3. PICK v : v = x.shown
    OBVIOUS
  <2>4. Linked(v)
    BY <1>2, <1>4, <1>7, <2>3
  <2>5. Linked(v)'
    BY <1>4, <1>7, <2>4, LinkedAfter
  <2> QED
    BY <2>2, <2>3, <2>5
<1>8. kit.style = "conventional" => guest'.unit = program'.unit
  BY <1>3, <1>4, UnitAfter DEF Noted
<1>9. Ends(x)'
  BY <1>2, <1>3, <1>7, <1>8 DEF Ends
<1> QED
  BY <1>5, <1>6, <1>9

\* What the draw of an orderly program reads of its memory is sent with it, or the cache has
\* it already.
LEMMA DrawSends ==
  ASSUME TInv, GuestBound, NEW op \in Draws, NEW part, MayDraw(op, part), NEW v, Linked(v),
         kit.style # "objects" => guest.elemBuf = program.elem[0],
         NEW a \in ReadArrays(program), NEW m \in Mem, program.src[program.vao][a] = Client(m)
  PROVE  \/ \E k \in DOMAIN Carried(guest, op) :
              Carried(guest, op)[k] # "indices" /\ PlaceOf(guest, Carried(guest, op)[k]) = Client(m)
         \/ Holds(v, m, mem[m]) /\ part = Whole
<1> DEFINE src == program.src[program.vao]
           inMemory == {x \in ReadArrays(program) : src[x][1] = "client"}
           names == Carried(guest, op)
<1>1. a \in inMemory
  BY Kinds
<1>2. /\ kit.style # "objects" /\ program.arrayBuf = 0
      /\ op = "DrawElements" => program.elem[program.vao] = 0
      /\ inMemory \subseteq IF guest.interleaved THEN woven ELSE woven \union guest.on
      /\ a \notin lost /\ (a \in woven => part = Whole)
  BY <1>1 DEF MayDraw
<1>3. a \in IF guest.interleaved THEN woven ELSE woven \union guest.on
  BY <1>1, <1>2
<1> HIDE DEF inMemory
<1>4. /\ guest \in CopyType /\ program.vao = 0 /\ guest.arrayBuf = 0
      /\ op = "DrawElements" => guest.elemBuf = 0
  BY <1>2 DEF TInv, TypeOK, GuestBound
<1>5. PushesArrays(guest, op)
  BY <1>4 DEF PushesArrays, Draws
<1>6. /\ PushesInterleaved(guest) => Has(names, "interleaved")
      /\ ~PushesInterleaved(guest) => \A x \in guest.on : guest.ptr[x] # Null => Has(names, x)
  BY <1>4, <1>5, CarriedHas
<1>7. a \in Arrays
  BY <1>4 DEF TInv, TypeOK, GLType, ReadArrays
<1>8. /\ a \in woven => guest.interPtr = Client(m)
      /\ a \notin woven \union lost => guest.ptr[a] = Client(m)
      /\ a \in woven \ lost /\ ~guest.interleaved => Holds(v, m, mem[m])
  BY <1>4, <1>7 DEF Linked
<1> HIDE DEF names, src
<1>9. CASE guest.interleaved
  <2>1. guest.interPtr = Client(m)
    BY <1>3, <1>8, <1>9
  <2>2. PushesInterleaved(guest)
    BY <1>9, <2>1, Kinds DEF PushesInterleaved
  <2>3. PICK k \in DOMAIN names : names[k] = "interleaved"
    BY <1>6, <2>2 DEF Has
  <2> QED
    BY <2>1, <2>3 DEF PlaceOf, names
<1>10. CASE ~guest.interleaved /\ a \in woven
  BY <1>2, <1>8, <1>10
<1>11. CASE ~guest.interleaved /\ a \notin woven
  <2>1. guest.ptr[a] = Client(m) /\ a \in guest.on
    BY <1>2, <1>3, <1>8, <1>11
  <2>2. ~PushesInterleaved(guest)
    BY <1>11 DEF PushesInterleaved
  <2>3. PICK k \in DOMAIN names : names[k] = a
    BY <1>6, <2>1, <2>2, Kinds DEF Has
  <2>4. a # "indices" /\ a # "interleaved"
    BY <1>7 DEF Arrays, Units
  <2> QED
    BY <2>1, <2>3, <2>4 DEF PlaceOf, names
<1> QED
  BY <1>9, <1>10, <1>11

\* Draws of orderly programs can be drawn.
LEMMA DrawDrawable ==
  ASSUME TInv, GuestBound, NEW op \in Draws, NEW part, MayDraw(op, part),
         kit.style = "objects" => guest.vao # 0,
         kit.style # "objects" => guest.elemBuf = program.elem[0],
         NEW y, y.copy = guest, y.gl = program
  PROVE  Drawable(y, op)
<1>1. program \in GLType /\ program.vao \in Vaos \union {0}
  BY DEF TInv, TypeOK, GLType
<1> DEFINE src == program.src[program.vao]
           inMemory == {x \in ReadArrays(program) : src[x][1] = "client"}
<1>2. ASSUME NEW a \in ReadArrays(program)
      PROVE  src[a][1] = "buffer" \/ (kit.style # "objects" /\ \E m \in Mem : src[a] = Client(m))
  <2>1. src[a][1] \in {"client", "buffer"}
    BY DEF MayDraw
  <2>2. CASE src[a][1] = "client"
    <3>1. a \in inMemory
      BY <2>2
    <3>2. kit.style # "objects"
      BY <3>1 DEF MayDraw
    <3>3. src[a] \in Address
      BY <1>1 DEF GLType, ReadArrays
    <3> HIDE DEF src
    <3>4. \E m \in Mem : src[a] = Client(m)
      BY <2>2, <3>3, ClientIs
    <3> QED
      BY <3>2, <3>4
  <2> QED
    BY <2>1, <2>2
<1>3. ASSUME op = "DrawElements"
      PROVE  program.elem[program.vao] = 0 <=> guest.elemBuf = 0
  <2>1. CASE kit.style = "objects"
    <3>1. program.elem[program.vao] # 0
      BY <1>3, <2>1 DEF MayDraw
    <3>2. guest.elemBuf # 0
      BY <2>1 DEF GuestBound
    <3> QED
      BY <3>1, <3>2
  <2>2. CASE kit.style # "objects"
    BY <2>2 DEF GuestBound
  <2> QED
    BY <2>1, <2>2
<1> QED
  BY <1>2, <1>3 DEF Drawable

\* A draw leads to a state in which the cache shows the blocks it sent.
LEMMA DrawLeads ==
  ASSUME TInv, GuestBound, Orderly, NoCaps, Near, NEW c \in Calls, NEW names, NEW data, NEW want,
         Made(c, names, data, want), c.op \in Draws, Kept(c, guest), NEW y, Ends(y)
  PROVE  \E x : /\ StateOK(x) /\ Ends(x)'
                /\ Leads([call |-> c, names |-> names, data |-> data, want |-> want], y, x)
<1> DEFINE op == c.op
           part == c.part
           v == y.shown
           has(m) == \E k \in DOMAIN names :
                       names[k] # "indices" /\ PlaceOf(guest, names[k]) = Client(m)
<1>1. PICK w : w = [m \in Mem |-> [j \in Offsets |->
                      IF has(m) /\ j \in Touched(part) THEN mem[m] ELSE v[m][j]]]
  OBVIOUS
<1>2. \A m \in Mem, j \in Offsets :
        w[m][j] = IF has(m) /\ j \in Touched(part) THEN mem[m] ELSE v[m][j]
  <2> HIDE DEF has, v
  <2> QED
    BY <1>1
<1>3. part \in PartType /\ MayReach(part) /\ Touched(part) \subseteq Offsets
  <2>1. part \in PartType /\ MayReach(part)
    BY DEF Calls, CallType, Kept
  <2> QED
    BY <2>1, TouchedBytes
<1>4. PICK x : x = [copy |-> guest', gl |-> program', shown |-> w]
  OBVIOUS
<1>5. x.copy = guest' /\ x.gl = program' /\ x.shown = w
  BY <1>4
<1>6. /\ program' = program /\ guest' = AfterDraw(guest, op) /\ kit' = kit /\ mem' = mem
      /\ woven' = woven /\ lost \subseteq lost'
      /\ program \in GLType /\ guest \in CopyType
  <2>1. program' = GLCall(program, c) /\ guest' = Followed(guest, c) /\ kit' = kit /\ mem' = mem
        /\ Noted(c)
    BY DEF Made, Unfollowed, Queued
  <2>2. program' = program /\ c.op \notin Specifies
    BY <2>1 DEF GLCall, Draws, Specifies
  <2> QED
    BY <2>1, <2>2 DEF Followed, Noted, TInv, TypeOK
<1>7. /\ names = Carried(guest, op) /\ data = [i \in DOMAIN names |-> Value(names[i])]
      /\ want = Wanted(op) /\ MayDraw(op, part)
  BY DEF Made, Sent
<1>8. /\ y.copy = guest /\ y.gl = program
      /\ kit.style # "objects" => guest.elemBuf = program.elem[0] /\ Linked(v)
      /\ kit.style = "conventional" => guest.unit = program.unit
  BY DEF Ends
<1>9. kit.style = "objects" => guest.vao # 0
  BY DEF Kept
<1> HIDE DEF op, part, v, has
<1>10. op \in Draws
  BY DEF op
<1>11. StateOK(x)
  <2>1. TInv'
    BY MadeTypes
  <2> QED
    BY <1>5, <2>1 DEF StateOK, TInv, TypeOK
<1>12. Drawable(y, op)
  BY <1>7, <1>8, <1>9, <1>10, DrawDrawable
<1>13. Brings(guest, names, data, part, v, w)
  <2>1. ASSUME NEW m \in Mem, NEW k \in DOMAIN names, names[k] # "indices",
               PlaceOf(guest, names[k]) = Client(m), NEW j \in Touched(part)
        PROVE  data[k] = w[m][j]
    <3>1. Value(names[k]) = mem[m]
      BY <2>1, Kinds DEF Value
    <3>2. w[m][j] = mem[m]
      BY <1>2, <1>3, <2>1 DEF has
    <3> QED
      BY <1>7, <3>1, <3>2
  <2>2. DOMAIN data = DOMAIN names
    BY <1>7
  <2>3. \A m \in Mem, j \in Offsets :
          \/ j \notin Touched(part)
          \/ \A k \in DOMAIN names : names[k] = "indices" \/ PlaceOf(guest, names[k]) # Client(m)
          => w[m][j] = v[m][j]
    BY <1>2 DEF has
  <2> QED
    BY <2>1, <2>2, <2>3 DEF Brings
<1>14. ASSUME NEW a \in ReadArrays(program), NEW m \in Mem,
              program.src[program.vao][a] = Client(m), ~Overflowed(names, part)
       PROVE  part.size <= Half /\ \A j \in Used(part) : w[m][j] = mem[m]
  <2>1. kit.style # "objects"
    <3>1. program.src[program.vao][a][1] = "client"
      BY <1>14, Kinds
    <3> QED
      BY <1>7, <3>1, <1>14 DEF MayDraw
  <2>2. has(m) \/ (Holds(v, m, mem[m]) /\ part = Whole)
    BY <1>7, <1>8, <1>10, <1>14, <2>1, DrawSends DEF has
  <2>3. part.size <= Half
    <3>1. CASE has(m)
      BY <1>14, <1>3, <3>1, TouchedBytes, Numbers DEF has, Overflowed
    <3>2. CASE part = Whole
      BY <3>2, TouchedWhole, Numbers
    <3> QED
      BY <2>2, <3>1, <3>2
  <2>4. Used(part) = Touched(part)
    BY <1>3, <2>3, TouchedBytes DEF Used, Touched
  <2>5. ASSUME NEW j \in Used(part) PROVE w[m][j] = mem[m]
    <3>1. j \in Touched(part) /\ j \in Offsets
      BY <1>3, <2>4
    <3> QED
      BY <1>2, <2>2, <3>1 DEF Holds
  <2> QED
    BY <2>3, <2>5
<1>15. ASSUME NEW a \in ReadArrays(program), program.src[program.vao][a][1] = "client"
       PROVE  \E m \in Mem : program.src[program.vao][a] = Client(m)
  <2> DEFINE s == program.src[program.vao][a]
  <2>1. s \in Address
    BY <1>6 DEF GLType, ReadArrays
  <2> HIDE DEF s
  <2>2. \E m \in Mem : s = Client(m)
    BY <1>15, <2>1, ClientIs DEF s
  <2> QED
    BY <2>2 DEF s
<1>16. ASSUME ~Overflowed(names, part)
       PROVE  Uncut(program, part) /\ want = View(program, op, part, w)
  <2>1. Uncut(program, part)
    BY <1>14, <1>16, <1>15 DEF Uncut
  <2>2. ASSUME NEW p \in ReadParts(program, op)
        PROVE  Wanted(op)[p] = View(program, op, part, w)[p]
    <3>1. CASE p = "indices"
      BY <2>2, <3>1 DEF Wanted, View
    <3>2. CASE p # "indices"
      <4> DEFINE s == program.src[program.vao][p]
                 shown == {w[s[2]][j] : j \in Used(part)}
      <4>1. p \in ReadArrays(program)
        BY <2>2, <3>2 DEF ReadParts
      <4>2. /\ Wanted(op)[p] = IF s[1] = "client" THEN Memory({mem[s[2]]}) ELSE s
            /\ View(program, op, part, w)[p] = IF s[1] = "client" THEN Memory(shown) ELSE s
        BY <2>2, <3>2 DEF Wanted, View
      <4>3. CASE s[1] = "client"
        <5>1. PICK m \in Mem : s = Client(m)
          BY <1>15, <4>1, <4>3
        <5>2. s[2] = m /\ \A j \in Used(part) : w[m][j] = mem[m]
          BY <1>14, <1>16, <4>1, <5>1, Kinds
        <5>3. part.first \in Used(part)
          BY <1>3, TouchedBytes DEF Used
        <5> HIDE DEF s
        <5>4. shown = {mem[m]}
          BY <5>2, <5>3
        <5> HIDE DEF shown
        <5> QED
          BY <4>2, <4>3, <5>2, <5>4
      <4> HIDE DEF s, shown
      <4> QED
        BY <4>2, <4>3
    <3> QED
      BY <3>1, <3>2
  <2> QED
    BY <1>7, <2>1, <2>2 DEF Wanted, View
<1>17. guest' \in CopyType /\ guest'.ptr = guest.ptr /\ guest'.interPtr = guest.interPtr
       /\ guest'.elemBuf = guest.elemBuf /\ guest'.unit = guest.unit
       /\ guest'.interleaved = IF PushesArrays(guest, op) /\ PushesInterleaved(guest) THEN FALSE
                               ELSE guest.interleaved
  BY <1>6 DEF AfterDraw, CopyType
<1>18. ASSUME kit.style # "objects"
       PROVE  Linked(w)'
  <2>1. ASSUME NEW a \in Arrays, NEW m \in Mem, program.src[0][a] = Client(m)
        PROVE  /\ m \in kit.blocks
               /\ a \in woven => guest'.interPtr = Client(m)
               /\ a \notin woven \union lost' => guest'.ptr[a] = Client(m)
               /\ a \in woven \ lost' /\ ~guest'.interleaved => Holds(w, m, mem[m])
    <3>1. /\ m \in kit.blocks
          /\ a \in woven => guest.interPtr = Client(m)
          /\ a \notin woven \union lost => guest.ptr[a] = Client(m)
          /\ a \in woven \ lost /\ ~guest.interleaved => Holds(v, m, mem[m])
      BY <1>8, <1>18, <2>1 DEF Linked
    <3>2. ASSUME a \in woven \ lost', ~guest'.interleaved
          PROVE  Holds(w, m, mem[m])
      <4>1. a \in woven \ lost
        BY <1>6, <3>2
      <4>2. CASE guest.interleaved
        <5>1. PushesArrays(guest, op) /\ PushesInterleaved(guest)
          BY <1>17, <3>2, <4>2
        <5>2. Has(names, "interleaved")
          BY <1>6, <1>7, <5>1, CarriedHas
        <5>3. has(m)
          BY <3>1, <4>1, <5>2 DEF Has, has, PlaceOf
        <5>4. Touched(part) = Offsets
          BY <1>7, <4>1, TouchedWhole DEF MayDraw
        <5> QED
          BY <1>2, <5>3, <5>4 DEF Holds
      <4>3. CASE ~guest.interleaved
        BY <1>2, <3>1, <4>1, <4>3 DEF Holds
      <4> QED
        BY <4>2, <4>3
    <3> QED
      BY <1>6, <1>17, <3>1, <3>2
  <2> QED
    BY <1>6, <2>1 DEF Linked
<1>19. Ends(x)'
  BY <1>5, <1>6, <1>8, <1>17, <1>18 DEF Ends
<1>20. Leads([call |-> c, names |-> names, data |-> data, want |-> want], y, x)
  <2> DEFINE e == [call |-> c, names |-> names, data |-> data, want |-> want]
  <2>1. e.call = c /\ e.names = names /\ e.data = data /\ e.want = want
    OBVIOUS
  <2> HIDE DEF e
  <2>2. x.copy = Followed(y.copy, c) /\ x.gl = GLCall(y.gl, c)
    <3>1. GLCall(program, c) = program'
      BY DEF Made, Queued
    <3> QED
      BY <1>5, <1>6, <1>8, <3>1 DEF Followed, op
  <2>3. kit.style # "objects" => y.copy.arrayBuf = y.gl.arrayBuf
    BY <1>8 DEF GuestBound
  <2> USE DEF op, part, v
  <2>4. Leads(e, y, x)
    BY <1>5, <1>7, <1>8, <1>12, <1>13, <1>16, <2>1, <2>2, <2>3 DEF Leads
  <2> QED
    BY <2>4 DEF e
<1> QED
  BY <1>11, <1>19, <1>20

-----------------------------------------------------------------------------
(* Draws read right: the inductive invariant.                              *)

\* Without a context the vertex cache is empty, and the library's client state is the
\* initial one except for sources of arrays.
DInv ==
  /\ OInv
  /\ context => \E run : Course(run)
  /\ ~context => cache = <<>> /\ Agrees(GLInit, library)
  /\ DrawsRight

\* The state a context begins with.
NewState == [copy |-> NoClientState, gl |-> GLInit,
             shown |-> [m \in Mem |-> [j \in Offsets |-> "blank"]]]

LEMMA NewStateIs ==
  /\ StateOK(NewState) /\ Shows(<<>>, NewState.shown)
  /\ NewState.copy = NoClientState /\ NewState.gl = GLInit
  /\ \A lib : Buffered(GLInit, lib)
  /\ \A lib, c : Sourced(GLInit, lib, c)
  /\ \A c : Pointed(NoClientState, NoClientState, c)
<1>1. /\ NewState.copy = NoClientState /\ NewState.gl = GLInit
      /\ \A m \in Mem : Holds(NewState.shown, m, "blank")
  BY DEF NewState, Holds
<1>2. StateOK(NewState)
  BY <1>1, NewTypes DEF StateOK
<1>3. Shows(<<>>, NewState.shown)
  <2>1. DOMAIN <<>> = {}
    OBVIOUS
  <2> QED
    BY <1>1, <2>1 DEF Shows
<1>4. \A v \in Vaos \union {0}, a \in Arrays : GLInit.src[v][a] = Null
  BY DEF GLInit
<1>5. Null[1] # "buffer" /\ \A m : Client(m) # Null
  BY Kinds DEF Null
<1>6. (\A lib : Buffered(GLInit, lib)) /\ \A lib, c : Sourced(GLInit, lib, c)
  BY <1>4, <1>5 DEF Buffered, Sourced
<1>7. \A a \in Parts : PlaceOf(NoClientState, a) = Null
  BY DEF Parts, PlaceOf, NoClientState
<1>8. \A c : Pointed(NoClientState, NoClientState, c)
  BY <1>7, NullPoints DEF Pointed
<1> QED
  BY <1>1, <1>2, <1>3, <1>6, <1>8

\* It holds at first.
LEMMA InitDraws ==
  ASSUME Init
  PROVE  DInv
<1>1. /\ guest = NoClientState /\ device = NoClientState /\ program = GLInit /\ library = GLInit
      /\ fifo = <<>> /\ cache = <<>> /\ context = TRUE /\ drawn = NoDraw
  BY DEF Init
<1>2. PICK run : run = [k \in 1 .. 1 |-> NewState]
  OBVIOUS
<1>3. Len(fifo) = 0 /\ 1 .. Len(fifo) = {} /\ run[1] = NewState /\ run[Len(fifo) + 1] = NewState
      /\ \A k \in 1 .. Len(fifo) + 1 : run[k] = NewState
  BY <1>1, <1>2
<1>4. Begins(NewState)
  BY <1>1, NewStateIs, AlikeItself DEF Begins, Agrees
<1>5. Ends(NewState)
  <2>1. \A a \in Arrays : program.src[0][a] = Null
    BY <1>1 DEF GLInit
  <2>2. Linked(NewState.shown)
    BY <2>1, Kinds DEF Linked
  <2> QED
    BY <1>1, <2>2, NewStateIs DEF Ends, NoClientState, GLInit
<1>6. Course(run)
  BY <1>3, <1>4, <1>5, NewStateIs DEF Course
<1> QED
  BY <1>1, <1>6, InitFits DEF DInv, DrawsRight, NoDraw

\* A new context begins with one state.
LEMMA CourseBegun ==
  ASSUME TInv, CreateContext, cache = <<>>, Agrees(GLInit, library)
  PROVE  \E run : Course(run)'
<1>1. /\ guest' = NoClientState /\ device' = NoClientState /\ program' = GLInit
      /\ library' = library /\ fifo' = <<>> /\ cache' = <<>>
  BY DEF CreateContext, TInv, ContextInv
<1>2. PICK run : run = [k \in 1 .. 1 |-> NewState]
  OBVIOUS
<1>3. Len(fifo') = 0 /\ 1 .. Len(fifo') = {} /\ run[1] = NewState /\ run[Len(fifo') + 1] = NewState
      /\ \A k \in 1 .. Len(fifo') + 1 : run[k] = NewState
  BY <1>1, <1>2
<1>4. Begins(NewState)'
  BY <1>1, NewStateIs, AlikeItself DEF Begins
<1>5. Ends(NewState)'
  <2>1. \A a \in Arrays : program'.src[0][a] = Null
    BY <1>1 DEF GLInit
  <2>2. Linked(NewState.shown)'
    BY <2>1, Kinds DEF Linked
  <2> QED
    BY <1>1, <2>2, NewStateIs DEF Ends, NoClientState, GLInit
<1>6. Course(run)'
  BY <1>3, <1>4, <1>5, NewStateIs DEF Course
<1> QED
  BY <1>6

\* A program that writes its memory loses what was not to be sent again.
LEMMA CourseWritten ==
  ASSUME TInv, NEW h \in kit.blocks, NEW value \in Values, Write(h, value), NEW run, Course(run)
  PROVE  Course(run)'
<1>1. /\ mem' = [mem EXCEPT ![h] = value] /\ kit' = kit /\ program' = program /\ woven' = woven
      /\ guest' = guest /\ fifo' = fifo /\ device' = device /\ cache' = cache
      /\ library' = library
      /\ lost' = IF guest.interleaved THEN lost
                 ELSE lost \union {a \in woven : program.src[0][a] = Client(h)}
      /\ mem \in [kit.blocks -> Values]
  BY DEF Write, deviceVars, TInv, TypeOK
<1>2. PICK x : x = run[Len(fifo) + 1]
  OBVIOUS
<1>3. Ends(x)
  BY <1>2 DEF Course
<1>4. ASSUME kit.style # "objects"
      PROVE  Linked(x.shown)'
  <2>1. ASSUME NEW a \in Arrays, NEW m \in Mem, program.src[0][a] = Client(m)
        PROVE  /\ m \in kit.blocks
               /\ a \in woven => guest.interPtr = Client(m)
               /\ a \notin woven \union lost' => guest.ptr[a] = Client(m)
               /\ a \in woven \ lost' /\ ~guest.interleaved => Holds(x.shown, m, mem'[m])
    <3>1. /\ m \in kit.blocks
          /\ a \in woven => guest.interPtr = Client(m)
          /\ a \notin woven \union lost => guest.ptr[a] = Client(m)
          /\ a \in woven \ lost /\ ~guest.interleaved => Holds(x.shown, m, mem[m])
      BY <1>3, <1>4, <2>1 DEF Ends, Linked
    <3>2. ASSUME a \in woven \ lost', ~guest.interleaved PROVE m # h /\ a \notin lost
      BY <1>1, <2>1, <3>2
    <3>3. m # h => mem'[m] = mem[m]
      BY <1>1, <3>1
    <3>4. lost \subseteq lost'
      BY <1>1
    <3> QED
      BY <3>1, <3>2, <3>3, <3>4
  <2> QED
    BY <1>1, <2>1 DEF Linked
<1>5. Ends(x)'
  BY <1>1, <1>3, <1>4 DEF Ends
<1>6. \A k \in 1 .. Len(fifo) : Leads(fifo[k], run[k], run[k + 1])'
  BY <1>1 DEF Course, Leads, Kept, Drawable
<1>7. Begins(run[1])'
  BY <1>1 DEF Course, Begins
<1> QED
  BY <1>1, <1>2, <1>5, <1>6, <1>7 DEF Course

\* An orderly program leaves the library's client state as it found it.
LEMMA CourseLeft ==
  ASSUME TInv, DeleteContext, MayLeave, NEW run, Course(run)
  PROVE  cache' = <<>> /\ Agrees(GLInit, library')
<1>1. /\ fifo = <<>> /\ cache' = <<>> /\ program \in GLType /\ library \in GLType
      /\ library' = [library EXCEPT !.src =
           [v \in DOMAIN @ |-> [a \in Arrays |-> IF @[v][a][1] = "cache" THEN Wild ELSE @[v][a]]]]
  BY DEF DeleteContext, TInv, TypeOK
<1>2. PICK x : x = run[1]
  OBVIOUS
<1>3. Begins(x) /\ Ends(x)
  BY <1>1, <1>2 DEF Course
<1>4. Agrees(program, library)
  BY <1>3 DEF Begins, Ends
<1>5. /\ library'.vao = library.vao /\ library'.arrayBuf = library.arrayBuf
      /\ library'.unit = library.unit /\ library'.on = library.on /\ library'.elem = library.elem
  BY <1>1 DEF GLType
<1>6. /\ program.vao = 0 /\ program.arrayBuf = 0 /\ program.unit = "tex0"
      /\ program.on = [v \in Vaos \union {0} |-> {}]
      /\ program.elem = [v \in Vaos \union {0} |-> 0]
  <2>1. /\ DOMAIN program.on = Vaos \union {0} /\ DOMAIN program.elem = Vaos \union {0}
        /\ program.on \in [Vaos \union {0} -> SUBSET Arrays]
        /\ program.elem \in [Vaos \union {0} -> Buffers \union {0}]
    BY <1>1 DEF GLType
  <2>2. \A v \in Vaos \union {0} : program.on[v] = {} /\ program.elem[v] = 0
    BY <2>1 DEF MayLeave
  <2> QED
    BY <2>1, <2>2 DEF MayLeave
<1> QED
  BY <1>1, <1>4, <1>5, <1>6 DEF Agrees, GLInit

\* Every step of an orderly program, and of the device, keeps it.
LEMMA StepDraws ==
  ASSUME Orderly, NoCaps, Near, DInv, [Next]_vars
  PROVE  DInv'
<1>1. OInv' /\ OInv /\ TInv /\ GuestBound /\ FifoType
  BY StepFits DEF DInv, OInv, TInv
<1>2. /\ context => \E run : Course(run)
      /\ ~context => cache = <<>> /\ Agrees(GLInit, library)
      /\ context \in BOOLEAN /\ DrawsRight
  BY <1>1 DEF DInv, TInv, TypeOK
<1>3. CASE UNCHANGED vars
  <2>1. /\ kit' = kit /\ program' = program /\ mem' = mem /\ lost' = lost /\ woven' = woven
        /\ guest' = guest /\ fifo' = fifo /\ device' = device /\ cache' = cache
        /\ library' = library /\ context' = context /\ drawn' = drawn
    BY <1>3 DEF vars, programVars, deviceVars
  <2>2. ASSUME NEW run, Course(run) PROVE Course(run)'
    <3>1. Begins(run[1])'
      BY <2>1, <2>2 DEF Course, Begins
    <3>2. PICK x : x = run[Len(fifo) + 1]
      OBVIOUS
    <3>3. Ends(x)'
      BY <2>1, <2>2, <3>2 DEF Course, Ends, Linked
    <3>4. \A k \in 1 .. Len(fifo) : Leads(fifo[k], run[k], run[k + 1])'
      BY <2>1, <2>2 DEF Course, Leads, Kept, Drawable
    <3> QED
      BY <2>1, <2>2, <3>1, <3>2, <3>3, <3>4 DEF Course
  <2> QED
    BY <1>1, <1>2, <2>1, <2>2 DEF DInv, DrawsRight
<1>4. ASSUME NEW c \in Calls, NEW names, NEW data, NEW want, Made(c, names, data, want)
      PROVE  DInv'
  <2>1. /\ Kept(c, guest) /\ drawn' = NoDraw /\ kit' = kit /\ UNCHANGED deviceVars
        /\ context = TRUE /\ context' = context
        /\ fifo' = Append(fifo, [call |-> c, names |-> names, data |-> data, want |-> want])
    BY <1>1, <1>2, <1>4 DEF Made, Queued
  <2>2. PICK run : Course(run)
    BY <1>2, <2>1
  <2>3. PICK y : y = run[Len(fifo) + 1]
    OBVIOUS
  <2>4. Ends(y)
    BY <2>2, <2>3 DEF Course
  <2>5. \E x : /\ StateOK(x) /\ Ends(x)'
               /\ Leads([call |-> c, names |-> names, data |-> data, want |-> want], y, x)
    <3>1. CASE c.op \in Draws
      BY <1>1, <1>4, <2>1, <2>4, <3>1, DrawLeads
    <3>2. CASE c.op \notin Draws
      BY <1>1, <1>4, <2>1, <2>4, <3>2, StateMade
    <3> QED
      BY <3>1, <3>2
  <2>6. PICK x : /\ StateOK(x) /\ Ends(x)'
                 /\ Leads([call |-> c, names |-> names, data |-> data, want |-> want], y, x)
    BY <2>5
  <2>7. \E new : Course(new)'
    BY <1>1, <2>1, <2>2, <2>3, <2>6, CourseLonger
  <2> QED
    BY <1>1, <2>1, <2>7 DEF DInv, DrawsRight, NoDraw
<1>5. ASSUME NEW m \in kit.blocks, NEW v \in Values, Write(m, v)
      PROVE  DInv'
  <2>1. context = TRUE /\ context' = context /\ drawn' = NoDraw
    BY <1>2, <1>5 DEF Write
  <2>2. \E run : Course(run)'
    BY <1>1, <1>2, <1>5, <2>1, CourseWritten
  <2> QED
    BY <1>1, <2>1, <2>2 DEF DInv, DrawsRight, NoDraw
<1>6. CASE DeleteContext
  <2>1. context /\ context' = FALSE /\ drawn' = NoDraw /\ MayLeave
    BY <1>6 DEF DeleteContext
  <2>2. cache' = <<>> /\ Agrees(GLInit, library')
    BY <1>1, <1>2, <1>6, <2>1, CourseLeft
  <2>3. Agrees(GLInit, library)'
    BY <2>2
  <2> QED
    BY <1>1, <2>1, <2>2, <2>3 DEF DInv, DrawsRight, NoDraw
<1>7. CASE CreateContext
  <2>1. ~context /\ context' = TRUE /\ drawn' = NoDraw
    BY <1>7 DEF CreateContext
  <2>2. \E run : Course(run)'
    BY <1>1, <1>2, <1>7, <2>1, CourseBegun
  <2> QED
    BY <1>1, <2>1, <2>2 DEF DInv, DrawsRight, NoDraw
<1>8. CASE DeviceCall \/ DeviceDraw
  <2>1. /\ fifo # <<>> /\ fifo' = Tail(fifo) /\ UNCHANGED <<programVars, guest>>
        /\ context' = context
    BY <1>8 DEF DeviceCall, DeviceDraw, programVars
  <2>2. context = TRUE
    BY <1>1, <1>2, <2>1 DEF TInv, ContextInv
  <2>3. PICK run : Course(run)
    BY <1>2, <2>2
  <2>4. Len(fifo) \in Nat /\ Len(fifo) >= 1
    BY <1>1, <2>1, FifoIs
  <2>5. PICK x, y : x = run[1] /\ y = run[2]
    OBVIOUS
  <2>6. StateOK(x) /\ Begins(x) /\ Leads(fifo[1], x, y)
    <3>1. 1 \in 1 .. Len(fifo) /\ 1 \in 1 .. Len(fifo) + 1 /\ 1 + 1 = 2
      BY <2>4
    <3> QED
      BY <2>3, <2>5, <3>1 DEF Course
  <2>7. Begins(y)' /\ DrawsRight'
    <3>1. CASE DeviceCall
      <4>1. Begins(y)'
        BY <1>1, <2>6, <3>1, BeginsCall
      <4>2. drawn' = NoDraw
        BY <3>1 DEF DeviceCall
      <4> QED
        BY <4>1, <4>2 DEF DrawsRight, NoDraw
    <3>2. CASE DeviceDraw
      BY <1>1, <2>6, <3>2, BeginsDraw
    <3> QED
      BY <1>8, <3>1, <3>2
  <2>8. \E new : Course(new)'
    BY <1>1, <2>1, <2>3, <2>5, <2>7, CourseShorter
  <2> QED
    BY <1>1, <2>1, <2>2, <2>7, <2>8 DEF DInv
<1>9. CASE Programs
  BY <1>1, <1>4, <1>5, <1>6, <1>7, <1>9, ProgramsMake
<1> QED
  BY <1>3, <1>8, <1>9 DEF Next

\* The strengthened invariant of DrawsRight is inductive for orderly programs.
THEOREM InductiveDraws ==
  ASSUME Orderly, NoCaps, Near
  PROVE  Spec => []DInv
<1>1. Init => DInv
  BY InitDraws
<1>2. DInv /\ [Next]_vars => DInv'
  BY StepDraws
<1> QED
  BY <1>1, <1>2, PTL DEF Spec

\* The library draws what the program had in its arrays when it called: blocks of its memory
\* as they were then, whatever it wrote to them before the device came to the draw, and the
\* buffer objects it named, but for a draw that was cut with a warning (PushVertexArray of
\* both sides, mglvarry.c).
THEOREM DrawsReadRight ==
  ASSUME Orderly, NoCaps, Near
  PROVE  Spec => []DrawsRight
<1>1. DInv => DrawsRight
  BY DEF DInv
<1> QED
  BY <1>1, InductiveDraws, PTL

=============================================================================
